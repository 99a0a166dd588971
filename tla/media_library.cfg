\* Two files in the root, one to a page, and one to upload; three of: a navigation, a change, an upload.
SPECIFICATION MediaSpec
CONSTANTS
  MediaFiles = {0, 1, 2}
  FirstStored = {1, 2}
  MediaFolders = {root, sub}
  Root = root
  MediaPageSize = 1
  NoSheet = NoSheet
  MaxMedia = 3
INVARIANTS ShelfIsShown
PROPERTIES DeletionsAreWarned
CHECK_DEADLOCK FALSE
