------------------------------ MODULE RolesPage ------------------------------
(***************************************************************************)
(* The roles page of the settings (settings/roles.ts, role-locales.ts): a   *)
(* copy of the selected role's permissions is edited, in a matrix and two   *)
(* dialogs, and saved as a whole; each change of the server is followed by  *)
(* a fresh list and a fresh selection.  A restriction to all fields or all  *)
(* locales is no restriction here.                                          *)
(***************************************************************************)
EXTENDS Naturals, FiniteSets

CONSTANTS RoleIds, Uids, RoleLocales, Attributes,
          AllTypes,     \* the subject `*`
          NoRole, NotGranted,
          MaxRoleEdits  \* bound: edits, dialogs, requests and changes from elsewhere

RolesAssumption ==
    /\ AllTypes \notin Uids /\ NoRole \notin RoleIds /\ Attributes # {} /\ MaxRoleEdits \in Nat

VARIABLES
    roles,        \* the server: the permissions of each role, or NoRole
    roleList,     \* `roles`: the list as last loaded
    selected,     \* `selected`
    permissions,  \* `permissions`: the copy under edit
    dialog,       \* `fieldsEditor` or `localesEditor`, or NoDialog
    roleCalls,    \* the requests under way
    edited        \* how much has happened, for the bound

vars == <<roles, roleList, selected, permissions, dialog, roleCalls, edited>>

FieldActions   == {"content.read"}
ContentActions == FieldActions \union {"content.delete"}
Subjects == Uids \union {AllTypes}
Keys     == ContentActions \X Subjects

Permission(own, fields, locales) == [own |-> own, fields |-> fields, locales |-> locales]
Everything == Permission(FALSE, Attributes, RoleLocales)
Nothing    == [k \in Keys |-> NotGranted]

\* The built-in Editor and Author, and one with a permission of its own for a type and a
\* wildcard that is limited to a field (as the API accepts it).
Editor == [k \in Keys |-> IF k[2] = AllTypes THEN Everything ELSE NotGranted]
Author == [k \in Keys |-> IF k[2] = AllTypes THEN [Everything EXCEPT !.own = TRUE] ELSE NotGranted]
Custom == [k \in Keys |->
    IF k[1] \notin FieldActions THEN NotGranted
    ELSE IF k[2] = AllTypes THEN [Everything EXCEPT !.fields = {CHOOSE f \in Attributes : TRUE}]
    ELSE IF k[2] = CHOOSE uid \in Uids : TRUE THEN [Everything EXCEPT !.own = TRUE]
    ELSE NotGranted]

NoDialog == [shows |-> "none"]
Happen == edited < MaxRoleEdits /\ edited' = edited + 1
Fetch(select) == [op |-> "fetch", role |-> select, body |-> Nothing]

\* One role is there, with the permissions given.
Starts(first, free) ==
    /\ roles = [r \in RoleIds |-> IF r = free THEN NoRole ELSE first]
    /\ roleList = [r \in RoleIds |-> NoRole] /\ selected = NoRole /\ permissions = Nothing
    /\ dialog = NoDialog /\ roleCalls = {Fetch(NoRole)} /\ edited = 0

Init == \E first \in {Editor, Author, Custom}, free \in RoleIds : Starts(first, free)

----------------------------------------------------------------------------
(* What the server makes of permissions (`content_in`, `content_fields`).   *)

Granting(ps, a, uid) == {ps[<<a, s>>] : s \in {uid, AllTypes}} \ {NotGranted}

\* The locales in which it may, and whether only with entries of one's own.
Access(ps, a, uid) ==
    {x \in RoleLocales \X BOOLEAN :
        \E p \in Granting(ps, a, uid) : x[1] \in p.locales /\ (p.own => x[2])}
FieldsOf(ps, a, uid) == UNION {p.fields : p \in Granting(ps, a, uid)}

----------------------------------------------------------------------------
(* The list and the selection. *)

\* `pick` and `select`: the role asked for, else the selected one, else the first.
Picks(list, want) ==
    LET there == {r \in RoleIds : list[r] # NoRole}
        wanted == {want, selected} \intersect there
    IN  /\ roleList' = list
        /\ IF there = {} THEN UNCHANGED <<selected, permissions>>
           ELSE \E r \in (IF want \in there THEN {want}
                          ELSE IF want = NoRole /\ wanted # {} THEN wanted ELSE there) :
                    selected' = r /\ permissions' = list[r]

ListArrives(c) ==
    /\ c \in roleCalls /\ c.op = "fetch" /\ roleCalls' = roleCalls \ {c}
    /\ Picks(roles, c.role)
    /\ UNCHANGED <<roles, dialog, edited>>

\* The dialogs are modal.
Select(r) ==
    /\ dialog = NoDialog /\ roleList[r] # NoRole /\ r # selected /\ Happen
    /\ selected' = r /\ permissions' = roleList[r]
    /\ UNCHANGED <<roles, roleList, dialog, roleCalls>>

----------------------------------------------------------------------------
(* The matrix. *)

Edits(ps) ==
    /\ selected # NoRole /\ Happen
    /\ permissions' = ps
    /\ UNCHANGED <<roles, roleList, selected, roleCalls>>

\* `subjectLocales`: all, or the list the subject's permissions share; none if they differ.
SubjectLocales(s) == {permissions[<<a, s>>] : a \in ContentActions} \ {NotGranted}
Inherited(s) ==
    LET lists == {p.locales : p \in SubjectLocales(s)}
    IN  IF Cardinality(lists) = 1 THEN CHOOSE ls \in lists : TRUE ELSE RoleLocales

\* `setLevel` keeps the fields, and takes the locales of its siblings.
SetLevel(a, s, level) ==
    /\ dialog = NoDialog
    /\ LET p == permissions[<<a, s>>] IN
         Edits([permissions EXCEPT ![<<a, s>>] =
                  IF level = "none" THEN NotGranted
                  ELSE Permission(level = "own", IF p = NotGranted THEN Attributes ELSE p.fields,
                                  Inherited(s))])
    /\ UNCHANGED dialog

FieldsNow(uid) == [a \in FieldActions |->
    IF permissions[<<a, uid>>] = NotGranted THEN Attributes ELSE permissions[<<a, uid>>].fields]

\* `openFields` and `openLocales`: of the role that is selected now.
OpenFields(uid) ==
    /\ dialog = NoDialog /\ \E a \in FieldActions : Granting(permissions, a, uid) # {}
    /\ Edits(permissions)
    /\ dialog' = [shows |-> "fields", uid |-> uid, of |-> selected, fields |-> FieldsNow(uid)]

OpenLocales(s) ==
    /\ dialog = NoDialog /\ SubjectLocales(s) # {}
    /\ Edits(permissions)
    /\ dialog' = [shows |-> "locales", uid |-> s, of |-> selected]

CloseDialog ==
    /\ dialog # NoDialog /\ dialog' = NoDialog
    /\ UNCHANGED <<roles, roleList, selected, permissions, roleCalls, edited>>

\* `applyFields`, with what was ticked.
ApplyFields(ticked) ==
    /\ dialog.shows = "fields" /\ selected # NoRole /\ dialog' = NoDialog
    /\ \A a \in FieldActions : ticked[a] # dialog.fields[a] =>
          permissions[<<a, dialog.uid>>] # NotGranted
    /\ Edits([k \in Keys |-> IF k[1] \in FieldActions /\ k[2] = dialog.uid
                                /\ permissions[k] # NotGranted
                             THEN [permissions[k] EXCEPT !.fields = ticked[k[1]]]
                             ELSE permissions[k]])

\* `applyLocales`: at least one.
ApplyLocales(ls) ==
    /\ dialog.shows = "locales" /\ selected # NoRole /\ dialog' = NoDialog /\ ls # {}
    /\ Edits([k \in Keys |-> IF k[2] = dialog.uid /\ permissions[k] # NotGranted
                             THEN [permissions[k] EXCEPT !.locales = ls] ELSE permissions[k]])

\* Mutant of Converted: the conditions are not copied.
ConvertedToAll(ps, a) ==
    [k \in Keys |-> IF k = <<a, AllTypes>> THEN NotGranted
                    ELSE IF k[1] = a /\ ps[k] = NotGranted
                    THEN [ps[<<a, AllTypes>>] EXCEPT !.own = FALSE]
                    ELSE ps[k]]

\* The wildcard becomes a permission of each type that has none of its own.
Converted(ps, a) ==
    [k \in Keys |-> IF k = <<a, AllTypes>> THEN NotGranted
                    ELSE IF k[1] = a /\ ps[k] = NotGranted
                    THEN [ps[<<a, AllTypes>>] EXCEPT !.fields = Attributes]
                    ELSE ps[k]]

\* `convertWildcard`, offered in the dialog of a type without a permission of its own.
ConvertWildcard(a) ==
    /\ dialog.shows = "fields" /\ a \in FieldActions
    /\ permissions[<<a, dialog.uid>>] = NotGranted /\ permissions[<<a, AllTypes>>] # NotGranted
    /\ Edits(Converted(permissions, a))
    /\ UNCHANGED dialog

----------------------------------------------------------------------------
(* Saving, creating and removing; none of them waits for another. *)

Asks(call) ==
    /\ dialog = NoDialog /\ Happen
    /\ roleCalls' = roleCalls \union {call}
    /\ UNCHANGED <<roles, roleList, permissions, dialog>>

Save ==
    /\ selected # NoRole
    /\ Asks([op |-> "save", role |-> selected, body |-> permissions])
    /\ UNCHANGED selected

Create(r) ==
    /\ roles[r] = NoRole
    /\ Asks([op |-> "create", role |-> r, body |-> Nothing])
    /\ UNCHANGED selected

Remove ==
    /\ selected # NoRole
    /\ Asks([op |-> "remove", role |-> selected, body |-> Nothing])
    /\ UNCHANGED selected

\* Done, and the list is asked for: with the role that was saved or created; a removed
\* one is not selected any more.
Done(c) ==
    /\ c \in roleCalls /\ c.op # "fetch"
    /\ (c.op = "create") = (roles[c.role] = NoRole)
    /\ roles' = [roles EXCEPT ![c.role] = IF c.op = "remove" THEN NoRole ELSE c.body]
    /\ roleCalls' = (roleCalls \ {c}) \union {Fetch(IF c.op = "remove" THEN NoRole ELSE c.role)}
    /\ selected' = IF c.op = "remove" THEN NoRole ELSE selected
    /\ UNCHANGED <<roleList, permissions, dialog, edited>>

Fails(c) ==
    /\ c \in roleCalls /\ roleCalls' = roleCalls \ {c}
    /\ UNCHANGED <<roles, roleList, selected, permissions, dialog, edited>>

----------------------------------------------------------------------------
Progress == \E c \in roleCalls : ListArrives(c) \/ Done(c) \/ Fails(c)

Next ==
    \/ Progress \/ CloseDialog \/ Save \/ Remove
    \/ \E r \in RoleIds : Select(r) \/ Create(r)
    \/ \E a \in ContentActions, s \in Subjects, level \in {"none", "own", "all"} : SetLevel(a, s, level)
    \/ \E uid \in Uids : OpenFields(uid)
    \/ \E s \in Subjects : OpenLocales(s)
    \/ \E ticked \in [FieldActions -> SUBSET Attributes] : ApplyFields(ticked)
    \/ \E ls \in SUBSET RoleLocales : ApplyLocales(ls)
    \/ \E a \in FieldActions : ConvertWildcard(a)

Spec == Init /\ [][Next]_vars /\ WF_vars(Progress)

----------------------------------------------------------------------------
(* Properties. *)

\* The selection, the permissions and the requests have the shapes the code gives them.
RolesTypeOK ==
    /\ selected \in RoleIds \union {NoRole}
    /\ \A k \in Keys : permissions[k] = NotGranted \/
          permissions[k] \in [own : BOOLEAN, fields : SUBSET Attributes, locales : SUBSET RoleLocales]
    /\ \A c \in roleCalls : c.role \in RoleIds \union {NoRole}

\* Turning the wildcard into permissions per type, which restricting the fields of one
\* type asks for, gives a role no access to any type that it did not have; of a wildcard
\* that is itself limited to some fields, the fields are left out.
ConversionsNeverWiden ==
    [][ \A a \in FieldActions : ConvertWildcard(a) =>
          \A uid \in Uids : /\ Access(permissions', a, uid) \subseteq Access(permissions, a, uid)
                            /\ permissions[<<a, AllTypes>>].fields = Attributes =>
                                 FieldsOf(permissions', a, uid) \subseteq FieldsOf(permissions, a, uid) ]_vars

\* No list is awaited and nothing is being saved.
RolesAtRest == roleCalls = {}
=============================================================================
