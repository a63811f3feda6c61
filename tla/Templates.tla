----------------------------- MODULE Templates -----------------------------
(***************************************************************************)
(* Staff edit the templates of a guild at the same time:                   *)
(* TemplateService.Create, Update and Archive (internal/quack/templates.go)*)
(* over internal/store/templates.go, and the reads of a template.          *)
(*                                                                         *)
(* Update and Archive read the row without a lock and save the whole row   *)
(* in one transaction, whose first write waits for the row and for the     *)
(* slug; Update replaces the levels in it. MySQL's deadlock victims and    *)
(* lost connections roll back at any time. A read is three queries without *)
(* a transaction: the row, its levels, the actions of those levels.        *)
(*                                                                         *)
(* Abstracted: what an edit sets, but for slug and archive, is the number  *)
(* of its commit, and so are the levels it writes; a refused input is one  *)
(* whose slug is taken or whose positions collide.                         *)
(***************************************************************************)
EXTENDS Naturals, Sequences, Functions

CONSTANTS Editors,    \* requests to create, update or archive
          Observers,  \* requests that read one template
          TemplateIds, Slugs,
          Askings     \* positions that an input gives its levels, 0 for none

ASSUME TemplatesAssumption == TemplateIds # {} /\ Askings \subseteq Seq(Nat)

VARIABLES
    tmpl,      \* committed rows
    levelsOf,  \* which commit wrote the levels of a template
    commits,   \* commits so far
    editor,    \* requests: step, operation, input, the row they have read
    observer   \* reads: template, what was found so far

templateVars == <<tmpl, levelsOf, commits, editor, observer>>

NoSlug == "none"
NoRow == [slug |-> NoSlug, version |-> 0, archived |-> FALSE, by |-> 0]
NoEdit == [at |-> "idle", op |-> "create", of |-> CHOOSE t \in TemplateIds : TRUE,
           slug |-> NoSlug, asked |-> <<>>, copy |-> NoRow]

TemplatesInit ==
    /\ tmpl = [t \in TemplateIds |-> NoRow]
    /\ levelsOf = [t \in TemplateIds |-> 0]
    /\ commits = 0
    /\ editor = [e \in Editors |-> NoEdit]
    /\ observer = [o \in Observers |-> [of |-> NoEdit.of, found |-> <<>>]]

TemplatesTypeOK ==
    /\ commits \in Nat
    /\ tmpl \in [TemplateIds -> [slug : Slugs \cup {NoSlug}, version : Nat, archived : BOOLEAN, by : 0 .. commits]]
    /\ levelsOf \in [TemplateIds -> 0 .. commits]
    /\ \A e \in Editors :
          /\ editor[e].at \in {"idle", "find", "slug", "read", "save", "commit", "ended"}
          /\ editor[e].op \in {"create", "update", "archive"}
    /\ \A o \in Observers : observer[o].of \in TemplateIds /\ Len(observer[o].found) <= 3
-----------------------------------------------------------------------------
(* Requests                                                                *)

\* A request that ends forgets what it has read.
EditorGoes(e, at) ==
    editor' = [editor EXCEPT ![e] = IF at = "ended" THEN [NoEdit EXCEPT !.at = at] ELSE [@ EXCEPT !.at = at]]
Keep == UNCHANGED <<tmpl, levelsOf, commits, observer>>

Exists(t) == tmpl[t].slug # NoSlug

\* The input of an archive is the template alone. A template gets a new
\* identifier when it is created.
BeingCreated(t) == \E x \in Editors : editor[x].op = "create" /\ editor[x].of = t /\ editor[x].at \notin {"idle", "ended"}

AskEdit(e, op, t, slug, asked) ==
    /\ editor[e].at = "idle"
    /\ op = "create" => ~Exists(t) /\ ~BeingCreated(t)
    /\ editor' = [editor EXCEPT ![e] =
          CASE op = "create" -> [at |-> "slug", op |-> op, of |-> t, slug |-> slug, asked |-> asked, copy |-> NoRow]
            [] op = "update" -> [at |-> "find", op |-> op, of |-> t, slug |-> slug, asked |-> asked, copy |-> NoRow]
            [] op = "archive" -> [NoEdit EXCEPT !.at = "read", !.op = op, !.of = t]]
    /\ Keep

\* Update looks for the template; archived ones are found too.
FindTemplate(e) ==
    /\ editor[e].at = "find"
    /\ EditorGoes(e, IF Exists(editor[e].of) THEN "slug" ELSE "ended")
    /\ Keep

\* validate: GetCaseTemplateBySlug outside the transaction.
Taken(e) == \E t \in TemplateIds \ {editor[e].of} : tmpl[t].slug = editor[e].slug

CheckSlug(e) ==
    /\ editor[e].at = "slug"
    /\ EditorGoes(e, IF Taken(e) THEN "ended" ELSE IF editor[e].op = "create" THEN "save" ELSE "read")
    /\ Keep

\* The transaction's read of the row.
ReadTemplate(e) ==
    LET t == editor[e].of IN
    /\ editor[e].at = "read"
    /\ IF Exists(t) THEN editor' = [editor EXCEPT ![e].copy = tmpl[t], ![e].at = "save"]
       ELSE EditorGoes(e, "ended")
    /\ Keep

\* normalizeLevels: a level without a position gets the one of its place; the
\* index on template and position refuses what collides.
NormalPositions(asked) == [i \in DOMAIN asked |-> IF asked[i] = 0 THEN i ELSE asked[i]]
LevelsFit(e) == IsInjective(NormalPositions(editor[e].asked))

\* The unique index on guild and slug.
SlugFree(e) == ~Taken(e)

\* The first write: it waits while another transaction holds the row or has
\* written the slug. An archive leaves the slug as it has read it, and fails
\* when another template has that slug by now.
Holding(x) == editor[x].at = "commit"
SlugWritten(e) == IF editor[e].op = "archive" THEN editor[e].copy.slug ELSE editor[e].slug

SaveTemplate(e) ==
    /\ editor[e].at = "save"
    /\ \A x \in Editors \ {e} :
          Holding(x) => editor[x].of # editor[e].of /\ SlugWritten(x) # SlugWritten(e)
    /\ LET free == [editor[e] EXCEPT !.slug = SlugWritten(e)]
           fits == editor[e].op = "archive" \/ LevelsFit(e)
           unique == IF editor[e].op = "archive"
                     THEN \A t \in TemplateIds \ {free.of} : tmpl[t].slug # free.slug
                     ELSE SlugFree(e)
       IN  EditorGoes(e, IF fits /\ unique THEN "commit" ELSE "ended")
    /\ Keep

\* What Update and Archive make of the row they have read.
ReplacedRow(e) ==
    [slug |-> editor[e].slug, version |-> editor[e].copy.version + 1, archived |-> FALSE, by |-> commits + 1]
UpdatedRow(e) ==
    [editor[e].copy EXCEPT !.slug = editor[e].slug, !.version = @ + 1, !.by = commits + 1]
ArchivedAsEdit(e) == [editor[e].copy EXCEPT !.archived = TRUE, !.by = commits + 1]
ArchivedRow(e) == [editor[e].copy EXCEPT !.archived = TRUE]
CreatedRow(e) == [slug |-> editor[e].slug, version |-> 1, archived |-> FALSE, by |-> commits + 1]

LevelsReplaced(e) == commits + 1

CommitTemplate(e) ==
    LET t == editor[e].of  op == editor[e].op IN
    /\ editor[e].at = "commit"
    /\ tmpl' = [tmpl EXCEPT ![t] = CASE op = "create" -> CreatedRow(e)
                                     [] op = "update" -> UpdatedRow(e)
                                     [] op = "archive" -> ArchivedRow(e)]
    /\ levelsOf' = IF op = "archive" THEN levelsOf ELSE [levelsOf EXCEPT ![t] = LevelsReplaced(e)]
    /\ commits' = IF op = "archive" THEN commits ELSE commits + 1
    /\ EditorGoes(e, "ended")
    /\ UNCHANGED observer

\* A query fails, or the transaction is rolled back.
EditFails(e) ==
    /\ editor[e].at \notin {"idle", "ended"}
    /\ EditorGoes(e, "ended")
    /\ Keep
-----------------------------------------------------------------------------
(* getCaseTemplateExpanded                                                 *)

LevelsFirst == <<"levels", "row", "actions">>
Parts == <<"row", "levels", "actions">>

SeenPart(o, part) == observer[o].found[CHOOSE i \in 1 .. 3 : Parts[i] = part]

\* Actions are found under the levels that were found, unless they were replaced.
Observe(o) ==
    LET t == observer[o].of  n == Len(observer[o].found) + 1 IN
    /\ n \in 1 .. 3
    /\ n = 1 => Exists(t)
    /\ observer' = [observer EXCEPT ![o].found = Append(@,
          CASE Parts[n] = "row" -> tmpl[t].by
            [] Parts[n] = "levels" -> levelsOf[t]
            [] Parts[n] = "actions" -> IF SeenPart(o, "levels") = levelsOf[t] THEN levelsOf[t] ELSE 0)]
    /\ UNCHANGED <<tmpl, levelsOf, commits, editor>>

TemplatesNext ==
    \/ \E e \in Editors, op \in {"create", "update", "archive"}, t \in TemplateIds, s \in Slugs, a \in Askings :
          AskEdit(e, op, t, s, a)
    \/ \E e \in Editors : FindTemplate(e) \/ CheckSlug(e) \/ ReadTemplate(e) \/ SaveTemplate(e)
                          \/ CommitTemplate(e) \/ EditFails(e)
    \/ \E o \in Observers : Observe(o)

TemplatesSpec == TemplatesInit /\ [][TemplatesNext]_templateVars
-----------------------------------------------------------------------------
(* Properties                                                              *)

\* No two templates of a guild have the same slug, archived ones included,
\* however the checks and the saves of several editors interleave.
SlugsDistinct ==
    \A t, u \in TemplateIds : t # u /\ tmpl[t].slug = tmpl[u].slug => tmpl[t].slug = NoSlug

\* An edit undoes another one (takes the version back or repeats it, brings an
\* archived template back) only when it has read the row before the other's
\* commit. An edit that follows the others keeps what they did.
UndoneOnlyWhenStale ==
    [][\A e \in Editors, t \in TemplateIds :
          /\ editor[e].at = "commit" /\ editor[e].of = t /\ editor'[e].at = "ended"
          /\ tmpl'[t] # tmpl[t] /\ Exists(t)
          => \/ editor[e].copy # tmpl[t]
             \/ /\ tmpl[t].archived => tmpl'[t].archived
                /\ tmpl'[t].version = tmpl[t].version + (IF editor[e].op = "update" THEN 1 ELSE 0)]_templateVars

\* The levels of a template that can be applied are those of the edit that wrote
\* its row. An archive may put an older row back over newer levels, but the row
\* it puts back is archived.
MixedOnlyWhenArchived ==
    \A t \in TemplateIds : tmpl[t].by # levelsOf[t] => tmpl[t].archived

\* A read may find levels newer than the row, never older ones, and no actions
\* under its levels only if an edit replaced these meanwhile.
ReadNeverGoesBack ==
    \A o \in Observers :
        /\ Len(observer[o].found) >= 2 => SeenPart(o, "row") <= SeenPart(o, "levels")
        /\ Len(observer[o].found) = 3 /\ SeenPart(o, "actions") = 0 =>
              SeenPart(o, "levels") < levelsOf[observer[o].of]

\* What the tables hold fits together, and so does what is read of them.
TemplatesAgree == SlugsDistinct /\ MixedOnlyWhenArchived /\ ReadNeverGoesBack
=============================================================================
