--------------------------- MODULE DashboardProofs ---------------------------
(***************************************************************************)
(* Proofs about the dashboard's templates, sessions, staff context, lists  *)
(* and case details, for any number of editors, readers, templates,        *)
(* logins, callbacks, requests, guilds, members, entries and cases, any    *)
(* lifetimes and any number of failed calls.                               *)
(*                                                                         *)
(* Slugs stay distinct because a transaction that has made its first write *)
(* keeps row and slug to itself until it ends (Locked). What a read finds  *)
(* does not go back because the rows never point past the levels, not even *)
(* the row that a late archive is still to put back (Ordered).             *)
(*                                                                         *)
(* That a logout is final is not inductive: a request that stands between  *)
(* its reading of the session and its write has to be accounted for before *)
(* it writes. Either it had read before the deletion, and the ghost knows  *)
(* it, or it has read a session that was there after the deletion, which   *)
(* somebody else had written back. The rights a request acts with are      *)
(* followed from the reading they were taken from. A walk through the      *)
(* pages of a list has what lies behind its cursor, and what a detail's    *)
(* queries have returned goes with what is there now.                      *)
(***************************************************************************)
EXTENDS Templates, AuthSessions, StaffContext, Paging, CaseReads, Integers, SequencesExt,
        FiniteSetTheorems, SequenceTheorems, TLAPS

(* Templates. *)
RowType == [slug : Slugs \cup {NoSlug}, version : Nat, archived : BOOLEAN, by : Nat]
Steps == {"idle", "find", "slug", "read", "save", "commit", "ended"}
EditType == [at : Steps, op : {"create", "update", "archive"}, of : TemplateIds,
             slug : Slugs \cup {NoSlug}, asked : Askings \cup {<<>>}, copy : RowType]

TemplateShapes ==
    /\ commits \in Nat
    /\ tmpl \in [TemplateIds -> RowType]
    /\ levelsOf \in [TemplateIds -> Nat]
    /\ editor \in [Editors -> EditType]
    /\ observer \in [Observers -> [of : TemplateIds, found : Seq(Nat)]]
    /\ \A o \in Observers : Len(observer[o].found) <= 3

\* A transaction that has written keeps its row and its slug to itself.
Locked ==
    /\ \A x \in Editors, t \in TemplateIds :
          Holding(x) /\ t # editor[x].of => tmpl[t].slug # SlugWritten(x)
    /\ \A x, y \in Editors : x # y /\ Holding(x) /\ Holding(y) =>
          editor[x].of # editor[y].of /\ SlugWritten(x) # SlugWritten(y)

\* Rows are at most as new as the levels, and so are the copies of rows.
Ordered ==
    /\ \A t \in TemplateIds :
          /\ levelsOf[t] <= commits
          /\ tmpl[t].by <= levelsOf[t]
          /\ Exists(t) => levelsOf[t] > 0
    /\ \A e \in Editors :
          /\ editor[e].copy.by <= levelsOf[editor[e].of]
          /\ editor[e].copy.slug # NoSlug => levelsOf[editor[e].of] > 0
          /\ editor[e].op = "create" => editor[e].copy = NoRow
          /\ editor[e].at \in {"find", "read"} => editor[e].op # "create"

\* What a reader has found is at most as new as the levels are now.
Found ==
    \A o \in Observers :
        LET found == observer[o].found  held == levelsOf[observer[o].of] IN
        /\ Len(found) >= 1 => found[1] <= held /\ held > 0
        /\ Len(found) >= 2 => found[1] <= found[2] /\ found[2] <= held
        /\ Len(found) = 3 /\ found[3] = 0 => found[2] < held

TemplateInv == TemplateShapes /\ Locked /\ SlugsDistinct /\ MixedOnlyWhenArchived /\ Ordered /\ Found
-----------------------------------------------------------------------------
LEMMA NoEditTyped == NoRow \in RowType /\ NoEdit \in EditType
  BY TemplatesAssumption DEF NoRow, NoEdit, RowType, EditType, Steps

LEMMA TemplateInitInv == TemplatesInit => TemplateInv
  <1> SUFFICES ASSUME TemplatesInit PROVE TemplateInv
    OBVIOUS
  <1>1. TemplateShapes
    <2>1. NoEdit.of \in TemplateIds
      BY NoEditTyped DEF EditType
    <2> QED
      BY <2>1, NoEditTyped DEF TemplatesInit, TemplateShapes
  <1>2. Locked /\ SlugsDistinct /\ MixedOnlyWhenArchived
    BY DEF TemplatesInit, Locked, Holding, SlugsDistinct, MixedOnlyWhenArchived, NoEdit, NoRow
  <1>3. Ordered
    <2>1. NoEdit.of \in TemplateIds /\ NoEdit.copy = NoRow /\ NoEdit.at = "idle"
      BY NoEditTyped DEF EditType, NoEdit
    <2>2. NoRow.by = 0 /\ NoRow.slug = NoSlug
      BY DEF NoRow
    <2> QED
      BY <2>1, <2>2 DEF TemplatesInit, Ordered, Exists
  <1>4. Found
    BY DEF TemplatesInit, Found
  <1> QED
    BY <1>1, <1>2, <1>3, <1>4 DEF TemplateInv

\* What a request's step outside its commit does to the request.
Advances(e, old, new) ==
    /\ \A x \in Editors : x # e => new[x] = old[x]
    /\ new[e] \in EditType
    /\ \/ new[e].copy = NoRow
       \/ new[e].copy = old[e].copy /\ new[e].of = old[e].of /\ new[e].op = old[e].op
       \/ /\ new[e].copy = tmpl[old[e].of] /\ new[e].of = old[e].of
          /\ new[e].op = old[e].op /\ old[e].op # "create"
    /\ new[e].at \in {"find", "read"} => new[e].op # "create"

LEMMA Ending ==
  ASSUME TemplateShapes, NEW e \in Editors, EditorGoes(e, "ended")
  PROVE  /\ editor' \in [Editors -> EditType]
         /\ Advances(e, editor, editor')
         /\ editor'[e].at = "ended"
         /\ editor'[e].copy = NoRow
  <1> DEFINE new == [NoEdit EXCEPT !.at = "ended"]
  <1>1. new \in EditType /\ new.at = "ended" /\ new.op = "create" /\ new.copy = NoRow
    BY NoEditTyped DEF EditType, Steps, NoEdit
  <1>2. editor' = [editor EXCEPT ![e] = new]
    BY DEF EditorGoes
  <1> HIDE DEF new
  <1> QED
    BY <1>1, <1>2 DEF TemplateShapes, Advances

LEMMA Moving ==
  ASSUME TemplateShapes, NEW e \in Editors, NEW at \in Steps \ {"ended"}, EditorGoes(e, at),
         at \in {"find", "read"} => editor[e].op # "create"
  PROVE  /\ editor' \in [Editors -> EditType]
         /\ Advances(e, editor, editor')
         /\ editor'[e] = [editor[e] EXCEPT !.at = at]
         /\ editor'[e].at = at
  <1>1. editor' = [editor EXCEPT ![e] = [editor[e] EXCEPT !.at = at]]
    BY DEF EditorGoes
  <1>2. [editor[e] EXCEPT !.at = at] \in EditType
    BY DEF TemplateShapes, EditType
  <1>3. editor'[e] = [editor[e] EXCEPT !.at = at]
    BY <1>1 DEF TemplateShapes
  <1>4. /\ editor'[e].copy = editor[e].copy /\ editor'[e].of = editor[e].of
        /\ editor'[e].op = editor[e].op /\ editor'[e].at = at
    BY <1>3 DEF TemplateShapes, EditType
  <1> QED
    BY <1>1, <1>2, <1>3, <1>4 DEF TemplateShapes, Advances

\* The steps of a request but its commit.
LEMMA EditorSteps ==
  ASSUME TemplateShapes, Ordered, NEW e \in Editors,
         \/ \E op \in {"create", "update", "archive"}, t \in TemplateIds, s \in Slugs, a \in Askings :
               AskEdit(e, op, t, s, a)
         \/ FindTemplate(e) \/ CheckSlug(e) \/ ReadTemplate(e) \/ SaveTemplate(e) \/ EditFails(e)
  PROVE  /\ Keep
         /\ editor' \in [Editors -> EditType]
         /\ Advances(e, editor, editor')
         /\ editor'[e].at = "commit" => SaveTemplate(e)
  <1> DEFINE Goal == /\ Keep
                     /\ editor' \in [Editors -> EditType]
                     /\ Advances(e, editor, editor')
                     /\ editor'[e].at = "commit" => SaveTemplate(e)
  <1>1. ASSUME NEW op \in {"create", "update", "archive"}, NEW t \in TemplateIds, NEW s \in Slugs,
               NEW a \in Askings, AskEdit(e, op, t, s, a)
        PROVE  Goal
    <2>1. PICK new \in EditType :
            /\ editor' = [editor EXCEPT ![e] = new]
            /\ new.copy = NoRow /\ new.at # "commit"
            /\ new.at \in {"find", "read"} => new.op # "create"
      <3>1. CASE op = "create"
        <4> DEFINE new == [at |-> "slug", op |-> op, of |-> t, slug |-> s, asked |-> a, copy |-> NoRow]
        <4>1. new \in EditType
          BY NoEditTyped DEF EditType, Steps
        <4> QED
          BY <1>1, <3>1, <4>1 DEF AskEdit
      <3>2. CASE op = "update"
        <4> DEFINE new == [at |-> "find", op |-> op, of |-> t, slug |-> s, asked |-> a, copy |-> NoRow]
        <4>1. new \in EditType
          BY NoEditTyped DEF EditType, Steps
        <4> QED
          BY <1>1, <3>2, <4>1 DEF AskEdit
      <3>3. CASE op = "archive"
        <4> DEFINE new == [NoEdit EXCEPT !.at = "read", !.op = op, !.of = t]
        <4>1. new \in EditType /\ new.copy = NoRow /\ new.at = "read" /\ new.op = "archive"
          BY <3>3, NoEditTyped DEF EditType, Steps, NoEdit
        <4>2. editor' = [editor EXCEPT ![e] = new]
          BY <1>1, <3>3 DEF AskEdit
        <4> HIDE DEF new
        <4> QED
          BY <4>1, <4>2
      <3> QED
        BY <3>1, <3>2, <3>3
    <2>2. editor'[e] = new /\ \A x \in Editors : x # e => editor'[x] = editor[x]
      BY <2>1 DEF TemplateShapes
    <2>3. editor' \in [Editors -> EditType]
      BY <2>1 DEF TemplateShapes
    <2>4. Keep
      BY <1>1 DEF AskEdit
    <2> QED
      BY <2>1, <2>2, <2>3, <2>4 DEF Advances
  <1>2. CASE FindTemplate(e)
    <2>1. editor[e].op # "create"
      BY <1>2 DEF FindTemplate, Ordered
    <2>2. EditorGoes(e, "slug") \/ EditorGoes(e, "ended")
      BY <1>2 DEF FindTemplate
    <2>3. editor' \in [Editors -> EditType] /\ Advances(e, editor, editor') /\ editor'[e].at # "commit"
      <3>1. CASE EditorGoes(e, "slug")
        <4>1. "slug" \in Steps \ {"ended"}
          BY DEF Steps
        <4> QED
          BY <3>1, <4>1, Moving
      <3>2. CASE EditorGoes(e, "ended")
        BY <3>2, Ending
      <3> QED
        BY <2>2, <3>1, <3>2
    <2> QED
      BY <1>2, <2>3 DEF FindTemplate
  <1>3. CASE CheckSlug(e)
    <2>1. \/ EditorGoes(e, "save") \/ EditorGoes(e, "ended")
          \/ EditorGoes(e, "read") /\ editor[e].op # "create"
      BY <1>3 DEF CheckSlug
    <2>2. editor' \in [Editors -> EditType] /\ Advances(e, editor, editor') /\ editor'[e].at # "commit"
      <3>1. CASE EditorGoes(e, "save")
        <4>1. "save" \in Steps \ {"ended"}
          BY DEF Steps
        <4> QED
          BY <3>1, <4>1, Moving
      <3>2. CASE EditorGoes(e, "read") /\ editor[e].op # "create"
        <4>1. "read" \in Steps \ {"ended"}
          BY DEF Steps
        <4> QED
          BY <3>2, <4>1, Moving
      <3>3. CASE EditorGoes(e, "ended")
        BY <3>3, Ending
      <3> QED
        BY <2>1, <3>1, <3>2, <3>3
    <2> QED
      BY <1>3, <2>2 DEF CheckSlug
  <1>4. CASE ReadTemplate(e)
    <2> DEFINE new == [[editor[e] EXCEPT !.copy = tmpl[editor[e].of]] EXCEPT !.at = "save"]
    <2>1. CASE Exists(editor[e].of)
      <3>1. editor' = [editor EXCEPT ![e] = new]
        BY <1>4, <2>1 DEF ReadTemplate, TemplateShapes
      <3>2. /\ new \in EditType /\ new.copy = tmpl[editor[e].of] /\ new.of = editor[e].of
            /\ new.op = editor[e].op /\ new.at = "save"
        BY DEF TemplateShapes, EditType, Steps
      <3>3. editor[e].op # "create"
        BY <1>4 DEF ReadTemplate, Ordered
      <3> HIDE DEF new
      <3>4. editor' \in [Editors -> EditType] /\ Advances(e, editor, editor') /\ editor'[e].at # "commit"
        BY <3>1, <3>2, <3>3 DEF TemplateShapes, Advances
      <3> QED
        BY <1>4, <3>4 DEF ReadTemplate
    <2>2. CASE ~Exists(editor[e].of)
      BY <1>4, <2>2, Ending DEF ReadTemplate
    <2> QED
      BY <2>1, <2>2
  <1>5. CASE SaveTemplate(e)
    <2>1. EditorGoes(e, "commit") \/ EditorGoes(e, "ended")
      BY <1>5 DEF SaveTemplate
    <2>2. editor' \in [Editors -> EditType] /\ Advances(e, editor, editor')
      BY <2>1, Ending, Moving DEF Steps
    <2> QED
      BY <1>5, <2>2 DEF SaveTemplate
  <1>6. CASE EditFails(e)
    BY <1>6, Ending DEF EditFails
  <1> QED
    BY <1>1, <1>2, <1>3, <1>4, <1>5, <1>6
-----------------------------------------------------------------------------
\* The steps of a request but its commit preserve the invariant.
LEMMA StepsKeep ==
  ASSUME TemplateInv, NEW e \in Editors, Keep, editor' \in [Editors -> EditType],
         Advances(e, editor, editor'), editor'[e].at = "commit" => SaveTemplate(e)
  PROVE  TemplateInv'
  <1>0. TemplateShapes /\ Locked /\ SlugsDistinct /\ MixedOnlyWhenArchived /\ Ordered /\ Found
    BY DEF TemplateInv
  <1>1. TemplateShapes'
    BY <1>0 DEF TemplateShapes, Keep
  <1>2. (SlugsDistinct /\ MixedOnlyWhenArchived /\ Found)'
    BY <1>0 DEF Keep, SlugsDistinct, MixedOnlyWhenArchived, Found
  <1>3. Ordered'
    <2>1. \A t \in TemplateIds : Exists(t)' <=> Exists(t)
      BY DEF Keep, Exists
    <2>2. ASSUME NEW x \in Editors
          PROVE  /\ editor'[x].copy.by <= levelsOf[editor'[x].of]
                 /\ editor'[x].copy.slug # NoSlug => levelsOf[editor'[x].of] > 0
                 /\ editor'[x].op = "create" => editor'[x].copy = NoRow
                 /\ editor'[x].at \in {"find", "read"} => editor'[x].op # "create"
      <3>1. CASE x # e
        BY <1>0, <3>1 DEF Advances, Ordered
      <3>2. CASE x = e
        <4>1. editor'[e].of \in TemplateIds /\ editor[e].of \in TemplateIds
          BY <1>0 DEF TemplateShapes, EditType
        <4>2. \A t \in TemplateIds : levelsOf[t] \in Nat
          BY <1>0 DEF TemplateShapes
        <4>3. NoRow.by = 0 /\ NoRow.slug = NoSlug
          BY DEF NoRow
        <4>4. \/ editor'[e].copy = NoRow
              \/ /\ editor'[e].copy = editor[e].copy /\ editor'[e].of = editor[e].of
                 /\ editor'[e].op = editor[e].op
              \/ /\ editor'[e].copy = tmpl[editor[e].of] /\ editor'[e].of = editor[e].of
                 /\ editor'[e].op # "create"
          BY DEF Advances
        <4>5. editor'[e].at \in {"find", "read"} => editor'[e].op # "create"
          BY DEF Advances
        <4> QED
          BY <1>0, <3>2, <4>1, <4>2, <4>3, <4>4, <4>5 DEF Ordered, Exists
      <3> QED
        BY <3>1, <3>2
    <2> QED
      BY <1>0, <2>1, <2>2 DEF Ordered, Keep
  <1>4. Locked'
    <2>1. \A x \in Editors : x # e => /\ Holding(x)' <=> Holding(x)
                                      /\ SlugWritten(x)' = SlugWritten(x)
                                      /\ editor'[x].of = editor[x].of
      BY DEF Advances, Holding, SlugWritten
    <2>2. CASE editor'[e].at = "commit"
      <3>1. SaveTemplate(e) /\ EditorGoes(e, "commit")
        <4>1. SaveTemplate(e)
          BY <2>2
        <4>2. ~EditorGoes(e, "ended")
          BY <1>0, <2>2, Ending
        <4> QED
          BY <4>1, <4>2 DEF SaveTemplate
      <3>2. editor'[e] = [editor[e] EXCEPT !.at = "commit"]
        BY <1>0, <3>1, Moving DEF Steps
      <3>3. /\ editor'[e].of = editor[e].of /\ editor'[e].op = editor[e].op
            /\ editor'[e].copy = editor[e].copy /\ editor'[e].slug = editor[e].slug
        BY <1>0, <3>2 DEF TemplateShapes, EditType
      <3>4. SlugWritten(e)' = SlugWritten(e)
        BY <3>3 DEF SlugWritten
      <3>5. \A x \in Editors \ {e} :
               Holding(x) => editor[x].of # editor[e].of /\ SlugWritten(x) # SlugWritten(e)
        BY <3>1 DEF SaveTemplate
      <3>6. \A t \in TemplateIds \ {editor[e].of} : tmpl[t].slug # SlugWritten(e)
        <4>1. CASE editor[e].op = "archive"
          <5>1. [editor[e] EXCEPT !.slug = SlugWritten(e)].of = editor[e].of
            BY <1>0 DEF TemplateShapes, EditType
          <5>2. [editor[e] EXCEPT !.slug = SlugWritten(e)].slug = SlugWritten(e)
            BY <1>0 DEF TemplateShapes, EditType
          <5>3. ~EditorGoes(e, "ended")
            BY <1>0, <2>2, Ending
          <5> QED
            BY <3>1, <4>1, <5>1, <5>2, <5>3 DEF SaveTemplate
        <4>2. CASE editor[e].op # "archive"
          <5>1. ~EditorGoes(e, "ended")
            BY <1>0, <2>2, Ending
          <5>2. SlugFree(e)
            BY <3>1, <4>2, <5>1 DEF SaveTemplate
          <5> QED
            BY <4>2, <5>2 DEF SlugFree, Taken, SlugWritten
        <4> QED
          BY <4>1, <4>2
      <3>7. ASSUME NEW x \in Editors, NEW t \in TemplateIds, Holding(x)', t # editor'[x].of
            PROVE  tmpl[t].slug # SlugWritten(x)'
        BY <1>0, <2>1, <3>3, <3>4, <3>6, <3>7 DEF Locked
      <3>8. ASSUME NEW x \in Editors, NEW y \in Editors, x # y, Holding(x)', Holding(y)'
            PROVE  editor'[x].of # editor'[y].of /\ SlugWritten(x)' # SlugWritten(y)'
        BY <1>0, <2>1, <3>3, <3>4, <3>5, <3>8 DEF Locked
      <3> QED
        BY <3>7, <3>8 DEF Locked, Keep
    <2>3. CASE editor'[e].at # "commit"
      <3>1. ~Holding(e)'
        BY <2>3 DEF Holding
      <3> QED
        BY <1>0, <2>1, <3>1 DEF Locked, Keep
    <2> QED
      BY <2>2, <2>3
  <1> QED
    BY <1>1, <1>2, <1>3, <1>4 DEF TemplateInv
\* A commit: the row and the levels that it leaves, and what a commit may write.
LEMMA CommitRow ==
  ASSUME TemplateInv, NEW e \in Editors, CommitTemplate(e)
  PROVE  LET t == editor[e].of IN
         /\ t \in TemplateIds
         /\ \A u \in TemplateIds : u # t => tmpl'[u] = tmpl[u] /\ levelsOf'[u] = levelsOf[u]
         /\ tmpl'[t] \in RowType /\ levelsOf'[t] \in Nat
         /\ tmpl' \in [TemplateIds -> RowType] /\ levelsOf' \in [TemplateIds -> Nat]
         /\ tmpl'[t].slug = SlugWritten(e)
         /\ \/ /\ editor[e].op = "archive"
               /\ commits' = commits /\ levelsOf'[t] = levelsOf[t]
               /\ tmpl'[t] = [editor[e].copy EXCEPT !.archived = TRUE]
               /\ tmpl'[t].by = editor[e].copy.by /\ tmpl'[t].archived
            \/ /\ editor[e].op # "archive"
               /\ commits' = commits + 1 /\ levelsOf'[t] = commits + 1
               /\ tmpl'[t].by = commits + 1
               /\ editor[e].op = "update" => tmpl'[t] = UpdatedRow(e)
         /\ commits' \in Nat /\ commits <= commits'
  <1> DEFINE t == editor[e].of
  <1>0. /\ TemplateShapes /\ t \in TemplateIds /\ editor[e] \in EditType /\ editor[e].copy \in RowType
        /\ editor[e].slug \in Slugs \cup {NoSlug} /\ editor[e].op \in {"create", "update", "archive"}
        /\ commits \in Nat
    BY DEF TemplateInv, TemplateShapes, EditType
  <1>1. CASE editor[e].op = "archive"
    <2> DEFINE row == [editor[e].copy EXCEPT !.archived = TRUE]
    <2>1. row \in RowType /\ row.by = editor[e].copy.by /\ row.archived /\ row.slug = editor[e].copy.slug
      BY <1>0 DEF RowType
    <2>2. tmpl' = [tmpl EXCEPT ![t] = row] /\ levelsOf' = levelsOf /\ commits' = commits
      BY <1>1 DEF CommitTemplate, ArchivedRow
    <2> HIDE DEF row
    <2>3. SlugWritten(e) = editor[e].copy.slug
      BY <1>1 DEF SlugWritten
    <2>4. tmpl'[t] = row
      BY <1>0, <2>2 DEF TemplateShapes
    <2>5. row = [editor[e].copy EXCEPT !.archived = TRUE]
      BY DEF row
    <2> QED
      BY <1>0, <1>1, <2>1, <2>2, <2>3, <2>4, <2>5 DEF TemplateShapes
  <1>2. CASE editor[e].op # "archive"
    <2>1. PICK row \in RowType :
            /\ row.by = commits + 1 /\ row.slug = editor[e].slug
            /\ tmpl' = [tmpl EXCEPT ![t] = row]
            /\ editor[e].op = "update" => row = UpdatedRow(e)
      <3>1. CASE editor[e].op = "create"
        <4>1. CreatedRow(e) \in RowType /\ CreatedRow(e).by = commits + 1 /\ CreatedRow(e).slug = editor[e].slug
          BY <1>0 DEF CreatedRow, RowType
        <4>2. tmpl' = [tmpl EXCEPT ![t] = CreatedRow(e)]
          BY <3>1 DEF CommitTemplate
        <4> QED
          BY <3>1, <4>1, <4>2
      <3>2. CASE editor[e].op = "update"
        <4>1. UpdatedRow(e) \in RowType /\ UpdatedRow(e).by = commits + 1 /\ UpdatedRow(e).slug = editor[e].slug
          <5>1. commits + 1 \in Nat /\ editor[e].copy.version + 1 \in Nat
            BY <1>0 DEF RowType
          <5>2. PICK r \in RowType, s \in Slugs \cup {NoSlug}, v \in Nat, n \in Nat :
                  /\ r = editor[e].copy /\ s = editor[e].slug
                  /\ v = editor[e].copy.version + 1 /\ n = commits + 1
            BY <1>0, <5>1
          <5> DEFINE new == [r EXCEPT !.slug = s, !.version = v, !.by = n]
          <5>3. new \in RowType /\ new.slug = s /\ new.by = n
            BY DEF RowType
          <5>4. UpdatedRow(e) = new
            BY <5>2 DEF UpdatedRow
          <5> HIDE DEF new
          <5> QED
            BY <5>2, <5>3, <5>4
        <4>2. tmpl' = [tmpl EXCEPT ![t] = UpdatedRow(e)]
          BY <3>2 DEF CommitTemplate
        <4> QED
          BY <4>1, <4>2
      <3> QED
        BY <1>0, <1>2, <3>1, <3>2
    <2>2. levelsOf' = [levelsOf EXCEPT ![t] = commits + 1] /\ commits' = commits + 1
      BY <1>2 DEF CommitTemplate, LevelsReplaced
    <2>3. SlugWritten(e) = editor[e].slug
      BY <1>2 DEF SlugWritten
    <2>4. tmpl'[t] = row /\ levelsOf'[t] = commits + 1
      BY <1>0, <2>1, <2>2 DEF TemplateShapes
    <2> QED
      BY <1>0, <1>2, <2>1, <2>2, <2>3, <2>4 DEF TemplateShapes
  <1> QED
    BY <1>1, <1>2

LEMMA CommitKeeps ==
  ASSUME TemplateInv, NEW e \in Editors, CommitTemplate(e)
  PROVE  TemplateInv'
  <1> DEFINE t == editor[e].of
  <1>0. TemplateShapes /\ Locked /\ SlugsDistinct /\ MixedOnlyWhenArchived /\ Ordered /\ Found
    BY DEF TemplateInv
  <1>1. /\ t \in TemplateIds
        /\ \A u \in TemplateIds : u # t => tmpl'[u] = tmpl[u] /\ levelsOf'[u] = levelsOf[u]
        /\ tmpl'[t] \in RowType /\ levelsOf'[t] \in Nat
        /\ tmpl' \in [TemplateIds -> RowType] /\ levelsOf' \in [TemplateIds -> Nat]
        /\ tmpl'[t].slug = SlugWritten(e)
        /\ \/ /\ editor[e].op = "archive"
              /\ commits' = commits /\ levelsOf'[t] = levelsOf[t]
              /\ tmpl'[t].by = editor[e].copy.by /\ tmpl'[t].archived
           \/ /\ editor[e].op # "archive"
              /\ commits' = commits + 1 /\ levelsOf'[t] = commits + 1
              /\ tmpl'[t].by = commits + 1
        /\ commits \in Nat /\ commits' \in Nat /\ commits <= commits'
    BY <1>0, CommitRow DEF TemplateShapes
  <1>2. /\ editor' \in [Editors -> EditType] /\ Advances(e, editor, editor')
        /\ editor'[e].at = "ended" /\ editor'[e].copy = NoRow
    BY <1>0, Ending DEF CommitTemplate
  <1>3. observer' = observer /\ Holding(e)
    BY DEF CommitTemplate, Holding
  <1> HIDE DEF t
  <1>4. TemplateShapes'
    BY <1>0, <1>1, <1>2, <1>3 DEF TemplateShapes
  <1>5. \A x \in Editors : x # e => /\ Holding(x)' <=> Holding(x)
                                    /\ SlugWritten(x)' = SlugWritten(x)
                                    /\ editor'[x] = editor[x]
    BY <1>2 DEF Advances, Holding, SlugWritten
  <1>6. ~Holding(e)'
    BY <1>2 DEF Holding
  <1>7. Locked'
    <2>1. ASSUME NEW x \in Editors, NEW u \in TemplateIds, Holding(x)', u # editor'[x].of
          PROVE  tmpl'[u].slug # SlugWritten(x)'
      <3>1. x # e /\ Holding(x) /\ u # editor[x].of
        BY <1>5, <1>6, <2>1
      <3>2. CASE u = t
        BY <1>0, <1>1, <1>3, <1>5, <3>1, <3>2 DEF Locked
      <3>3. CASE u # t
        BY <1>0, <1>1, <1>5, <3>1, <3>3 DEF Locked
      <3> QED
        BY <3>2, <3>3
    <2>2. ASSUME NEW x \in Editors, NEW y \in Editors, x # y, Holding(x)', Holding(y)'
          PROVE  editor'[x].of # editor'[y].of /\ SlugWritten(x)' # SlugWritten(y)'
      BY <1>0, <1>5, <1>6, <2>2 DEF Locked
    <2> QED
      BY <2>1, <2>2 DEF Locked
  <1>8. SlugsDistinct'
    <2>1. \A u \in TemplateIds : u # t => tmpl[u].slug # SlugWritten(e)
      BY <1>0, <1>3 DEF Locked, t
    <2> QED
      BY <1>0, <1>1, <2>1 DEF SlugsDistinct
  <1>9. MixedOnlyWhenArchived'
    BY <1>0, <1>1 DEF MixedOnlyWhenArchived
  <1>10. Ordered'
    <2>1. \A u \in TemplateIds : levelsOf[u] \in Nat /\ levelsOf'[u] \in Nat /\ levelsOf[u] <= levelsOf'[u]
      BY <1>0, <1>1 DEF Ordered, TemplateShapes
    <2>2. editor[e].copy.by <= levelsOf[t] /\ (editor[e].copy.slug # NoSlug => levelsOf[t] > 0)
      BY <1>0 DEF Ordered, t
    <2>3. ASSUME NEW u \in TemplateIds
          PROVE  /\ levelsOf'[u] <= commits'
                 /\ tmpl'[u].by <= levelsOf'[u]
                 /\ Exists(u)' => levelsOf'[u] > 0
      <3>1. CASE u # t
        <4>1. /\ levelsOf[u] <= commits /\ tmpl[u].by <= levelsOf[u]
              /\ tmpl[u].slug # NoSlug => levelsOf[u] > 0
          BY <1>0 DEF Ordered, Exists
        <4>2. tmpl'[u] = tmpl[u] /\ levelsOf'[u] = levelsOf[u]
          BY <1>1, <3>1
        <4> QED
          BY <1>1, <2>1, <4>1, <4>2 DEF Exists
      <3>2. CASE u = t
        <4>1. editor[e].op = "archive" => tmpl'[t].slug = editor[e].copy.slug
          BY <1>1 DEF SlugWritten
        <4>2. levelsOf[t] <= commits
          BY <1>0, <1>1 DEF Ordered
        <4> QED
          BY <1>1, <2>1, <2>2, <3>2, <4>1, <4>2 DEF Exists
      <3> QED
        BY <3>1, <3>2
    <2>4. ASSUME NEW x \in Editors
          PROVE  /\ editor'[x].copy.by <= levelsOf'[editor'[x].of]
                 /\ editor'[x].copy.slug # NoSlug => levelsOf'[editor'[x].of] > 0
                 /\ editor'[x].op = "create" => editor'[x].copy = NoRow
                 /\ editor'[x].at \in {"find", "read"} => editor'[x].op # "create"
      <3>1. CASE x = e
        <4>1. editor'[e].of \in TemplateIds
          BY <1>2 DEF EditType
        <4> QED
          BY <1>2, <2>1, <3>1, <4>1 DEF NoRow
      <3>2. CASE x # e
        <4>1. /\ editor[x].of \in TemplateIds /\ editor[x].copy.by \in Nat
          BY <1>0 DEF TemplateShapes, EditType, RowType
        <4> QED
          BY <1>0, <1>5, <2>1, <3>2, <4>1 DEF Ordered
      <3> QED
        BY <3>1, <3>2
    <2> QED
      BY <2>3, <2>4 DEF Ordered
  <1>11. Found'
    <2>1. \A u \in TemplateIds : levelsOf[u] \in Nat /\ levelsOf'[u] \in Nat /\ levelsOf[u] <= levelsOf'[u]
      BY <1>0, <1>1 DEF Ordered, TemplateShapes
    <2>2. \A o \in Observers : /\ observer[o].of \in TemplateIds
                               /\ observer[o].found \in Seq(Nat)
      BY <1>0 DEF TemplateShapes
    <2>3. ASSUME NEW o \in Observers
          PROVE  LET found == observer[o].found  held == levelsOf'[observer[o].of] IN
                 /\ Len(found) >= 1 => found[1] <= held /\ held > 0
                 /\ Len(found) >= 2 => found[1] <= found[2] /\ found[2] <= held
                 /\ Len(found) = 3 /\ found[3] = 0 => found[2] < held
      <3> DEFINE found == observer[o].found
                 old == levelsOf[observer[o].of]
                 held == levelsOf'[observer[o].of]
      <3>1. found \in Seq(Nat) /\ old \in Nat /\ held \in Nat /\ old <= held
        BY <2>1, <2>2
      <3>2. /\ Len(found) >= 1 => found[1] <= old /\ old > 0
            /\ Len(found) >= 2 => found[1] <= found[2] /\ found[2] <= old
            /\ Len(found) = 3 /\ found[3] = 0 => found[2] < old
        BY <1>0 DEF Found
      <3> HIDE DEF found, old, held
      <3>3. /\ Len(found) >= 1 => found[1] <= held /\ held > 0
            /\ Len(found) >= 2 => found[1] <= found[2] /\ found[2] <= held
            /\ Len(found) = 3 /\ found[3] = 0 => found[2] < held
        BY <3>1, <3>2
      <3> QED
        BY <3>3 DEF found, held
    <2> QED
      BY <1>3, <2>3 DEF Found
  <1> QED
    BY <1>4, <1>7, <1>8, <1>9, <1>10, <1>11 DEF TemplateInv
\* A reader's step.
LEMMA PartsSeen ==
  ASSUME NEW o \in Observers
  PROVE  SeenPart(o, "row") = observer[o].found[1] /\ SeenPart(o, "levels") = observer[o].found[2]
         /\ SeenPart(o, "actions") = observer[o].found[3]
  <1>1. /\ (CHOOSE i \in 1 .. 3 : Parts[i] = "row") = 1
        /\ (CHOOSE i \in 1 .. 3 : Parts[i] = "levels") = 2
        /\ (CHOOSE i \in 1 .. 3 : Parts[i] = "actions") = 3
    BY DEF Parts
  <1> QED
    BY <1>1 DEF SeenPart

LEMMA ObserveKeeps ==
  ASSUME TemplateInv, NEW o \in Observers, Observe(o)
  PROVE  TemplateInv'
  <1> DEFINE t == observer[o].of  found == observer[o].found  n == Len(found) + 1
             next == CASE Parts[n] = "row" -> tmpl[t].by
                       [] Parts[n] = "levels" -> levelsOf[t]
                       [] Parts[n] = "actions" ->
                            IF SeenPart(o, "levels") = levelsOf[t] THEN levelsOf[t] ELSE 0
  <1>0. TemplateShapes /\ Locked /\ SlugsDistinct /\ MixedOnlyWhenArchived /\ Ordered /\ Found
    BY DEF TemplateInv
  <1>1. UNCHANGED <<tmpl, levelsOf, commits, editor>>
    BY DEF Observe
  <1>2. (Locked /\ SlugsDistinct /\ MixedOnlyWhenArchived)'
    BY <1>0, <1>1 DEF Locked, SlugsDistinct, MixedOnlyWhenArchived, Holding, SlugWritten
  <1>3. Ordered'
    BY <1>0, <1>1 DEF Ordered, Exists
  <1>4. /\ t \in TemplateIds /\ found \in Seq(Nat) /\ n \in 1 .. 3
        /\ levelsOf[t] \in Nat /\ tmpl[t].by \in Nat
        /\ n = 1 => Exists(t)
    BY <1>0 DEF TemplateShapes, RowType, Observe
  <1>5. /\ Len(found) >= 1 => found[1] <= levelsOf[t] /\ levelsOf[t] > 0
        /\ Len(found) >= 2 => found[1] <= found[2] /\ found[2] <= levelsOf[t]
        /\ Len(found) = 3 /\ found[3] = 0 => found[2] < levelsOf[t]
    BY <1>0 DEF Found
  <1>6. /\ n = 1 => next = tmpl[t].by
        /\ n = 2 => next = levelsOf[t]
        /\ n = 3 => next = IF found[2] = levelsOf[t] THEN levelsOf[t] ELSE 0
    BY <1>4, PartsSeen DEF Parts
  <1>7. /\ observer'[o].found = Append(found, next) /\ observer'[o].of = t
        /\ observer' \in [Observers -> [of : TemplateIds, found : Seq(Nat)]]
        /\ \A x \in Observers : x # o => observer'[x] = observer[x]
    <2>1. observer' = [observer EXCEPT ![o].found = Append(found, next)]
      BY DEF Observe
    <2> HIDE DEF next, found, n, t
    <2>2. next \in Nat /\ Append(found, next) \in Seq(Nat)
      BY <1>4, <1>6
    <2>3. [observer[o] EXCEPT !.found = Append(found, next)] \in [of : TemplateIds, found : Seq(Nat)]
      BY <1>0, <2>2 DEF TemplateShapes
    <2> QED
      BY <1>0, <2>1, <2>3 DEF TemplateShapes, t
  <1>8. tmpl[t].by <= levelsOf[t] /\ (Exists(t) => levelsOf[t] > 0)
    BY <1>0, <1>4 DEF Ordered
  <1> HIDE DEF t, found, n, next
  <1>9. LET new == Append(found, next) IN
        /\ Len(new) <= 3
        /\ Len(new) >= 1 => new[1] <= levelsOf[t] /\ levelsOf[t] > 0
        /\ Len(new) >= 2 => new[1] <= new[2] /\ new[2] <= levelsOf[t]
        /\ Len(new) = 3 /\ new[3] = 0 => new[2] < levelsOf[t]
    <2> DEFINE new == Append(found, next)
    <2>1. /\ Len(new) = n /\ new[n] = next /\ n \in 1 .. 3 /\ Len(found) = n - 1
          /\ \A i \in 1 .. (n - 1) : new[i] = found[i]
      BY <1>4 DEF n
    <2>2. CASE n = 1
      BY <1>4, <1>6, <1>8, <2>1, <2>2
    <2>3. CASE n = 2
      BY <1>4, <1>5, <1>6, <2>1, <2>3
    <2>4. CASE n = 3
      <3>1. new[1] = found[1] /\ new[2] = found[2] /\ found[2] \in Nat /\ found[1] \in Nat
        BY <1>4, <2>1, <2>4
      <3> QED
        BY <1>4, <1>5, <1>6, <2>1, <2>4, <3>1
    <2> QED
      BY <2>1, <2>2, <2>3, <2>4
  <1>10. TemplateShapes'
    <2>1. \A x \in Observers : Len(observer'[x].found) <= 3
      BY <1>0, <1>7, <1>9 DEF TemplateShapes
    <2> QED
      BY <1>0, <1>1, <1>7, <2>1 DEF TemplateShapes
  <1>11. Found'
    BY <1>0, <1>1, <1>7, <1>9 DEF Found
  <1> QED
    BY <1>2, <1>3, <1>10, <1>11 DEF TemplateInv
-----------------------------------------------------------------------------
LEMMA TemplatesInvariance == TemplatesSpec => []TemplateInv
  <1>1. TemplateInv /\ [TemplatesNext]_templateVars => TemplateInv'
    <2> SUFFICES ASSUME TemplateInv, [TemplatesNext]_templateVars PROVE TemplateInv'
      OBVIOUS
    <2>1. ASSUME NEW e \in Editors, NEW op \in {"create", "update", "archive"}, NEW t \in TemplateIds,
                 NEW s \in Slugs, NEW a \in Askings, AskEdit(e, op, t, s, a)
          PROVE  TemplateInv'
      BY <2>1, EditorSteps, StepsKeep DEF TemplateInv
    <2>2. ASSUME NEW e \in Editors,
                 FindTemplate(e) \/ CheckSlug(e) \/ ReadTemplate(e) \/ SaveTemplate(e) \/ EditFails(e)
          PROVE  TemplateInv'
      BY <2>2, EditorSteps, StepsKeep DEF TemplateInv
    <2>3. ASSUME NEW e \in Editors, CommitTemplate(e) PROVE TemplateInv'
      BY <2>3, CommitKeeps
    <2>4. ASSUME NEW o \in Observers, Observe(o) PROVE TemplateInv'
      BY <2>4, ObserveKeeps
    <2>5. CASE UNCHANGED templateVars
      BY <2>5 DEF templateVars, TemplateInv, TemplateShapes, Locked, SlugsDistinct, MixedOnlyWhenArchived, Ordered,
                  Found, Holding, SlugWritten, Exists
    <2> QED
      BY <2>1, <2>2, <2>3, <2>4, <2>5 DEF TemplatesNext
  <1> QED
    BY <1>1, TemplateInitInv, PTL DEF TemplatesSpec

\* What the tables hold and what is read of them fits together, for any number
\* of requests: no two templates share a slug, only an archived template has
\* levels that are not its row's, and no read goes back.
THEOREM TablesAgree == TemplatesSpec => []TemplatesAgree
  <1>1. TemplateInv => TemplatesAgree
    <2> SUFFICES ASSUME TemplateInv PROVE ReadNeverGoesBack
      BY DEF TemplateInv, TemplatesAgree
    <2> QED
      BY PartsSeen DEF TemplateInv, Found, ReadNeverGoesBack
  <1> QED
    BY <1>1, TemplatesInvariance, PTL

\* An edit undoes another one only when it has read the row before the other's
\* commit.
THEOREM UndoesOnlyStale == TemplatesSpec => UndoneOnlyWhenStale
  <1> DEFINE Undoes(e, t) ==
        /\ editor[e].at = "commit" /\ editor[e].of = t /\ editor'[e].at = "ended"
        /\ tmpl'[t] # tmpl[t] /\ Exists(t)
        => \/ editor[e].copy # tmpl[t]
           \/ /\ tmpl[t].archived => tmpl'[t].archived
              /\ tmpl'[t].version = tmpl[t].version + (IF editor[e].op = "update" THEN 1 ELSE 0)
  <1>1. ASSUME TemplateInv, [TemplatesNext]_templateVars, NEW e \in Editors, NEW t \in TemplateIds,
               editor[e].at = "commit", editor[e].of = t, editor'[e].at = "ended",
               tmpl'[t] # tmpl[t], Exists(t), editor[e].copy = tmpl[t]
        PROVE  /\ tmpl[t].archived => tmpl'[t].archived
               /\ tmpl'[t].version = tmpl[t].version + (IF editor[e].op = "update" THEN 1 ELSE 0)
    <2>0. TemplateShapes /\ Ordered
      BY <1>1 DEF TemplateInv
    <2>1. CommitTemplate(e)
      <3>1. PICK x \in Editors : CommitTemplate(x)
        BY <1>1 DEF TemplatesNext, templateVars, AskEdit, FindTemplate, CheckSlug, ReadTemplate,
           SaveTemplate, EditFails, Observe, Keep
      <3>2. CASE x # e
        <4>1. editor'[e] = editor[e]
          BY <2>0, <3>1, <3>2, Ending DEF CommitTemplate, Advances
        <4> QED
          BY <1>1, <4>1
      <3> QED
        BY <3>1, <3>2
    <2>2. editor[e].op # "create" /\ editor[e].op \in {"create", "update", "archive"}
      BY <1>1, <2>0 DEF Ordered, Exists, NoRow, TemplateShapes, EditType
    <2>3. tmpl[t] \in RowType
      BY <2>0 DEF TemplateShapes
    <2>4. CASE editor[e].op = "archive"
      <3>1. tmpl'[t] = [tmpl[t] EXCEPT !.archived = TRUE]
        BY <1>1, <2>1, <2>4, CommitRow
      <3> QED
        BY <2>3, <2>4, <3>1 DEF RowType
    <2>5. CASE editor[e].op = "update"
      <3>1. tmpl'[t] = UpdatedRow(e)
        BY <1>1, <2>1, <2>5, CommitRow
      <3>2. UpdatedRow(e) = [tmpl[t] EXCEPT !.slug = editor[e].slug, !.version = @ + 1, !.by = commits + 1]
        BY <1>1, <2>5 DEF UpdatedRow
      <3> QED
        BY <2>3, <2>5, <3>1, <3>2 DEF RowType
    <2> QED
      BY <2>2, <2>4, <2>5
  <1>2. TemplateInv /\ [TemplatesNext]_templateVars =>
          [\A e \in Editors, t \in TemplateIds : Undoes(e, t)]_templateVars
    BY <1>1
  <1> QED
    BY <1>2, TemplatesInvariance, PTL DEF TemplatesSpec, UndoneOnlyWhenStale
-----------------------------------------------------------------------------
(* AuthSessions. *)
CallbackType == [at : {"consume", "exchange", "save", "over"}, login : Logins \cup {Unused}]
SessionType == [until : Nat, expires : Nat]
CarrierType == [at : {"idle", "read", "expired", "save", "delete", "served", "refused"},
                of : Callbacks \cup {Unused}, kind : {"api", "ops", "logout"},
                copy : Nat, taken : Nat]
LogoutType == [done : BOOLEAN, readers : SUBSET Carriers]

SessionShapes ==
    /\ now \in Nat
    /\ heldUntil \in [Logins -> Nat]
    /\ callback \in [Callbacks -> CallbackType]
    /\ session \in [Callbacks -> SessionType]
    /\ carrier \in [Carriers -> CarrierType]
    /\ lastUse \in [Callbacks -> Nat]
    /\ logouts \in [Callbacks -> LogoutType]

\* A state that a callback has consumed is gone.
Consumed ==
    \A c \in Callbacks : callback[c].login # Unused =>
        heldUntil[callback[c].login] = 0 /\ callback[c].at # "consume"

\* A session is used after its callback only.
UsedAfterwards ==
    /\ \A c \in Callbacks : callback[c].at # "over" => lastUse[c] = 0
    /\ \A r \in Carriers : carrier[r].at # "idle" =>
          carrier[r].of \in Callbacks /\ lastUse[carrier[r].of] > 0
    /\ \A s \in Callbacks : logouts[s].done => lastUse[s] > 0

\* A request that had read the session before it was logged out is past its write.
PastWrite(r) == carrier[r].at \in {"served", "delete", "refused"}
WrittenBack(s) == \E r \in logouts[s].readers : PastWrite(r)

Accounted ==
    /\ \A s \in Callbacks : logouts[s].done /\ session[s].until > 0 => WrittenBack(s)
    /\ \A r \in Carriers :
          carrier[r].at \in {"read", "save"} /\ logouts[carrier[r].of].done =>
              r \in logouts[carrier[r].of].readers \/ WrittenBack(carrier[r].of)

SessionInv == SessionShapes /\ Consumed /\ OneCallbackPerLogin /\ UsedAfterwards /\ Accounted
-----------------------------------------------------------------------------
LEMMA SessionInitInv == AuthInit => SessionInv
  <1> SUFFICES ASSUME AuthInit PROVE SessionInv
    OBVIOUS
  <1>1. SessionShapes
    BY DEF AuthInit, SessionShapes, Gone, Idle, CallbackType, SessionType, CarrierType, LogoutType
  <1>2. Consumed /\ OneCallbackPerLogin /\ UsedAfterwards /\ Accounted
    BY DEF AuthInit, Consumed, OneCallbackPerLogin, UsedAfterwards, Accounted, Idle, Gone
  <1> QED
    BY <1>1, <1>2 DEF SessionInv

\* What a step does to a record of each kind leaves it one.
LEMMA CallbackMoves ==
  ASSUME SessionShapes, NEW c \in Callbacks, NEW a \in {"consume", "exchange", "save", "over"}
  PROVE  [callback EXCEPT ![c].at = a] \in [Callbacks -> CallbackType]
  BY DEF SessionShapes, CallbackType

LEMMA CarrierMoves ==
  ASSUME SessionShapes, NEW r \in Carriers,
         NEW a \in {"idle", "read", "expired", "save", "delete", "served", "refused"}
  PROVE  [carrier EXCEPT ![r].at = a] \in [Carriers -> CarrierType]
  <1>1. [carrier[r] EXCEPT !.at = a] \in CarrierType
    BY DEF SessionShapes, CarrierType
  <1> QED
    BY <1>1 DEF SessionShapes

LEMMA SessionWrites ==
  ASSUME SessionShapes, NEW s \in Callbacks, NEW t \in Nat
  PROVE  /\ [session EXCEPT ![s] = Saved(t)] \in [Callbacks -> SessionType]
         /\ [session EXCEPT ![s] = Gone] \in [Callbacks -> SessionType]
  <1>1. Saved(t) \in SessionType /\ Gone \in SessionType
    BY AuthAssumption DEF SessionShapes, Saved, Gone, SessionType
  <1> QED
    BY <1>1 DEF SessionShapes

LEMMA NextShapes == SessionShapes /\ UsedAfterwards /\ [AuthNext]_authVars => SessionShapes'
  <1> SUFFICES ASSUME SessionShapes, UsedAfterwards, [AuthNext]_authVars PROVE SessionShapes'
    OBVIOUS
  <1>1. CASE Tick
    BY <1>1 DEF Tick, SessionShapes
  <1>2. ASSUME NEW l \in Logins, DiscordLogin(l) PROVE SessionShapes'
    BY <1>2, AuthAssumption DEF DiscordLogin, SessionShapes
  <1>3. ASSUME NEW c \in Callbacks, Exchange(c) PROVE SessionShapes'
    <2>1. callback' \in [Callbacks -> CallbackType]
      BY <1>3, CallbackMoves DEF Exchange, CallbackGoes
    <2> QED
      BY <1>3, <2>1 DEF Exchange, SessionShapes
  <1>4. ASSUME NEW c \in Callbacks, SaveNewSession(c) PROVE SessionShapes'
    <2>1. callback' \in [Callbacks -> CallbackType]
      BY <1>4, CallbackMoves DEF SaveNewSession, CallbackGoes
    <2>2. session' \in [Callbacks -> SessionType]
      <3>1. session' = [session EXCEPT ![c] = Saved(now)] \/ session' = session
        BY <1>4 DEF SaveNewSession, Writes
      <3> QED
        BY <3>1, SessionWrites DEF SessionShapes
    <2>3. lastUse' \in [Callbacks -> Nat]
      BY <1>4 DEF SaveNewSession, Writes, SessionShapes
    <2> QED
      BY <1>4, <2>1, <2>2, <2>3 DEF SaveNewSession, SessionShapes
  <1>5. ASSUME NEW c \in Callbacks, NEW l \in Logins, ConsumeOAuthState(c, l) PROVE SessionShapes'
    <2>1. callback' \in [Callbacks -> CallbackType]
      <3>1. [at |-> "exchange", login |-> l] \in CallbackType
        BY DEF CallbackType
      <3>2. \/ callback' = [callback EXCEPT ![c] = [at |-> "exchange", login |-> l]]
            \/ callback' = [callback EXCEPT ![c].at = "over"]
        BY <1>5 DEF ConsumeOAuthState, CallbackGoes
      <3> QED
        BY <3>1, <3>2, CallbackMoves DEF SessionShapes
    <2> QED
      BY <1>5, <2>1 DEF ConsumeOAuthState, ReadAndDelete, SessionShapes
  <1>6. ASSUME NEW r \in Carriers, NEW s \in Callbacks, NEW kind \in {"api", "ops", "logout"},
               GetSession(r, s, kind)
        PROVE  SessionShapes'
    <2>1. \E a \in {"read", "refused"} : carrier' = [carrier EXCEPT ![r] =
             [at |-> a, of |-> s, kind |-> kind, copy |-> session[s].expires, taken |-> 0]]
      BY <1>6 DEF GetSession
    <2>2. session[s].expires \in Nat
      BY DEF SessionShapes, SessionType
    <2>3. carrier' \in [Carriers -> CarrierType]
      BY <2>1, <2>2 DEF SessionShapes, CarrierType
    <2> QED
      BY <1>6, <2>3 DEF GetSession, Untouched, SessionShapes
  <1>7. ASSUME NEW r \in Carriers, CheckExpiry(r) PROVE SessionShapes'
    <2>1. PICK a \in {"refused", "expired", "served", "save"} :
             carrier' = [carrier EXCEPT ![r].taken = now, ![r].at = a]
      BY <1>7 DEF CheckExpiry
    <2>2. [[carrier[r] EXCEPT !.taken = now] EXCEPT !.at = a] \in CarrierType
      BY DEF SessionShapes, CarrierType
    <2>3. carrier' \in [Carriers -> CarrierType]
      BY <2>1, <2>2 DEF SessionShapes
    <2> QED
      BY <1>7, <2>3 DEF CheckExpiry, Untouched, SessionShapes
  <1>8. ASSUME NEW r \in Carriers, DropExpired(r) PROVE SessionShapes'
    <2>1. carrier' \in [Carriers -> CarrierType]
      BY <1>8, CarrierMoves DEF DropExpired, Goes
    <2>2. session' \in [Callbacks -> SessionType]
      BY <1>8, SessionWrites DEF DropExpired, SessionShapes, UsedAfterwards
    <2> QED
      BY <1>8, <2>1, <2>2 DEF DropExpired, Untouched, SessionShapes
  <1>9. ASSUME NEW r \in Carriers, SaveSession(r) PROVE SessionShapes'
    <2>1. carrier[r].of \in Callbacks /\ carrier[r].taken \in Nat
      BY <1>9 DEF SaveSession, UsedAfterwards, SessionShapes, CarrierType
    <2>2. session' \in [Callbacks -> SessionType]
      <3>1. session' = [session EXCEPT ![carrier[r].of] = Saved(carrier[r].taken)] \/ session' = session
        BY <1>9 DEF SaveSession, Writes
      <3> QED
        BY <2>1, <3>1, SessionWrites DEF SessionShapes
    <2>3. carrier' \in [Carriers -> CarrierType]
      <3>1. PICK a \in {"delete", "served", "refused"} : carrier' = [carrier EXCEPT ![r].at = a]
        BY <1>9 DEF SaveSession, Writes, Goes
      <3> QED
        BY <3>1, CarrierMoves
    <2>4. lastUse' \in [Callbacks -> Nat]
      BY <1>9, <2>1 DEF SaveSession, SessionShapes
    <2> QED
      BY <1>9, <2>2, <2>3, <2>4 DEF SaveSession, SessionShapes
  <1>10. ASSUME NEW r \in Carriers, AuthLogout(r) PROVE SessionShapes'
    <2>1. carrier[r].of \in Callbacks
      BY <1>10 DEF AuthLogout, UsedAfterwards
    <2>2. session' \in [Callbacks -> SessionType]
      <3>1. session' = [session EXCEPT ![carrier[r].of] = Gone] \/ session' = session
        BY <1>10 DEF AuthLogout, Writes, DeleteSession
      <3>2. 0 \in Nat
        OBVIOUS
      <3> QED
        BY <2>1, <3>1, <3>2, SessionWrites DEF SessionShapes
    <2>3. carrier' \in [Carriers -> CarrierType]
      <3>1. PICK a \in {"served", "refused"} : carrier' = [carrier EXCEPT ![r].at = a]
        BY <1>10 DEF AuthLogout, Writes, Goes
      <3> QED
        BY <3>1, CarrierMoves
    <2>4. logouts' \in [Callbacks -> LogoutType]
      <3>1. Readers(carrier[r].of) \subseteq Carriers
        BY DEF Readers
      <3>2. [done |-> TRUE, readers |-> logouts[carrier[r].of].readers \cup Readers(carrier[r].of)]
              \in LogoutType
        BY <2>1, <3>1 DEF SessionShapes, LogoutType
      <3> QED
        BY <1>10, <2>1, <3>2 DEF AuthLogout, SessionShapes
    <2> QED
      BY <1>10, <2>2, <2>3, <2>4 DEF AuthLogout, SessionShapes
  <1>11. CASE UNCHANGED authVars
    BY <1>11 DEF authVars, SessionShapes
  <1> QED
    BY <1>1, <1>2, <1>3, <1>4, <1>5, <1>6, <1>7, <1>8, <1>9, <1>10, <1>11 DEF AuthNext

\* States are handed out under a new name and consumed once.
LEMMA NextConsumed ==
  SessionShapes /\ Consumed /\ OneCallbackPerLogin /\ [AuthNext]_authVars
    => Consumed' /\ OneCallbackPerLogin'
  <1> SUFFICES ASSUME SessionShapes, Consumed, OneCallbackPerLogin, [AuthNext]_authVars
               PROVE  Consumed' /\ OneCallbackPerLogin'
    OBVIOUS
  <1> USE DEF SessionShapes, CallbackType, Consumed, OneCallbackPerLogin
  <1>1. ASSUME NEW l \in Logins, DiscordLogin(l) PROVE Consumed' /\ OneCallbackPerLogin'
    BY <1>1 DEF DiscordLogin
  <1>2. ASSUME NEW c \in Callbacks, Exchange(c) \/ SaveNewSession(c)
        PROVE  Consumed' /\ OneCallbackPerLogin'
    <2>1. PICK a \in {"save", "over"} :
             callback' = [callback EXCEPT ![c].at = a] /\ heldUntil' = heldUntil
      BY <1>2 DEF Exchange, SaveNewSession, CallbackGoes
    <2>2. \A d \in Callbacks :
             callback'[d].login = callback[d].login /\ callback'[d].at \in {callback[d].at, a}
      BY <2>1
    <2> QED
      BY <2>1, <2>2
  <1>3. ASSUME NEW c \in Callbacks, NEW l \in Logins, ConsumeOAuthState(c, l)
        PROVE  Consumed' /\ OneCallbackPerLogin'
    <2>1. callback[c].login = Unused /\ heldUntil[l] # 0
      BY <1>3 DEF ConsumeOAuthState
    <2>2. /\ heldUntil' = [heldUntil EXCEPT ![l] = 0]
          /\ \/ callback' = [callback EXCEPT ![c] = [at |-> "exchange", login |-> l]]
             \/ callback' = [callback EXCEPT ![c].at = "over"]
      BY <1>3 DEF ConsumeOAuthState, ReadAndDelete, CallbackGoes
    <2>3. /\ \A d \in Callbacks : d # c => callback'[d] = callback[d]
          /\ callback'[c].login \in {l, Unused} /\ callback'[c].at # "consume"
      BY <2>1, <2>2
    <2>4. \A d \in Callbacks : callback[d].login # l \/ l = Unused
      BY <2>1
    <2>5. Consumed'
      BY <2>2, <2>3
    <2>6. OneCallbackPerLogin'
      BY <2>3, <2>4
    <2> QED
      BY <2>5, <2>6
  <1>4. CASE UNCHANGED <<callback, heldUntil>>
    BY <1>4
  <1> QED
    BY <1>1, <1>2, <1>3, <1>4
       DEF AuthNext, Tick, GetSession, CheckExpiry, DropExpired, SaveSession, AuthLogout,
           Untouched, authVars

LEMMA NextUsed == SessionInv /\ [AuthNext]_authVars => UsedAfterwards'
  <1> SUFFICES ASSUME SessionInv, [AuthNext]_authVars PROVE UsedAfterwards'
    OBVIOUS
  <1> SessionShapes /\ UsedAfterwards /\ SessionShapes'
    BY NextShapes DEF SessionInv
  <1> USE DEF UsedAfterwards
  <1>1. ASSUME NEW l \in Logins, DiscordLogin(l) PROVE UsedAfterwards'
    BY <1>1 DEF DiscordLogin
  <1>2. ASSUME NEW c \in Callbacks, Exchange(c) PROVE UsedAfterwards'
    BY <1>2 DEF Exchange, CallbackGoes, SessionShapes
  <1>3. ASSUME NEW c \in Callbacks, SaveNewSession(c) PROVE UsedAfterwards'
    <2>1. /\ callback' = [callback EXCEPT ![c].at = "over"]
          /\ \A s \in Callbacks : s # c => lastUse'[s] = lastUse[s]
          /\ lastUse[c] = 0
          /\ carrier' = carrier /\ logouts' = logouts
      BY <1>3 DEF SaveNewSession, CallbackGoes, Writes, SessionShapes
    <2> QED
      BY <2>1 DEF SessionShapes
  <1>4. ASSUME NEW c \in Callbacks, NEW l \in Logins, ConsumeOAuthState(c, l)
        PROVE  UsedAfterwards'
    BY <1>4 DEF ConsumeOAuthState, CallbackGoes, SessionShapes
  <1>5. ASSUME NEW r \in Carriers, NEW s \in Callbacks, NEW kind \in {"api", "ops", "logout"},
               GetSession(r, s, kind)
        PROVE  UsedAfterwards'
    BY <1>5 DEF GetSession, Untouched, SessionShapes
  <1>6. ASSUME NEW r \in Carriers, CheckExpiry(r) \/ DropExpired(r) PROVE UsedAfterwards'
    BY <1>6 DEF CheckExpiry, DropExpired, Untouched, Goes, SessionShapes, CarrierType
  <1>7. ASSUME NEW r \in Carriers, SaveSession(r) PROVE UsedAfterwards'
    <2>1. /\ carrier[r].of \in Callbacks /\ lastUse[carrier[r].of] > 0
          /\ \E a \in {"delete", "served", "refused"} : carrier' = [carrier EXCEPT ![r].at = a]
          /\ UNCHANGED <<callback, logouts>>
      BY <1>7 DEF SaveSession, Writes, Goes
    <2>2. \A s \in Callbacks : 
            lastUse'[s] = lastUse[s] \/ (s = carrier[r].of /\ lastUse'[s] > lastUse[s])
      <3>1. carrier[r].taken \in Nat
        BY DEF SessionShapes, CarrierType
      <3> QED
        BY <1>7, <2>1, <3>1 DEF SaveSession, SessionShapes
    <2>3. \A s \in Callbacks : (lastUse[s] > 0 => lastUse'[s] > 0) /\ (lastUse[s] = 0 => lastUse'[s] = 0)
      BY <2>1, <2>2 DEF SessionShapes
    <2> QED
      BY <2>1, <2>3 DEF SessionShapes
  <1>8. ASSUME NEW r \in Carriers, AuthLogout(r) PROVE UsedAfterwards'
    <2>1. /\ carrier[r].of \in Callbacks /\ lastUse[carrier[r].of] > 0
          /\ \E a \in {"served", "refused"} : carrier' = [carrier EXCEPT ![r].at = a]
          /\ UNCHANGED <<callback, lastUse>>
      BY <1>8 DEF AuthLogout, Writes, Goes
    <2>2. \A s \in Callbacks : logouts'[s].done => logouts[s].done \/ s = carrier[r].of
      BY <1>8, <2>1 DEF AuthLogout, SessionShapes
    <2> QED
      BY <2>1, <2>2 DEF SessionShapes
  <1>9. CASE UNCHANGED <<callback, carrier, lastUse, logouts>>
    BY <1>9
  <1> QED
    BY <1>1, <1>2, <1>3, <1>4, <1>5, <1>6, <1>7, <1>8, <1>9 DEF AuthNext, Tick, authVars
-----------------------------------------------------------------------------
\* No step of a request but its write and what follows takes it past its write,
\* and nothing takes it back: what was written back stays accounted for.
LEMMA StaysWrittenBack ==
  ASSUME SessionShapes, [AuthNext]_authVars, NEW s \in Callbacks, WrittenBack(s)
  PROVE  WrittenBack(s)'
  <1> PICK q \in logouts[s].readers : PastWrite(q)
    BY DEF WrittenBack
  <1>1. q \in Carriers
    BY DEF SessionShapes, LogoutType
  <1>2. q \in logouts'[s].readers
    <2>1. ASSUME NEW r \in Carriers, AuthLogout(r) PROVE q \in logouts'[s].readers
      BY <2>1 DEF AuthLogout, SessionShapes
    <2> QED
      BY <2>1 DEF AuthNext, Tick, DiscordLogin, Exchange, SaveNewSession, ConsumeOAuthState,
         GetSession, CheckExpiry, DropExpired, SaveSession, authVars
  <1>3. PastWrite(q)'
    <2>1. ASSUME NEW r \in Carriers, NEW t \in Callbacks, NEW kind, GetSession(r, t, kind)
          PROVE  PastWrite(q)'
      BY <1>1, <2>1 DEF GetSession, PastWrite, SessionShapes
    <2>2. ASSUME NEW r \in Carriers, CheckExpiry(r) \/ DropExpired(r) \/ SaveSession(r)
          PROVE  PastWrite(q)'
      BY <1>1, <2>2 DEF CheckExpiry, DropExpired, SaveSession, Writes, Goes, PastWrite, SessionShapes, CarrierType
    <2>3. ASSUME NEW r \in Carriers, AuthLogout(r) PROVE PastWrite(q)'
      BY <1>1, <2>3 DEF AuthLogout, Writes, Goes, PastWrite, SessionShapes, CarrierType
    <2>4. CASE carrier' = carrier
      BY <2>4 DEF PastWrite
    <2> QED
      BY <2>1, <2>2, <2>3, <2>4
         DEF AuthNext, Tick, DiscordLogin, Exchange, SaveNewSession, ConsumeOAuthState, authVars
  <1> QED
    BY <1>2, <1>3 DEF WrittenBack

LEMMA NextAccounted == SessionInv /\ [AuthNext]_authVars => Accounted'
  <1> SUFFICES ASSUME SessionInv, [AuthNext]_authVars PROVE Accounted'
    OBVIOUS
  <1>0. SessionShapes /\ UsedAfterwards /\ Accounted /\ SessionShapes' /\ UsedAfterwards'
    BY NextShapes, NextUsed DEF SessionInv
  <1>a. \A s \in Callbacks : WrittenBack(s) => WrittenBack(s)'
    BY <1>0, StaysWrittenBack
  <1>1. ASSUME UNCHANGED <<carrier, logouts>>,
               \A s \in Callbacks : logouts[s].done => session'[s] = session[s]
        PROVE  Accounted'
    BY <1>0, <1>1 DEF Accounted, WrittenBack, PastWrite
  <1>2. ASSUME NEW c \in Callbacks, SaveNewSession(c) PROVE Accounted'
    <2>1. lastUse[c] = 0 /\ ~logouts[c].done
      BY <1>0, <1>2 DEF SaveNewSession, UsedAfterwards, SessionShapes
    <2>2. UNCHANGED <<carrier, logouts>> /\ \A s \in Callbacks : s # c => session'[s] = session[s]
      BY <1>0, <1>2 DEF SaveNewSession, Writes, SessionShapes
    <2> QED
      BY <1>1, <2>1, <2>2
  <1>3. ASSUME NEW r \in Carriers, NEW s \in Callbacks, NEW kind \in {"api", "ops", "logout"},
               GetSession(r, s, kind)
        PROVE  Accounted'
    <2>1. /\ UNCHANGED <<session, logouts>>
          /\ \A q \in Carriers : q # r => carrier'[q] = carrier[q]
          /\ carrier'[r].of = s
          /\ carrier'[r].at = "read" => session[s].until > 0
      BY <1>0, <1>3 DEF GetSession, Held, SessionShapes, SessionType
    <2>2. logouts[s].done /\ carrier'[r].at = "read" => WrittenBack(s)'
      BY <1>0, <1>a, <2>1 DEF Accounted
    <2>3. carrier'[r].at # "save"
      BY <1>0, <1>3 DEF GetSession, SessionShapes
    <2>4. \A q \in Carriers :
            carrier'[q].at \in {"read", "save"} /\ logouts'[carrier'[q].of].done =>
              q \in logouts'[carrier'[q].of].readers \/ WrittenBack(carrier[q].of)'
      <3> SUFFICES ASSUME NEW q \in Carriers, carrier'[q].at \in {"read", "save"},
                          logouts'[carrier'[q].of].done
                   PROVE  q \in logouts'[carrier'[q].of].readers \/ WrittenBack(carrier[q].of)'
        OBVIOUS
      <3>1. CASE q = r
        <4>1. WrittenBack(s)'
          BY <2>1, <2>2, <2>3, <3>1
        <4> QED
          BY <2>1, <3>1, <4>1 DEF WrittenBack
      <3>2. CASE q # r
        <4>1. carrier'[q] = carrier[q] /\ carrier[q].of \in Callbacks
          BY <1>0, <2>1, <3>2 DEF UsedAfterwards
        <4>2. q \in logouts[carrier[q].of].readers \/ WrittenBack(carrier[q].of)
          BY <1>0, <2>1, <4>1 DEF Accounted
        <4>3. WrittenBack(carrier[q].of) => WrittenBack(carrier[q].of)'
          BY <1>a, <4>1 DEF WrittenBack
        <4> QED
          BY <2>1, <4>1, <4>2, <4>3
      <3> QED
        BY <3>1, <3>2
    <2>5. \A t \in Callbacks : logouts'[t].done /\ session'[t].until > 0 => WrittenBack(t)'
      BY <1>0, <1>a, <2>1 DEF Accounted
    <2> QED
      BY <2>4, <2>5 DEF Accounted
  \* The steps of a request that has its session: its session, and what the
  \* step may do to session and request.
  <1>4. ASSUME NEW r \in Carriers, NEW s \in Callbacks, carrier[r].of = s,
               \A q \in Carriers : q # r => carrier'[q] = carrier[q],
               carrier'[r].of = s,
               carrier'[r].at \in {"read", "save"} => carrier[r].at \in {"read", "save"},
               \A t \in Callbacks : t # s => session'[t] = session[t] /\ logouts'[t] = logouts[t],
               logouts[s].readers \subseteq logouts'[s].readers,
               logouts'[s].done /\ ~logouts[s].done => Readers(s) \subseteq logouts'[s].readers,
               logouts'[s].done /\ session'[s].until > 0 =>
                  (logouts[s].done /\ session[s].until > 0) \/ WrittenBack(s)'
        PROVE  Accounted'
    <2>1. \A t \in Callbacks : logouts'[t].done /\ session'[t].until > 0 => WrittenBack(t)'
      BY <1>0, <1>a, <1>4 DEF Accounted
    <2>2. ASSUME NEW q \in Carriers, carrier'[q].at \in {"read", "save"},
                 logouts'[carrier'[q].of].done
          PROVE  q \in logouts'[carrier'[q].of].readers \/ WrittenBack(carrier[q].of)'
      <3>1. /\ carrier'[q].of = carrier[q].of /\ carrier[q].at \in {"read", "save"}
            /\ carrier[q].of \in Callbacks
        BY <1>0, <1>4, <2>2 DEF UsedAfterwards
      <3>2. CASE logouts[carrier[q].of].done
        <4>1. q \in logouts[carrier[q].of].readers \/ WrittenBack(carrier[q].of)
          BY <1>0, <3>1, <3>2 DEF Accounted
        <4>2. WrittenBack(carrier[q].of) => WrittenBack(carrier[q].of)'
          BY <1>a, <3>1 DEF WrittenBack
        <4> QED
          BY <1>4, <3>1, <4>1, <4>2
      <3>3. CASE ~logouts[carrier[q].of].done
        <4>1. carrier[q].of = s /\ q \in Readers(s)
          BY <1>4, <2>2, <3>1, <3>3 DEF Readers
        <4> QED
          BY <1>4, <2>2, <3>1, <3>3, <4>1
      <3> QED
        BY <3>2, <3>3
    <2> QED
      BY <2>1, <2>2 DEF Accounted
  <1>5. ASSUME NEW r \in Carriers, CheckExpiry(r) PROVE Accounted'
    <2>1. carrier[r].of \in Callbacks
      BY <1>0, <1>5 DEF CheckExpiry, UsedAfterwards
    <2> QED
      BY <1>0, <1>4, <1>5, <2>1 DEF CheckExpiry, Untouched, SessionShapes
  <1>6. ASSUME NEW r \in Carriers, DropExpired(r) PROVE Accounted'
    <2>1. carrier[r].of \in Callbacks
      BY <1>0, <1>6 DEF DropExpired, UsedAfterwards
    <2>2. \/ session' = session
          \/ session' = [session EXCEPT ![carrier[r].of] = [until |-> 0, expires |-> 0]]
      BY <1>6 DEF DropExpired, Gone
    <2> QED
      BY <1>0, <1>4, <1>6, <2>1, <2>2 DEF DropExpired, Untouched, Goes, SessionShapes
  <1>7. ASSUME NEW r \in Carriers, SaveSession(r) PROVE Accounted'
    <2> DEFINE s == carrier[r].of
    <2>1. /\ s \in Callbacks /\ carrier[r].at = "save"
          /\ \E a \in {"delete", "served", "refused"} : carrier' = [carrier EXCEPT ![r].at = a]
          /\ logouts' = logouts
          /\ \A t \in Callbacks : t # s => session'[t] = session[t]
      BY <1>0, <1>7 DEF SaveSession, Writes, Goes, UsedAfterwards, SessionShapes
    <2>2. logouts[s].done => WrittenBack(s)'
      <3>1. PastWrite(r)'
        BY <1>0, <2>1 DEF PastWrite, SessionShapes
      <3>2. logouts[s].done => r \in logouts[s].readers \/ WrittenBack(s)
        BY <1>0, <2>1 DEF Accounted
      <3>3. \A t : r \in logouts[t].readers => WrittenBack(t)'
        BY <2>1, <3>1 DEF WrittenBack
      <3>4. s' = s
        BY <1>0, <2>1 DEF SessionShapes
      <3> QED
        BY <1>a, <2>1, <3>2, <3>3, <3>4
    <2> QED
      BY <1>0, <1>4, <2>1, <2>2 DEF SessionShapes
  <1>8. ASSUME NEW r \in Carriers, AuthLogout(r) PROVE Accounted'
    <2> DEFINE s == carrier[r].of
    <2>1. s \in Callbacks /\ carrier[r].at = "delete"
      BY <1>0, <1>8 DEF AuthLogout, UsedAfterwards
    <2>2. \/ /\ carrier' = [carrier EXCEPT ![r].at = "served"]
             /\ session' = [session EXCEPT ![s] = [until |-> 0, expires |-> 0]]
          \/ /\ carrier' = [carrier EXCEPT ![r].at = "refused"]
             /\ \/ session' = [session EXCEPT ![s] = [until |-> 0, expires |-> 0]]
                \/ session' = session
      BY <1>8 DEF AuthLogout, Writes, Goes, DeleteSession, Gone
    <2>3. logouts' = IF carrier'[r].at = "served"
                     THEN [logouts EXCEPT ![s] = [done |-> TRUE, readers |-> @.readers \cup Readers(s)]]
                     ELSE logouts
      BY <1>8 DEF AuthLogout
    <2>4. /\ \A q \in Carriers : q # r => carrier'[q] = carrier[q]
          /\ carrier'[r].of = s /\ carrier'[r].at \in {"served", "refused"}
          /\ \A t \in Callbacks : t # s => session'[t] = session[t] /\ logouts'[t] = logouts[t]
      BY <1>0, <2>1, <2>2, <2>3 DEF SessionShapes, CarrierType
    <2>5. CASE carrier'[r].at = "served"
      <3>1. logouts'[s].readers = logouts[s].readers \cup Readers(s) /\ session'[s].until = 0
        BY <1>0, <2>1, <2>2, <2>3, <2>5 DEF SessionShapes, CarrierType
      <3> QED
        BY <1>4, <2>1, <2>4, <2>5, <3>1
    <2>6. CASE carrier'[r].at = "refused"
      <3>1. logouts' = logouts /\ (session'[s] = session[s] \/ session'[s].until = 0)
        BY <1>0, <2>1, <2>2, <2>3, <2>6 DEF SessionShapes, CarrierType
      <3> QED
        BY <1>4, <2>1, <2>4, <2>6, <3>1
    <2> QED
      BY <2>4, <2>5, <2>6
  <1> QED
    BY <1>1, <1>2, <1>3, <1>5, <1>6, <1>7, <1>8
       DEF AuthNext, Tick, DiscordLogin, Exchange, ConsumeOAuthState, authVars

LEMMA SessionsInvariance == AuthSpec => []SessionInv
  <1>1. SessionInv /\ [AuthNext]_authVars => SessionInv'
    BY NextShapes, NextConsumed, NextUsed, NextAccounted DEF SessionInv
  <1> QED
    BY <1>1, SessionInitInv, PTL DEF AuthSpec
-----------------------------------------------------------------------------
\* Two callbacks never get past the same OAuth state, however many arrive with
\* it and whichever calls to Redis fail.
THEOREM ResponseNotReplayed == AuthSpec => []OneCallbackPerLogin
  <1>1. SessionInv => OneCallbackPerLogin
    BY DEF SessionInv
  <1> QED
    BY <1>1, SessionsInvariance, PTL

\* A session that was logged out comes back only through a request that had read
\* it before the deletion and has written it back since.
THEOREM LogoutIsFinal == AuthSpec => []LogoutFinal
  <1>1. SessionInv => LogoutFinal
    BY DEF SessionInv, LogoutFinal, Accounted, WrittenBack, PastWrite, Held, SessionShapes, SessionType
  <1> QED
    BY <1>1, SessionsInvariance, PTL
-----------------------------------------------------------------------------
(* StaffContext. *)
StaffType == [bits : SUBSET AllBits, active : 0 .. MaxClock]

Reading == {"bot", "guild", "saveGuild", "insertGuild", "staff", "saveStaff", "decide"}

VisitorType ==
    [at : {"idle", "user"} \cup Reading \cup Ends, via : {"dashboard", "command", "list"},
     wish : Wishes, bits : SUBSET AllBits, owner : BOOLEAN,
     guild : {"none", "member", "other"}, staff : StaffType,
     active : 0 .. MaxClock, since : Nat]

StaffShapes ==
    /\ clock \in 1 .. MaxClock /\ changes \in 0 .. MaxChanges
    /\ bits \in BitSets /\ owns \in BOOLEAN
    /\ known \in BOOLEAN /\ news \in Seq(BOOLEAN) /\ taken \subseteq Visitors
    /\ guildRow \in {"none", "member", "other"}
    /\ staffRow \in StaffType
    /\ visitor \in [Visitors -> VisitorType]
    /\ granted \in [Visitors -> SUBSET Wishes] /\ withheld \in [Visitors -> SUBSET Wishes]
    /\ offeredAt \in 0 .. (MaxChanges + 1)
    /\ \A v \in Visitors : visitor[v].at \in Reading => visitor[v].guild # "none" \/ visitor[v].at = "bot"

UnderWay(v) == visitor[v].at \notin {"idle"} \cup Ends

\* What Discord says now, and whom the bot takes for the owner now, is on the
\* ghosts' record of a request under way.
Noted(v) ==
    UnderWay(v) => /\ PermissionsOf(bits, owns) \subseteq granted[v]
                   /\ Wishes \ PermissionsOf(bits, owns) \subseteq withheld[v]
                   /\ known => v \in taken

\* What a request has read gives the rights of some time of the request, one
\* wish at a time: the owner may be read later than the bits. More rights than
\* Discord's come from the owner that the bot's state names.
ReadInTime(v) ==
    visitor[v].at \in Reading => /\ RightsOfReading(v) \subseteq granted[v] \/ v \in taken
                                 /\ Wishes \ RightsOfReading(v) \subseteq withheld[v]

\* Without a change since the request began its bits are the present ones.
Current(v) ==
    /\ visitor[v].since <= changes
    /\ visitor[v].since = changes /\ visitor[v].at \in Reading => visitor[v].bits = BitsOf(bits, owns)

\* What RightsFromOwnReading says of one request.
Rightful(v) ==
    /\ visitor[v].at = "served" => visitor[v].wish \in granted[v] \/ v \in taken
    /\ visitor[v].at = "denied" => visitor[v].wish \in withheld[v]

VisitorOK(v) == Noted(v) /\ ReadInTime(v) /\ Current(v) /\ Rightful(v)

\* Without a change since the list its offer stands.
OfferStands ==
    /\ offeredAt <= changes \/ offeredAt = MaxChanges + 1
    /\ offeredAt = changes => Offers(BitsOf(bits, owns), owns)

StaffInv == StaffShapes /\ OfferStands /\ \A v \in Visitors : VisitorOK(v)
-----------------------------------------------------------------------------
LEMMA NobodyYet == Waiting0 \in VisitorType /\ NoStaff \in StaffType
  BY StaffAssumption DEF Waiting0, VisitorType, StaffType, NoStaff, Wishes, Moderating, Managing

LEMMA StaffInitInv == StaffInit => StaffInv
  <1> SUFFICES ASSUME StaffInit PROVE StaffInv
    OBVIOUS
  <1>1. visitor \in [Visitors -> VisitorType] /\ staffRow \in StaffType
    BY NobodyYet DEF StaffInit
  <1>2. StaffShapes
    <2>1. \A v \in Visitors : visitor[v].at \notin Reading
      BY DEF StaffInit, Waiting0, Reading
    <2>2. clock \in 1 .. MaxClock /\ changes \in 0 .. MaxChanges /\ offeredAt \in 0 .. (MaxChanges + 1)
      BY StaffAssumption DEF StaffInit
    <2>3. granted \in [Visitors -> SUBSET Wishes] /\ withheld \in [Visitors -> SUBSET Wishes]
      BY DEF StaffInit
    <2> QED
      BY <1>1, <2>1, <2>2, <2>3 DEF StaffInit, StaffShapes
  <1>3. OfferStands
    BY StaffAssumption DEF StaffInit, OfferStands
  <1>4. ASSUME NEW v \in Visitors PROVE VisitorOK(v)
    BY DEF StaffInit, VisitorOK, Noted, ReadInTime, Current, Rightful, UnderWay, Waiting0, Reading
  <1> QED
    BY <1>2, <1>3, <1>4 DEF StaffInv

\* The rights of the bits as Discord reports them: an owner's are all set.
LEMMA ReportedBits ==
  ASSUME NEW b, NEW o \in BOOLEAN
  PROVE  /\ PermissionsOf(BitsOf(b, o), FALSE) = PermissionsOf(b, o)
         /\ PermissionsOf(BitsOf(b, o), o) = PermissionsOf(b, o)
         /\ Offers(BitsOf(b, o), o) <=> MayManage(b, o)
         /\ MayManage(BitsOf(b, o), o) <=> MayManage(b, o)
  BY DEF PermissionsOf, BitsOf, MayModerate, MayManage, Admin, AllBits, Offers

\* An owner read later adds rights, which that time granted.
LEMMA LaterOwner ==
  ASSUME NEW b, NEW o1 \in BOOLEAN, NEW c, NEW o2 \in BOOLEAN
  PROVE  /\ PermissionsOf(b, o1 \/ o2) \subseteq PermissionsOf(b, o1) \cup PermissionsOf(c, o2)
         /\ PermissionsOf(b, o1) \subseteq PermissionsOf(b, o1 \/ o2)
         /\ PermissionsOf(b, o1) \subseteq Wishes
  BY DEF PermissionsOf, MayModerate, MayManage, Admin, Wishes

\* The step of a request's handler to another point, or to its end.
LEMMA WhereToStep ==
  ASSUME StaffShapes, NEW v \in Visitors,
         NEW at \in {"idle", "user"} \cup Reading \cup Ends, ToStep(v, at)
  PROVE  /\ visitor' \in [Visitors -> VisitorType]
         /\ visitor'[v].at = at /\ visitor'[v].wish = visitor[v].wish
         /\ visitor'[v].since \in {0, visitor[v].since}
         /\ \A u \in Visitors \ {v} : visitor'[u] = visitor[u]
         /\ at \notin Ends => visitor'[v] = [visitor[v] EXCEPT !.at = at]
  <1> DEFINE ended == [Waiting0 EXCEPT !.at = at, !.wish = visitor[v].wish]
             moved == [visitor[v] EXCEPT !.at = at]
  <1>1. ended \in VisitorType /\ ended.at = at /\ ended.wish = visitor[v].wish /\ ended.since = 0
    <2>1. visitor[v].wish \in Wishes
      BY DEF StaffShapes, VisitorType
    <2> QED
      BY <2>1, NobodyYet DEF VisitorType, Waiting0
  <1>2. moved \in VisitorType /\ moved.at = at /\ moved.wish = visitor[v].wish
        /\ moved.since = visitor[v].since
    <2>1. visitor[v] \in VisitorType
      BY DEF StaffShapes
    <2> QED
      BY <2>1 DEF VisitorType
  <1>3. visitor' = [visitor EXCEPT ![v] = IF at \in Ends THEN ended ELSE moved]
    BY DEF ToStep
  <1> HIDE DEF ended, moved
  <1>4. visitor'[v] = IF at \in Ends THEN ended ELSE moved
    BY <1>3 DEF StaffShapes
  <1> QED
    BY <1>1, <1>2, <1>3, <1>4 DEF StaffShapes, moved

\* A request that keeps its readings, or ends without an answer, is in order
\* after a step of its own; the others do not notice.
LEMMA OthersInOrder ==
  ASSUME StaffInv, DiscordSame, NEW v \in Visitors,
         \A u \in Visitors \ {v} : visitor'[u] = visitor[u]
  PROVE  \A u \in Visitors \ {v} : VisitorOK(u)'
  BY DEF StaffInv, DiscordSame, discord, VisitorOK, Noted, ReadInTime, Current, Rightful, UnderWay,
         RightsOfReading

LEMMA MoveInOrder ==
  ASSUME StaffInv, DiscordSame, NEW v \in Visitors, UnderWay(v),
         NEW at \in {"idle", "user"} \cup Reading \cup Ends, ToStep(v, at),
         at \in Reading => visitor[v].at \in Reading \ {"bot"},
         at \notin {"idle", "served", "denied"}
  PROVE  /\ visitor' \in [Visitors -> VisitorType]
         /\ \A u \in Visitors : VisitorOK(u)'
  <1> USE DEF StaffInv
  <1>1. visitor' \in [Visitors -> VisitorType]
    BY WhereToStep
  <1>2. VisitorOK(v)'
    <2>0. visitor'[v].at = at /\ visitor'[v].since \in {0, visitor[v].since}
      BY WhereToStep
    <2>1. Rightful(v)'
      BY <2>0 DEF Rightful
    <2>2. Noted(v)'
      BY DEF VisitorOK, Noted, UnderWay, DiscordSame, discord
    <2>3. at \in Reading => /\ visitor'[v].bits = visitor[v].bits
                            /\ visitor'[v].owner = visitor[v].owner
                            /\ visitor'[v].since = visitor[v].since
      <3>1. at \in Reading => visitor'[v] = [visitor[v] EXCEPT !.at = at]
        BY WhereToStep DEF Reading, Ends
      <3>2. visitor[v] \in VisitorType
        BY DEF StaffShapes
      <3> QED
        BY <3>1, <3>2 DEF VisitorType
    <2>4. ReadInTime(v)'
      BY <2>0, <2>3 DEF VisitorOK, ReadInTime, RightsOfReading, DiscordSame, discord
    <2>5. Current(v)'
      <3>1. visitor'[v].since <= changes' /\ changes' = changes
        BY <2>0 DEF VisitorOK, Current, DiscordSame, discord, StaffShapes
      <3> QED
        BY <2>0, <2>3, <3>1 DEF VisitorOK, Current, DiscordSame, discord, Reading
    <2> QED
      BY <2>1, <2>2, <2>4, <2>5 DEF VisitorOK
  <1>3. \A u \in Visitors \ {v} : visitor'[u] = visitor[u]
    BY WhereToStep
  <1> QED
    BY <1>1, <1>2, <1>3, OthersInOrder

\* The step of an action that moves request v, and no other, keeps StaffInv.
LEMMA Enters ==
  ASSUME StaffInv, NEW v \in Visitors,
         NEW via \in {"dashboard", "command", "list"}, NEW wish \in Wishes, Enter(v, via, wish)
  PROVE  StaffInv'
  <1> DEFINE new == [Waiting0 EXCEPT !.at = IF via = "command" THEN "bot" ELSE "user", !.via = via, !.wish = wish,
                                     !.bits = IF via = "command" THEN BitsOf(bits, owns) ELSE {},
                                     !.active = clock, !.since = changes]
  <1>1. new \in VisitorType /\ new.at \in {"bot", "user"} /\ new.since = changes /\ new.owner = FALSE
        /\ (new.at = "bot" => new.bits = BitsOf(bits, owns))
    <2>1. BitsOf(bits, owns) \in SUBSET AllBits
      BY StaffAssumption DEF BitsOf, StaffInv, StaffShapes
    <2>2. clock \in 0 .. MaxClock /\ changes \in Nat
      BY StaffAssumption DEF StaffInv, StaffShapes
    <2> QED
      BY <2>1, <2>2, NobodyYet DEF VisitorType, Waiting0, Reading
  <1>2. visitor' = [visitor EXCEPT ![v] = new]
    BY DEF Enter
  <1> HIDE DEF new
  <1>3. visitor'[v] = new /\ \A u \in Visitors \ {v} : visitor'[u] = visitor[u]
    BY <1>2 DEF StaffInv, StaffShapes
  <1>4. StaffShapes'
    <2>1. PermissionsOf(bits, owns) \subseteq Wishes
      BY DEF PermissionsOf, Wishes
    <2>2. granted' \in [Visitors -> SUBSET Wishes] /\ withheld' \in [Visitors -> SUBSET Wishes]
          /\ taken' \subseteq Visitors
      BY <2>1 DEF Enter, StaffInv, StaffShapes
    <2>3. visitor' \in [Visitors -> VisitorType]
      BY <1>1, <1>2 DEF StaffInv, StaffShapes
    <2>4. \A u \in Visitors : visitor'[u].at \in Reading => visitor'[u].guild # "none" \/ visitor'[u].at = "bot"
      BY <1>1, <1>3 DEF StaffInv, StaffShapes, Reading
    <2> QED
      BY <2>2, <2>3, <2>4 DEF Enter, discord, StaffInv, StaffShapes
  <1>5. VisitorOK(v)'
    <2>1. /\ granted'[v] = PermissionsOf(bits, owns) /\ withheld'[v] = Wishes \ PermissionsOf(bits, owns)
          /\ bits' = bits /\ owns' = owns /\ changes' = changes /\ (known' => v \in taken')
      BY DEF Enter, discord, StaffInv, StaffShapes
    <2>2. Noted(v)' /\ Rightful(v)'
      BY <1>1, <1>3, <2>1 DEF Noted, Rightful
    <2>3. ReadInTime(v)'
      <3>1. PermissionsOf(BitsOf(bits, owns), FALSE) = PermissionsOf(bits, owns)
        BY ReportedBits DEF StaffInv, StaffShapes
      <3> QED
        BY <1>1, <1>3, <2>1, <3>1 DEF ReadInTime, RightsOfReading, Reading
    <2>4. Current(v)'
      BY <1>1, <1>3, <2>1, StaffAssumption DEF Current, Reading, StaffInv, StaffShapes
    <2> QED
      BY <2>2, <2>3, <2>4 DEF VisitorOK
  <1>6. ASSUME NEW u \in Visitors \ {v} PROVE VisitorOK(u)'
    <2>1. granted'[u] = granted[u] /\ withheld'[u] = withheld[u] /\ visitor'[u] = visitor[u]
          /\ (u \in taken' <=> u \in taken)
      BY <1>3 DEF Enter, StaffInv, StaffShapes
    <2>2. bits' = bits /\ owns' = owns /\ changes' = changes /\ known' = known
      BY DEF Enter, discord
    <2> QED
      BY <2>1, <2>2 DEF StaffInv, VisitorOK, Noted, ReadInTime, Current, Rightful, UnderWay, RightsOfReading
  <1> QED
    BY <1>4, <1>5, <1>6 DEF StaffInv, OfferStands, Enter, discord

LEMMA DiscordChanges == StaffInv /\ ChangeInDiscord => StaffInv'
  <1> SUFFICES ASSUME StaffInv, ChangeInDiscord PROVE StaffInv'
    OBVIOUS
  <1>1. PermissionsOf(bits', owns') \subseteq Wishes
    BY DEF PermissionsOf, Wishes
  <1>2. granted' \in [Visitors -> SUBSET Wishes] /\ withheld' \in [Visitors -> SUBSET Wishes]
    BY <1>1 DEF ChangeInDiscord, StaffInv, StaffShapes
  <1>3. changes' = changes + 1 /\ changes' \in 0 .. MaxChanges /\ visitor' = visitor
    BY StaffAssumption DEF ChangeInDiscord, StaffInv, StaffShapes
  <1>4. StaffShapes'
    <2>1. news' \in Seq(BOOLEAN)
      <3>1. news \in Seq(BOOLEAN) /\ owns' \in BOOLEAN
        BY DEF ChangeInDiscord, StaffInv, StaffShapes
      <3>2. Append(news, owns') \in Seq(BOOLEAN)
        BY <3>1, AppendProperties, Zenon
      <3> QED
        BY <3>1, <3>2, Zenon DEF ChangeInDiscord
    <2> QED
      BY <1>2, <1>3, <2>1 DEF ChangeInDiscord, StaffInv, StaffShapes
  <1>5. ASSUME NEW v \in Visitors PROVE VisitorOK(v)'
    <2>0. known' = known /\ taken' = taken
      BY DEF ChangeInDiscord
    <2>1. /\ granted[v] \subseteq granted'[v] /\ withheld[v] \subseteq withheld'[v]
          /\ UnderWay(v) => /\ PermissionsOf(bits', owns') \subseteq granted'[v]
                            /\ Wishes \ PermissionsOf(bits', owns') \subseteq withheld'[v]
      BY DEF ChangeInDiscord, StaffInv, StaffShapes, UnderWay, Under
    <2>2. Noted(v)' /\ Rightful(v)' /\ ReadInTime(v)'
      BY <1>3, <2>0, <2>1 DEF StaffInv, VisitorOK, Noted, Rightful, ReadInTime, RightsOfReading, UnderWay
    <2>3. visitor[v].since \in Nat /\ visitor[v].since <= changes /\ changes \in Nat
      BY DEF StaffInv, StaffShapes, VisitorType, VisitorOK, Current
    <2>4. Current(v)'
      BY <1>3, <2>3 DEF Current
    <2> QED
      BY <2>2, <2>4 DEF VisitorOK
  <1>6. OfferStands'
    <2>1. offeredAt' = offeredAt /\ offeredAt \in Int /\ changes \in Int
      BY DEF ChangeInDiscord, StaffInv, StaffShapes
    <2> QED
      BY <1>3, <2>1, StaffAssumption DEF StaffInv, OfferStands
  <1> QED
    BY <1>4, <1>5, <1>6 DEF StaffInv

\* The bot hears of the guild: requests under way while it takes the member for
\* the owner are on record.
LEMMA OwnerHeard == StaffInv /\ HearOfOwner => StaffInv'
  <1> SUFFICES ASSUME StaffInv, HearOfOwner PROVE StaffInv'
    OBVIOUS
  <1>1. StaffShapes'
    <2>1. known' \in BOOLEAN /\ news' \in Seq(BOOLEAN)
      <3>1. news \in Seq(BOOLEAN) /\ news # <<>> /\ owns \in BOOLEAN
        BY DEF HearOfOwner, StaffInv, StaffShapes
      <3>2. Head(news) \in BOOLEAN /\ Tail(news) \in Seq(BOOLEAN) /\ <<>> \in Seq(BOOLEAN)
        BY <3>1, HeadTailProperties, EmptySeq, Zenon
      <3> QED
        BY <3>1, <3>2, Zenon DEF HearOfOwner
    <2>2. taken' \subseteq Visitors
      BY DEF HearOfOwner, Under, StaffInv, StaffShapes
    <2> QED
      BY <2>1, <2>2 DEF HearOfOwner, StaffInv, StaffShapes
  <1>2. ASSUME NEW v \in Visitors PROVE VisitorOK(v)'
    <2>1. (v \in taken => v \in taken') /\ (UnderWay(v) /\ known' => v \in taken')
      BY DEF HearOfOwner, Under, UnderWay
    <2> QED
      BY <2>1 DEF HearOfOwner, StaffInv, VisitorOK, Noted, ReadInTime, Current, Rightful, UnderWay,
                  RightsOfReading
  <1> QED
    BY <1>1, <1>2 DEF HearOfOwner, StaffInv, OfferStands

\* What the steps of a request after Enter have in common.
LEMMA KeepsInv ==
  ASSUME StaffInv, DiscordSame, NEW v \in Visitors,
         visitor' \in [Visitors -> VisitorType],
         \A u \in Visitors \ {v} : visitor'[u] = visitor[u], VisitorOK(v)',
         visitor'[v].at \in Reading => visitor'[v].guild # "none" \/ visitor'[v].at = "bot",
         guildRow' \in {"none", "member", "other"}, staffRow' \in StaffType,
         offeredAt' = offeredAt
  PROVE  StaffInv'
  <1>1. StaffShapes'
    BY DEF StaffInv, StaffShapes, DiscordSame, discord
  <1>2. \A u \in Visitors \ {v} : VisitorOK(u)'
    BY OthersInOrder
  <1>3. OfferStands'
    BY DEF StaffInv, OfferStands, DiscordSame, discord
  <1> QED
    BY <1>1, <1>2, <1>3 DEF StaffInv

LEMMA MoveKeepsInv ==
  ASSUME StaffInv, DiscordSame, NEW v \in Visitors, UnderWay(v),
         NEW at \in {"user"} \cup Reading \cup Ends, ToStep(v, at),
         at \in Reading => visitor[v].at \in Reading \ {"bot"},
         at \notin {"served", "denied"},
         guildRow' \in {"none", "member", "other"}, staffRow' \in StaffType,
         offeredAt' = offeredAt
  PROVE  StaffInv'
  <1>1. /\ visitor' \in [Visitors -> VisitorType]
        /\ \A u \in Visitors : VisitorOK(u)'
    BY MoveInOrder DEF Reading, Ends
  <1>2. /\ \A u \in Visitors \ {v} : visitor'[u] = visitor[u]
        /\ visitor'[v].at = at
        /\ at \notin Ends => visitor'[v] = [visitor[v] EXCEPT !.at = at]
    BY WhereToStep DEF StaffInv
  <1>3. visitor'[v].at \in Reading => visitor'[v].guild # "none" \/ visitor'[v].at = "bot"
    <2> SUFFICES ASSUME at \in Reading PROVE visitor'[v].guild # "none"
      BY <1>2
    <2>1. visitor[v].guild # "none" /\ visitor[v] \in VisitorType
      BY DEF StaffInv, StaffShapes
    <2> QED
      BY <1>2, <2>1 DEF Reading, Ends, VisitorType
  <1> QED
    BY <1>1, <1>2, <1>3, KeepsInv

LEMMA StaffStepInv ==
  ASSUME StaffInv, NEW v \in Visitors,
         \/ ReadUserGuilds(v) \/ ReadBotGuild(v) \/ WriteGuild(v) \/ ReadStaff(v)
         \/ SaveStaff(v) \/ DecideAccess(v) \/ Fail(v)
  PROVE  StaffInv'
  <1>1. visitor[v] \in VisitorType /\ visitor \in [Visitors -> VisitorType] /\ VisitorOK(v)
    BY DEF StaffInv, StaffShapes
  <1>2. CASE Fail(v)
    BY <1>2, MoveKeepsInv DEF Fail, Under, UnderWay, Ends, Reading, StaffInv, StaffShapes
  <1>3. CASE ReadUserGuilds(v)
    <2>1. CASE visitor[v].via = "list"
      <3>1. PICK at \in {"listed", "unlisted"} : ToStep(v, at)
        BY <1>3, <2>1 DEF ReadUserGuilds
      <3>2. /\ visitor' \in [Visitors -> VisitorType]
            /\ \A u \in Visitors : VisitorOK(u)'
        BY <1>3, <3>1, MoveInOrder DEF ReadUserGuilds, UnderWay, Ends, Reading
      <3>3. StaffShapes'
        <4>1. visitor'[v].at = at /\ \A u \in Visitors \ {v} : visitor'[u] = visitor[u]
          BY <3>1, WhereToStep DEF StaffInv, Ends
        <4>2. offeredAt' \in 0 .. (MaxChanges + 1)
          BY <1>3, StaffAssumption DEF ReadUserGuilds, StaffInv, StaffShapes
        <4> QED
          BY <1>3, <3>2, <4>1, <4>2 DEF ReadUserGuilds, DiscordSame, discord, StaffInv, StaffShapes, Reading
      <3>4. OfferStands'
        BY <1>3, <2>1 DEF ReadUserGuilds, DiscordSame, discord, OfferStands, StaffInv, StaffShapes
      <3> QED
        BY <3>2, <3>3, <3>4 DEF StaffInv
    <2>2. CASE visitor[v].via # "list"
      <3> DEFINE new == [visitor[v] EXCEPT !.bits = BitsOf(bits, owns), !.owner = owns, !.at = "bot"]
      <3>1. visitor' = [visitor EXCEPT ![v] = new]
        BY <1>1, <1>3, <2>2 DEF ReadUserGuilds
      <3>2. BitsOf(bits, owns) \in SUBSET AllBits /\ owns \in BOOLEAN
        BY StaffAssumption DEF BitsOf, StaffInv, StaffShapes
      <3>3. new \in VisitorType /\ new.at = "bot" /\ new.bits = BitsOf(bits, owns) /\ new.owner = owns
            /\ new.since = visitor[v].since
        BY <1>1, <3>2 DEF VisitorType, Reading
      <3> HIDE DEF new
      <3>4. visitor' \in [Visitors -> VisitorType] /\ visitor'[v] = new
            /\ \A u \in Visitors \ {v} : visitor'[u] = visitor[u]
        BY <1>1, <3>1, <3>3
      <3>5. Noted(v)' /\ Noted(v) /\ UnderWay(v) /\ DiscordSame
        BY <1>1, <1>3 DEF ReadUserGuilds, Noted, UnderWay, Ends, DiscordSame, discord, VisitorOK
      <3>6. ReadInTime(v)'
        BY <3>2, <3>3, <3>4, <3>5, ReportedBits DEF ReadInTime, RightsOfReading, Noted, DiscordSame, discord
      <3>7. Current(v)' /\ Rightful(v)'
        BY <1>1, <3>3, <3>4, <3>5 DEF VisitorOK, Current, Rightful, DiscordSame, discord
      <3> QED
        BY <1>3, <2>2, <3>3, <3>4, <3>5, <3>6, <3>7, KeepsInv
           DEF ReadUserGuilds, VisitorOK, StaffInv, StaffShapes
    <2> QED
      BY <2>1, <2>2
  <1>4. CASE ReadBotGuild(v)
    <2>0. PICK o \in OwnerAnswers :
             visitor' = [visitor EXCEPT ![v].owner = @ \/ o, ![v].at = "guild",
                                        ![v].guild = IF o THEN "member" ELSE "other"]
      BY <1>4 DEF ReadBotGuild
    <2> DEFINE new == [visitor[v] EXCEPT !.owner = @ \/ o, !.at = "guild",
                                         !.guild = IF o THEN "member" ELSE "other"]
    <2>1. visitor' = [visitor EXCEPT ![v] = new]
      BY <1>1, <2>0
    <2>2. visitor[v].owner \in BOOLEAN /\ o \in BOOLEAN /\ owns \in BOOLEAN /\ (o = known \/ o = owns)
      BY <1>1, <2>0 DEF OwnerAnswers, StaffInv, StaffShapes, VisitorType
    <2>3. /\ new \in VisitorType /\ new.at = "guild" /\ new.bits = visitor[v].bits
          /\ new.owner = (visitor[v].owner \/ o) /\ new.since = visitor[v].since
          /\ new.guild # "none"
      BY <1>1, <2>2 DEF VisitorType, Reading
    <2> HIDE DEF new
    <2>4. visitor' \in [Visitors -> VisitorType] /\ visitor'[v] = new
          /\ \A u \in Visitors \ {v} : visitor'[u] = visitor[u]
      BY <1>1, <2>1, <2>3
    <2>5. Noted(v)' /\ Noted(v) /\ UnderWay(v) /\ DiscordSame /\ visitor[v].at = "bot"
      BY <1>1, <1>4 DEF ReadBotGuild, Noted, UnderWay, Ends, DiscordSame, discord, VisitorOK
    <2>6. ReadInTime(v)'
      <3>1. /\ RightsOfReading(v) \subseteq granted[v] \/ v \in taken
            /\ Wishes \ RightsOfReading(v) \subseteq withheld[v]
            /\ PermissionsOf(bits, owns) \subseteq granted[v] /\ (known => v \in taken)
        BY <1>1, <2>5 DEF VisitorOK, ReadInTime, Reading, Noted
      <3>2. RightsOfReading(v) \subseteq PermissionsOf(new.bits, new.owner)
        BY <2>2, <2>3, LaterOwner DEF RightsOfReading
      <3>3. PermissionsOf(new.bits, new.owner) \subseteq granted[v] \/ v \in taken
        <4>1. CASE o = owns
          <5>1. PermissionsOf(new.bits, new.owner) \subseteq RightsOfReading(v) \cup PermissionsOf(bits, owns)
            BY <2>2, <2>3, <4>1, LaterOwner DEF RightsOfReading
          <5> QED
            BY <3>1, <5>1
        <4>2. CASE ~o
          <5>1. new.owner = visitor[v].owner
            BY <2>2, <2>3, <4>2
          <5> QED
            BY <2>3, <3>1, <5>1 DEF RightsOfReading
        <4>3. CASE o /\ o = known
          BY <3>1, <4>3
        <4> QED
          BY <2>2, <4>1, <4>2, <4>3
      <3> QED
        BY <2>4, <2>5, <3>1, <3>2, <3>3 DEF ReadInTime, RightsOfReading, DiscordSame, discord
    <2>7. Current(v)' /\ Rightful(v)'
      BY <1>1, <2>2, <2>3, <2>4, <2>5 DEF VisitorOK, Current, Rightful, DiscordSame, discord, Reading
    <2> QED
      BY <1>4, <2>3, <2>4, <2>5, <2>6, <2>7, KeepsInv
         DEF ReadBotGuild, VisitorOK, StaffInv, StaffShapes
  <1>5. CASE WriteGuild(v)
    <2>1. /\ UnderWay(v) /\ visitor[v].at \in Reading \ {"bot"} /\ DiscordSame /\ offeredAt' = offeredAt
          /\ staffRow' = staffRow
      BY <1>5 DEF WriteGuild, UpsertGuild, UnderWay, Reading, Ends
    <2>2. \E at \in {"staff", "insertGuild", "saveGuild", "failed"} : ToStep(v, at)
      BY <1>5 DEF WriteGuild, UpsertGuild
    <2>3. guildRow' \in {"none", "member", "other"}
      BY <1>1, <1>5 DEF WriteGuild, UpsertGuild, StaffInv, StaffShapes, VisitorType
    <2> QED
      BY <2>1, <2>2, <2>3, MoveKeepsInv DEF Reading, Ends, StaffInv, StaffShapes
  <1>6. CASE ReadStaff(v)
    <2> DEFINE new == [visitor[v] EXCEPT !.staff = staffRow, !.at = "saveStaff",
                                         !.active = IF visitor[v].via = "command" THEN @ ELSE clock]
    <2>1. visitor' = [visitor EXCEPT ![v] = new]
      BY <1>1, <1>6 DEF ReadStaff
    <2>2. staffRow \in StaffType /\ clock \in 0 .. MaxClock
      BY DEF StaffInv, StaffShapes
    <2>3. /\ new \in VisitorType /\ new.at = "saveStaff" /\ new.bits = visitor[v].bits
          /\ new.owner = visitor[v].owner /\ new.since = visitor[v].since /\ new.guild = visitor[v].guild
      BY <1>1, <2>2 DEF VisitorType, Reading
    <2> HIDE DEF new
    <2>4. visitor' \in [Visitors -> VisitorType] /\ visitor'[v] = new
          /\ \A u \in Visitors \ {v} : visitor'[u] = visitor[u]
      BY <1>1, <2>1, <2>3
    <2>5. Noted(v)' /\ DiscordSame /\ visitor[v].at = "staff" /\ visitor[v].guild # "none"
      BY <1>1, <1>6 DEF ReadStaff, Noted, UnderWay, Ends, DiscordSame, discord, VisitorOK, StaffInv, StaffShapes, Reading
    <2>6. ReadInTime(v)' /\ Current(v)' /\ Rightful(v)'
      BY <1>1, <2>3, <2>4, <2>5
         DEF VisitorOK, ReadInTime, RightsOfReading, Current, Rightful, DiscordSame, discord, Reading
    <2> QED
      BY <1>6, <2>3, <2>4, <2>5, <2>6, KeepsInv
         DEF ReadStaff, VisitorOK, StaffInv, StaffShapes
  <1>7. CASE SaveStaff(v)
    <2>1. /\ UnderWay(v) /\ visitor[v].at \in Reading \ {"bot"} /\ DiscordSame /\ offeredAt' = offeredAt
          /\ guildRow' = guildRow
      BY <1>7 DEF SaveStaff, UnderWay, Reading, Ends
    <2>2. \E at \in {"decide", "failed"} : ToStep(v, at)
      BY <1>7 DEF SaveStaff
    <2>3. staffRow' \in StaffType
      <3>1. \A t \in {visitor[v].active, visitor[v].staff.active} : [bits |-> visitor[v].bits, active |-> t] \in StaffType
        BY <1>1 DEF VisitorType, StaffType
      <3> QED
        BY <1>7, <3>1 DEF SaveStaff, StaffInv, StaffShapes
    <2> QED
      BY <2>1, <2>2, <2>3, MoveKeepsInv DEF Reading, Ends, StaffInv, StaffShapes
  <1>8. CASE DecideAccess(v)
    <2>1. PICK at \in {"served", "denied"} :
             ToStep(v, at) /\ (at = "served" <=> visitor[v].wish \in RightsOfReading(v))
      BY <1>8 DEF DecideAccess
    <2>2. /\ visitor' \in [Visitors -> VisitorType]
          /\ visitor'[v].at = at /\ visitor'[v].wish = visitor[v].wish
          /\ visitor'[v].since \in {0, visitor[v].since}
          /\ \A u \in Visitors \ {v} : visitor'[u] = visitor[u]
      BY <2>1, WhereToStep DEF StaffInv, Ends
    <2>3. DiscordSame /\ visitor[v].wish \in Wishes /\ visitor[v].at = "decide"
      BY <1>1, <1>8 DEF DecideAccess, VisitorType
    <2>4. Rightful(v)'
      BY <1>1, <2>1, <2>2, <2>3 DEF VisitorOK, ReadInTime, Rightful, DiscordSame, discord, Reading
    <2>5. Noted(v)' /\ ReadInTime(v)' /\ Current(v)'
      BY <1>1, <2>2, <2>3 DEF VisitorOK, Noted, UnderWay, ReadInTime, Current, DiscordSame, discord, Reading, Ends, StaffInv, StaffShapes
    <2> QED
      BY <1>8, <2>2, <2>3, <2>4, <2>5, KeepsInv DEF DecideAccess, VisitorOK, StaffInv, StaffShapes, Reading
  <1> QED
    BY <1>2, <1>3, <1>4, <1>5, <1>6, <1>7, <1>8

LEMMA StaffNextInv == StaffInv /\ [StaffNext]_staffVars => StaffInv'
  <1> SUFFICES ASSUME StaffInv, [StaffNext]_staffVars PROVE StaffInv'
    OBVIOUS
  <1>1. CASE ChangeInDiscord
    BY <1>1, DiscordChanges
  <1>2. CASE TimePasses
    <2>1. StaffShapes'
      BY <1>2, StaffAssumption DEF TimePasses, discord, ghosts, StaffInv, StaffShapes
    <2> QED
      BY <1>2, <2>1 DEF TimePasses, discord, ghosts, StaffInv, OfferStands, VisitorOK, Noted, UnderWay, ReadInTime,
                        RightsOfReading, Current, Rightful
  <1>3. ASSUME NEW v \in Visitors, NEW via \in {"dashboard", "command", "list"}, NEW wish \in Wishes,
               Enter(v, via, wish)
        PROVE  StaffInv'
    BY <1>3, Enters
  <1>4. ASSUME NEW v \in Visitors,
               \/ ReadUserGuilds(v) \/ ReadBotGuild(v) \/ WriteGuild(v) \/ ReadStaff(v)
               \/ SaveStaff(v) \/ DecideAccess(v) \/ Fail(v)
        PROVE  StaffInv'
    BY <1>4, StaffStepInv
  <1>5. CASE UNCHANGED staffVars
    BY <1>5 DEF staffVars, discord, ghosts, StaffInv, StaffShapes, OfferStands, VisitorOK, Noted, UnderWay, ReadInTime,
                RightsOfReading, Current, Rightful
  <1>6. CASE HearOfOwner
    BY <1>6, OwnerHeard
  <1> QED
    BY <1>1, <1>2, <1>3, <1>4, <1>5, <1>6 DEF StaffNext

LEMMA StaffInvariant == StaffSpec => []StaffInv
  BY StaffInitInv, StaffNextInv, PTL DEF StaffSpec

\* What the handlers read, and what the ghosts say, has its shape.
THEOREM StaffTypeCorrect == StaffSpec => []StaffTypeOK
  <1>1. StaffInv => StaffTypeOK
    BY DEF StaffInv, StaffShapes, StaffTypeOK, VisitorType, StaffType, Reading
  <1> QED
    BY <1>1, StaffInvariant, PTL

\* Whoever is served was granted the wish by Discord at some time of the request,
\* or was taken for the owner by the bot's state at some time of it; whoever is
\* denied was refused the wish by Discord at some time of the request.
THEOREM RightsAreRead == StaffSpec => []RightsFromOwnReading
  <1>1. StaffInv => RightsFromOwnReading
    BY DEF StaffInv, VisitorOK, Rightful, RightsFromOwnReading
  <1> QED
    BY <1>1, StaffInvariant, PTL

\* A guild that the list offers opens to a request that saw no change since.
THEOREM OfferedOpens == StaffSpec => OfferedGuildOpens
  <1> DEFINE Opens == \A v \in Visitors :
          visitor[v].at = "decide" /\ visitor'[v].at = "denied" /\ visitor[v].wish \in Managing =>
              ~(offeredAt = changes /\ visitor[v].since = changes)
  <1>1. StaffInv /\ [StaffNext]_staffVars => [Opens]_staffVars
    <2> SUFFICES ASSUME StaffInv, StaffNext, NEW v \in Visitors,
                        visitor[v].at = "decide", visitor'[v].at = "denied", visitor[v].wish \in Managing,
                        offeredAt = changes, visitor[v].since = changes
                 PROVE  FALSE
      OBVIOUS
    <2>1. DecideAccess(v)
      <3>1. visitor[v] \in VisitorType /\ visitor \in [Visitors -> VisitorType]
        BY DEF StaffInv, StaffShapes
      <3>2. visitor'[v] # visitor[v]
        OBVIOUS
      <3>3. ASSUME NEW u \in Visitors,
                   \/ ReadUserGuilds(u) \/ ReadBotGuild(u) \/ WriteGuild(u) \/ ReadStaff(u)
                   \/ SaveStaff(u) \/ DecideAccess(u) \/ Fail(u)
                   \/ \E via \in {"dashboard", "command", "list"}, wish \in Wishes : Enter(u, via, wish)
            PROVE  \A w \in Visitors \ {u} : visitor'[w] = visitor[w]
        BY <3>3 DEF ReadUserGuilds, ReadBotGuild, WriteGuild, UpsertGuild, ReadStaff, SaveStaff,
                    DecideAccess, Fail, Enter, ToStep, StaffInv, StaffShapes
      <3>4. PICK u \in Visitors :
                   \/ ReadUserGuilds(u) \/ ReadBotGuild(u) \/ WriteGuild(u) \/ ReadStaff(u)
                   \/ SaveStaff(u) \/ DecideAccess(u) \/ Fail(u)
                   \/ \E via \in {"dashboard", "command", "list"}, wish \in Wishes : Enter(u, via, wish)
        BY <3>2 DEF StaffNext, ChangeInDiscord, HearOfOwner, TimePasses
      <3>5. u = v
        BY <3>2, <3>3, <3>4
      <3>6. ~Fail(v)
        BY <3>1 DEF Fail, ToStep, Ends, Waiting0
      <3> QED
        BY <3>4, <3>5, <3>6 DEF ReadUserGuilds, ReadBotGuild, WriteGuild, UpsertGuild, ReadStaff, SaveStaff, Enter
    <2>2. visitor[v].wish \notin RightsOfReading(v)
      BY <2>1 DEF DecideAccess, ToStep
    <2>3. visitor[v].bits = BitsOf(bits, owns) /\ visitor[v].owner \in BOOLEAN
      BY DEF StaffInv, StaffShapes, VisitorType, VisitorOK, Current, Reading
    <2>4. MayManage(bits, owns)
      BY ReportedBits DEF StaffInv, StaffShapes, OfferStands
    <2> QED
      <3>1. Managing \subseteq PermissionsOf(bits, owns)
        BY <2>4 DEF PermissionsOf
      <3>2. PermissionsOf(bits, owns) \subseteq RightsOfReading(v)
        <4>1. PermissionsOf(BitsOf(bits, owns), FALSE) = PermissionsOf(bits, owns)
          BY ReportedBits DEF StaffInv, StaffShapes
        <4>2. PermissionsOf(BitsOf(bits, owns), FALSE) \subseteq PermissionsOf(BitsOf(bits, owns), FALSE \/ visitor[v].owner)
          BY <2>3, LaterOwner
        <4> QED
          BY <2>3, <4>1, <4>2 DEF RightsOfReading
      <3> QED
        BY <2>2, <3>1, <3>2
  <1> QED
    BY <1>1, StaffInvariant, PTL DEF StaffSpec, OfferedGuildOpens
-----------------------------------------------------------------------------
(* Paging. *)
\* The items that come before item i in every order.
NewerThan(i) == {j \in ItemsThere : stamps[j] > stamps[i]}

WalkInv ==
    /\ stamps \in Seq(Nat)
    /\ askedLimit \in Limits /\ offset \in Nat
    /\ walk = "idle" => offset = 0
    /\ atStart \subseteq ItemsThere
    /\ \A i \in atStart : Tied(i) \/ i \in seen \/ (walk # "over" /\ Cardinality(NewerThan(i)) >= offset)

LEMMA NewerFinite ==
  ASSUME NEW q \in Seq(Nat), NEW S \in SUBSET DOMAIN q
  PROVE  IsFiniteSet(S) /\ Cardinality(S) \in Nat /\ Cardinality(DOMAIN q) = Len(q) /\ IsFiniteSet(DOMAIN q)
  <1>1. DOMAIN q = 1..Len(q) /\ Len(q) \in Nat /\ 1 \in Int /\ Len(q) \in Int
    OBVIOUS
  <1>2. IsFiniteSet(1..Len(q)) /\ Cardinality(1..Len(q)) = IF 1 > Len(q) THEN 0 ELSE Len(q) - 1 + 1
    BY <1>1, FS_Interval, Zenon
  <1> QED
    BY <1>1, <1>2, FS_Subset, FS_CardinalityType

\* An order of the items has each at one place.
LEMMA OrderFacts ==
  ASSUME stamps \in Seq(Nat), NEW order \in NewestFirst
  PROVE  /\ order \in [1..Len(stamps) -> ItemsThere] /\ Len(stamps) \in Nat
         /\ \A m, n \in 1..Len(stamps) : m # n => order[m] # order[n]
         /\ \A m, n \in 1..Len(stamps) : m < n => stamps[order[m]] >= stamps[order[n]]
         /\ \A i \in ItemsThere : \E m \in 1..Len(stamps) : order[m] = i
  <1>1. /\ Len(stamps) \in Nat /\ IsFiniteSet(ItemsThere) /\ Cardinality(ItemsThere) = Len(stamps)
        /\ ItemsThere = 1..Len(stamps)
    BY NewerFinite DEF ItemsThere
  <1>2. /\ order \in [1..Len(stamps) -> ItemsThere]
        /\ \A m, n \in 1..Len(stamps) : m # n => order[m] # order[n]
    BY <1>1 DEF NewestFirst, SetToSeqs
  <1>3. \A m, n \in 1..Len(stamps) : m < n => stamps[order[m]] >= stamps[order[n]]
    BY <1>2 DEF NewestFirst, InOrder
  <1>4. order \in Injection(ItemsThere, ItemsThere)
    BY <1>1, <1>2 DEF Injection, IsInjective
  <1>5. order \in Surjection(ItemsThere, ItemsThere)
    BY <1>1, <1>4, FS_Injection
  <1>6. \A i \in ItemsThere : \E m \in 1..Len(stamps) : order[m] = i
    BY <1>1, <1>5, Zenon DEF Surjection
  <1> QED
    BY <1>1, <1>2, <1>3, <1>6

\* An item that shares its stamp with no other stands behind the newer ones
\* and no others, in every order.
LEMMA PlaceIsRank ==
  ASSUME stamps \in Seq(Nat), NEW order \in NewestFirst, NEW i \in ItemsThere, ~Tied(i)
  PROVE  \E k \in 1..Len(stamps) : order[k] = i /\ Cardinality(NewerThan(i)) = k - 1
  <1>1. PICK k \in 1..Len(stamps) : order[k] = i
    BY OrderFacts
  <1>2. /\ order \in [1..Len(stamps) -> ItemsThere] /\ Len(stamps) \in Nat /\ k \in Nat \ {0}
        /\ \A m, n \in 1..Len(stamps) : m # n => order[m] # order[n]
        /\ \A m, n \in 1..Len(stamps) : m < n => stamps[order[m]] >= stamps[order[n]]
        /\ \A j \in ItemsThere : \E m \in 1..Len(stamps) : order[m] = j
        /\ \A j \in ItemsThere : stamps[j] \in Nat
    <2>1. Len(stamps) \in Nat /\ k \in Nat \ {0} /\ \A j \in ItemsThere : stamps[j] \in Nat
      BY <1>1 DEF ItemsThere
    <2> QED
      BY <2>1, OrderFacts
  <1>3. ASSUME NEW m \in 1..(k - 1) PROVE order[m] \in NewerThan(i)
    <2>1. m \in 1..Len(stamps) /\ m < k
      BY <1>1, <1>2
    <2>2. order[m] \in ItemsThere \ {i} /\ stamps[order[m]] >= stamps[i]
      BY <1>1, <1>2, <2>1
    <2>3. stamps[order[m]] # stamps[i]
      BY <2>2 DEF Tied
    <2>4. stamps[order[m]] \in Nat /\ stamps[i] \in Nat
      BY <1>2, <2>2
    <2>5. stamps[order[m]] > stamps[i]
      <3>1. \A a, b \in Nat : a >= b /\ a # b => a > b
        OBVIOUS
      <3> QED
        BY <2>2, <2>3, <2>4, <3>1
    <2> QED
      BY <2>2, <2>5 DEF NewerThan
  <1>4. ASSUME NEW j \in NewerThan(i) PROVE \E m \in 1..(k - 1) : order[m] = j
    <2>1. PICK m \in 1..Len(stamps) : order[m] = j
      BY <1>2 DEF NewerThan
    <2>2. stamps[j] > stamps[i] /\ stamps[j] \in Nat /\ stamps[i] \in Nat
      BY <1>2 DEF NewerThan
    <2>3. ~(k <= m)
      BY <1>1, <1>2, <2>1, <2>2
    <2> QED
      BY <1>2, <2>1, <2>3
  <1> DEFINE g == [m \in 1..(k - 1) |-> order[m]]
  <1>5. g \in Surjection(1..(k - 1), NewerThan(i))
    BY <1>3, <1>4 DEF Surjection
  <1>6. g \in Injection(1..(k - 1), NewerThan(i))
    <2>1. g \in [1..(k - 1) -> NewerThan(i)]
      BY <1>3
    <2>2. \A m, n \in 1..(k - 1) : g[m] = g[n] => m = n
      BY <1>1, <1>2
    <2> QED
      BY <2>1, <2>2 DEF Injection, IsInjective
  <1>7. IsFiniteSet(NewerThan(i))
    BY NewerFinite DEF NewerThan, ItemsThere
  <1>8. Cardinality(1..(k - 1)) = Cardinality(NewerThan(i))
    BY <1>5, <1>6, <1>7, FS_Injection
  <1>9. Cardinality(1..(k - 1)) = k - 1
    <2>1. 1 \in Int /\ k - 1 \in Int /\ k - 1 \in Nat
      BY <1>2
    <2>2. Cardinality(1..(k - 1)) = IF 1 > k - 1 THEN 0 ELSE (k - 1) - 1 + 1
      BY <2>1, FS_Interval, Zenon
    <2> QED
      BY <2>1, <2>2
  <1> QED
    BY <1>1, <1>8, <1>9

LEMMA PagingInitInv == ASSUME PagingInit PROVE WalkInv
  BY DEF PagingInit, WalkInv

\* A list that has grown has no fewer items before each, and no tie less.
LEMMA GrowthInv ==
  ASSUME WalkInv, NEW time \in Nat, stamps' = Append(stamps, time),
         UNCHANGED <<walk, askedLimit, offset, seen, atStart>>
  PROVE  WalkInv'
  <1>1. /\ stamps' \in Seq(Nat) /\ ItemsThere \subseteq ItemsThere'
        /\ \A i \in ItemsThere : stamps'[i] = stamps[i]
    BY DEF WalkInv, ItemsThere
  <1>2. ASSUME NEW i \in atStart PROVE (Tied(i) => Tied(i)') /\ NewerThan(i) \subseteq NewerThan(i)'
    BY <1>1 DEF Tied, NewerThan, WalkInv
  <1>3. ASSUME NEW i \in atStart PROVE Cardinality(NewerThan(i)) <= Cardinality(NewerThan(i)')
    <2>1. IsFiniteSet(NewerThan(i)')
      BY <1>1, NewerFinite DEF NewerThan, ItemsThere
    <2> QED
      BY <1>2, <2>1, FS_Subset
  <1>4. ASSUME NEW i \in atStart PROVE Cardinality(NewerThan(i)) \in Nat /\ Cardinality(NewerThan(i)') \in Nat
    <2>1. Cardinality(NewerThan(i)') \in Nat
      BY <1>1, NewerFinite DEF NewerThan, ItemsThere
    <2>2. Cardinality(NewerThan(i)) \in Nat
      BY NewerFinite DEF NewerThan, ItemsThere, WalkInv
    <2> QED
      BY <2>1, <2>2
  <1> QED
    BY <1>1, <1>2, <1>3, <1>4 DEF WalkInv

LEMMA PageInv == ASSUME WalkInv, ReadPage PROVE WalkInv'
  <1>1. PICK order \in NewestFirst :
            LET page == PageOf(order, UsedLimit(askedLimit)) IN
            /\ seen' = seen \cup page
            /\ walk' = IF page = {} THEN "over" ELSE "count"
            /\ offset' = IF page = {} THEN offset ELSE offset + ReportedLimit(askedLimit)
    BY DEF ReadPage
  <1>2. /\ stamps \in Seq(Nat) /\ offset \in Nat /\ atStart \subseteq ItemsThere
        /\ UNCHANGED <<feed, stamps, askedLimit, total, atStart>> /\ walk = "page"
    BY DEF WalkInv, ReadPage
  <1>3. PICK limit \in Nat \ {0} : limit = UsedLimit(askedLimit) /\ limit = ReportedLimit(askedLimit)
    BY PagingAssumption DEF WalkInv, UsedLimit, ReportedLimit
  <1>4. PICK page : /\ page = PageOf(order, limit) /\ seen' = seen \cup page
                    /\ walk' = IF page = {} THEN "over" ELSE "count"
                    /\ offset' = IF page = {} THEN offset ELSE offset + limit
    BY <1>1, <1>3
  <1>5. \A k \in 1..Len(stamps) : k > offset /\ k <= offset + limit => order[k] \in page
    <2>1. DOMAIN order = 1..Len(stamps)
      BY <1>2, OrderFacts
    <2> QED
      BY <1>4, <2>1 DEF PageOf
  <1>6. ASSUME NEW i \in atStart, ~Tied(i), i \notin seen
        PROVE  \/ i \in seen'
               \/ walk' # "over" /\ Cardinality(NewerThan(i)) >= offset'
    <2>1. PICK k \in 1..Len(stamps) : order[k] = i /\ Cardinality(NewerThan(i)) = k - 1
      BY <1>2, <1>6, PlaceIsRank
    <2>2. k - 1 >= offset /\ k \in Nat /\ Len(stamps) \in Nat
      BY <1>2, <1>6, <2>1 DEF WalkInv
    <2>3. CASE k <= offset + limit
      BY <1>2, <1>4, <1>5, <2>1, <2>2, <2>3
    <2>4. CASE k > offset + limit
      <3>1. offset + 1 \in 1..Len(stamps) /\ offset + 1 > offset /\ offset + 1 <= offset + limit
        BY <1>2, <2>2, <2>4
      <3>2. page # {}
        BY <1>5, <3>1
      <3> QED
        BY <1>2, <1>4, <2>1, <2>2, <2>4, <3>2
    <2> QED
      BY <1>2, <2>2, <2>3, <2>4
  <1>7. offset' \in Nat /\ walk' # "idle"
    BY <1>2, <1>4
  <1>8. \A i \in atStart : (Tied(i)' <=> Tied(i)) /\ NewerThan(i)' = NewerThan(i)
    BY <1>2 DEF Tied, NewerThan, ItemsThere
  <1>9. \A i \in atStart : Tied(i) \/ i \in seen' \/ (walk' # "over" /\ Cardinality(NewerThan(i)) >= offset')
    BY <1>4, <1>6
  <1> QED
    BY <1>2, <1>7, <1>8, <1>9 DEF WalkInv, ItemsThere

LEMMA PagingNextInv == ASSUME WalkInv, [PagingNext]_pagingVars PROVE WalkInv'
  <1>1. CASE UNCHANGED pagingVars
    BY <1>1 DEF WalkInv, pagingVars, Tied, NewerThan, ItemsThere
  <1>2. CASE AddCase
    <2>1. Len(stamps) + 1 \in Nat
      BY DEF WalkInv
    <2> QED
      BY <1>2, <2>1, GrowthInv DEF AddCase
  <1>3. CASE AddEntry
    <2>1. PICK time \in 1..MaxItems : stamps' = Append(stamps, time)
      BY <1>3 DEF AddEntry
    <2>2. time \in Nat
      BY <2>1, PagingAssumption
    <2> QED
      BY <1>3, <2>1, <2>2, GrowthInv DEF AddEntry
  <1>4. CASE BeginWalk
    <2>1. UNCHANGED <<stamps, askedLimit, offset, seen>> /\ walk' = "count" /\ atStart' = ItemsThere /\ offset = 0
      BY <1>4 DEF BeginWalk, WalkInv
    <2>2. \A i \in ItemsThere : Cardinality(NewerThan(i)') \in Nat
      BY <2>1, NewerFinite DEF NewerThan, ItemsThere, WalkInv
    <2> QED
      BY <2>1, <2>2 DEF WalkInv, ItemsThere
  <1>5. CASE CountItems
    BY <1>5 DEF CountItems, WalkInv, Tied, NewerThan, ItemsThere
  <1> QED
    BY <1>1, <1>2, <1>3, <1>4, <1>5, PageInv DEF PagingNext

\* A walk over the pages of a list that grows meanwhile misses nothing that was
\* there when it began, for lists of any length, any limits and any cap; the
\* limit that a response reports is what it went on by (pagination).
THEOREM WalksAreComplete == PagingSpec => []WalkMissesNothing
  <1>1. WalkInv => WalkMissesNothing
    BY DEF WalkInv, WalkMissesNothing
  <1> QED
    BY <1>1, PagingInitInv, PagingNextInv, PTL DEF PagingSpec
-----------------------------------------------------------------------------
(* CaseReads. *)
RowVals == Waiting \cup Ended \cup {"running", "absent"}
RowFun == [Positions -> RowVals]

ReadShapes ==
    /\ rows \in [Cases -> RowFun] /\ summary \in [Cases -> Statuses \cup {"none"}]
    /\ journal \in [Cases -> [Positions -> Nat]]
    /\ subject \in Cases /\ results \in Seq(ToSet(results))
    /\ read \in {"none"} \cup DOMAIN Queries
    /\ read = "none" => results = <<>>

\* A status and rows that go with it.
Fits(status, r) ==
    /\ status = "completed" => \A p \in Positions : r[p] \in Ended \cup {"absent"}
    /\ status = "failed" => \E p \in Positions : r[p] = "failed"

CaseStands(c) ==
    /\ Fits(summary[c], rows[c])
    /\ summary[c] = "none" => \A p \in Positions : rows[c][p] = "absent"
    /\ \A p \in Positions : rows[c][p] \in {"succeeded", "failed"} => journal[c][p] > 0

\* What the queries of a detail have returned, beside what is there now.
DetailOK ==
    /\ \A i \in 1..Len(results) : results[i].of = Detail[i]
    /\ Len(results) <= 4 /\ subject \in Created
    /\ Len(results) >= 1 => Fits(results[1].is, rows[subject])
    /\ Len(results) >= 2 =>
           /\ results[2].is \in RowFun /\ Fits(results[1].is, results[2].is)
           /\ \A p \in Positions : results[2].is[p] \in {"succeeded", "failed"} => journal[subject][p] > 0
    /\ Len(results) >= 3 =>
           /\ results[3].is \in [Positions -> Nat]
           /\ \A p \in Positions : /\ results[2].is[p] \in {"succeeded", "failed"} => results[3].is[p] > 0
                                   /\ results[3].is[p] <= journal[subject][p]
    /\ Len(results) >= 4 =>
           /\ results[4].is \in [Positions -> Nat]
           /\ \A p \in Positions : results[2].is[p] # "absent" => results[3].is[p] <= results[4].is[p]

\* A page between the count before it and a count after it.
PageFits(page, before, after) ==
    /\ Cardinality(page) \in 0..PageLimit
    /\ Cardinality(page) >= Lesser(before - PageOffset, PageLimit)
    /\ page # {} => Cardinality(page) + PageOffset <= after

\* Cases are numbered as they are created.
Numbered == Created = 1..CountCases

\* What the queries of a history have counted, up to what there is to count.
HistoryOK ==
    /\ \A i \in 1..Len(results) : results[i].of = History[i]
    /\ Len(results) <= 5
    /\ Len(results) >= 1 => results[1].is \in 0..CountCases
    /\ Len(results) >= 2 => PageFits(results[2].is, results[1].is, CountCases)
    /\ Len(results) >= 3 =>
           results[3].is \in results[1].is..CountCases /\ PageFits(results[2].is, results[1].is, results[3].is)
    /\ Len(results) >= 4 => Total(results[4].is) \in results[3].is..CountCases
    /\ Len(results) >= 5 => results[5].is \in Total(results[4].is)..CountCases

\* The failed rows of a snapshot are failed still.
OpsOK ==
    /\ \A i \in 1..Len(results) : results[i].of = Snapshot[i]
    /\ Len(results) <= 3
    /\ Len(results) >= 1 => results[1].is["failed"] \in 0..Cardinality(RowsIn({"failed"}))
    /\ Len(results) >= 3 => results[3].is \in Nat /\ results[3].is >= Lesser(results[1].is["failed"], MaxFailures)

ReadInv ==
    /\ ReadShapes /\ Numbered
    /\ \A c \in Cases : CaseStands(c)
    /\ read = "detail" => DetailOK
    /\ read = "history" => HistoryOK
    /\ read = "ops" => OpsOK
-----------------------------------------------------------------------------
LEMMA SummaryFits == ASSUME NEW r \in RowFun PROVE Summarise(r) \in Statuses /\ Fits(Summarise(r), r)
  <1>1. \A p \in Positions : r[p] \in RowVals
    BY DEF RowFun
  <1>2. Summarise(r) \in Statuses
    BY DEF Summarise, Statuses
  <1>3. ASSUME Summarise(r) = "completed", NEW p \in Positions PROVE r[p] \in Ended \cup {"absent"}
    BY <1>1, <1>3 DEF Summarise, RowVals
  <1>4. ASSUME Summarise(r) = "failed" PROVE \E p \in Positions : r[p] = "failed"
    BY <1>4 DEF Summarise
  <1> QED
    BY <1>2, <1>3, <1>4 DEF Fits

LEMMA Appended ==
  ASSUME NEW s, s \in Seq(ToSet(s)), NEW e
  PROVE  /\ Append(s, e) \in Seq(ToSet(Append(s, e))) /\ Len(Append(s, e)) = Len(s) + 1 /\ Len(s) \in Nat
         /\ Append(s, e)[Len(s) + 1] = e /\ \A i \in 1..Len(s) : Append(s, e)[i] = s[i]
  <1>1. s \in Seq(ToSet(s) \cup {e}) /\ e \in ToSet(s) \cup {e}
    BY DEF ToSet
  <1>2. /\ Append(s, e) \in Seq(ToSet(s) \cup {e}) /\ Len(Append(s, e)) = Len(s) + 1 /\ Len(s) \in Nat
        /\ Append(s, e)[Len(s) + 1] = e /\ \A i \in 1..Len(s) : Append(s, e)[i] = s[i]
    BY <1>1
  <1>3. PICK t : t = Append(s, e)
    OBVIOUS
  <1>4. t \in Seq(ToSet(t))
    <2>1. t \in Seq(ToSet(s) \cup {e}) /\ Len(t) \in Nat
      BY <1>2, <1>3
    <2>2. DOMAIN t = 1..Len(t) /\ t = [i \in 1..Len(t) |-> t[i]]
      BY <2>1
    <2>3. \A i \in 1..Len(t) : t[i] \in ToSet(t)
      BY <2>2 DEF ToSet
    <2>4. t \in [1..Len(t) -> ToSet(t)]
      BY <2>2, <2>3
    <2> QED
      BY <2>1, <2>4
  <1> QED
    BY <1>2, <1>3, <1>4

\* The counts are numbers, and their statuses divide the cases among them.
LEMMA CountsFinite ==
  ASSUME NEW S \in SUBSET AllRows
  PROVE  IsFiniteSet(S) /\ Cardinality(S) \in Nat
  <1>1. IsFiniteSet(AllRows)
    BY ReadsAssumption, FS_Product DEF AllRows
  <1> QED
    BY <1>1, FS_Subset, FS_CardinalityType

LEMMA CasesFinite ==
  ASSUME NEW S \in SUBSET Cases
  PROVE  IsFiniteSet(S) /\ Cardinality(S) \in Nat
  BY ReadsAssumption, FS_Subset, FS_CardinalityType

LEMMA CaseNumbers ==
  ASSUME NEW c \in Cases
  PROVE  c \in Nat /\ c >= 1 /\ 1..c \subseteq Cases
  <1>1. PICK n \in Nat : Cases = 1..n
    BY ReadsAssumption, FS_CardinalityType
  <1> QED
    BY <1>1

LEMMA DisjointCount ==
  ASSUME NEW S \in SUBSET Cases, NEW T \in SUBSET Cases, S \cap T = {}
  PROVE  Cardinality(S \cup T) = Cardinality(S) + Cardinality(T)
  <1>1. IsFiniteSet(S) /\ IsFiniteSet(T) /\ Cardinality(S) \in Nat /\ Cardinality(T) \in Nat
    BY CasesFinite
  <1>2. Cardinality(S \cup T) = Cardinality(S) + Cardinality(T) - Cardinality(S \cap T)
    BY <1>1, FS_Union
  <1>3. Cardinality(S \cap T) = 0
    BY FS_EmptySet
  <1> QED
    BY <1>1, <1>2, <1>3

LEMMA StatusesDivide ==
  ASSUME summary \in [Cases -> Statuses \cup {"none"}]
  PROVE  Total(ByStatus) = CountCases /\ CountCases \in Nat
  <1>1. PICK A \in SUBSET Cases : A = {c \in Created : summary[c] = "open"}
    BY DEF Created
  <1>2. PICK B \in SUBSET Cases : B = {c \in Created : summary[c] = "action_running"}
    BY DEF Created
  <1>3. PICK C \in SUBSET Cases : C = {c \in Created : summary[c] = "completed"}
    BY DEF Created
  <1>4. PICK D \in SUBSET Cases : D = {c \in Created : summary[c] = "failed"}
    BY DEF Created
  <1>5. Created = ((A \cup B) \cup C) \cup D
    BY <1>1, <1>2, <1>3, <1>4 DEF Created, Statuses
  <1>6. A \cap B = {} /\ (A \cup B) \cap C = {} /\ ((A \cup B) \cup C) \cap D = {}
    BY <1>1, <1>2, <1>3, <1>4
  <1>7. /\ Cardinality(A \cup B) = Cardinality(A) + Cardinality(B)
        /\ Cardinality((A \cup B) \cup C) = Cardinality(A \cup B) + Cardinality(C)
        /\ Cardinality(((A \cup B) \cup C) \cup D) = Cardinality((A \cup B) \cup C) + Cardinality(D)
    BY <1>6, DisjointCount
  <1>8. /\ ByStatus["open"] = Cardinality(A) /\ ByStatus["action_running"] = Cardinality(B)
        /\ ByStatus["completed"] = Cardinality(C) /\ ByStatus["failed"] = Cardinality(D)
    BY <1>1, <1>2, <1>3, <1>4 DEF ByStatus, Statuses
  <1>9. CountCases \in Nat
    BY CasesFinite DEF CountCases, Created
  <1> QED
    BY <1>5, <1>7, <1>8, <1>9 DEF Total, CountCases

\* A page of the list of cases holds what the limit and the offset leave of it.
LEMMA PageOfCases ==
  ASSUME Numbered, NEW k \in Nat, k = CountCases
  PROVE  ListCases \subseteq Created /\ \A before \in 0..k : PageFits(ListCases, before, k)
  <1>1. \A c \in 1..k : Cardinality(Newer(c)) = k - c
    <2> SUFFICES ASSUME NEW c \in 1..k PROVE Cardinality(Newer(c)) = k - c
      OBVIOUS
    <2>1. Newer(c) = (c + 1)..k
      BY DEF Newer, Numbered
    <2>2. Cardinality((c + 1)..k) = IF c + 1 > k THEN 0 ELSE k - (c + 1) + 1
      BY FS_Interval
    <2> QED
      BY <2>1, <2>2
  <1>2. ListCases = {c \in 1..k : k - c \in PageOffset..(PageOffset + PageLimit - 1)}
    <2>1. \A c \in 1..k : Cardinality(Newer(c)) \in PageOffset..(PageOffset + PageLimit - 1)
                              <=> k - c \in PageOffset..(PageOffset + PageLimit - 1)
      BY <1>1, Zenon
    <2> QED
      BY <2>1, Zenon DEF ListCases, Numbered
  <1>3. PICK hi \in Int, lo \in Int :
            /\ hi = k - PageOffset
            /\ lo = IF hi - PageLimit + 1 > 1 THEN hi - PageLimit + 1 ELSE 1
    <2>1. PICK hi \in Int : hi = k - PageOffset
      BY ReadsAssumption
    <2>2. (IF hi - PageLimit + 1 > 1 THEN hi - PageLimit + 1 ELSE 1) \in Int
      BY ReadsAssumption
    <2> QED
      BY <2>1, <2>2, Zenon
  <1>4. ListCases = lo..hi
    <2>1. \A c \in Int : c \in 1..k /\ k - c \in PageOffset..(PageOffset + PageLimit - 1) <=> c \in lo..hi
      BY <1>3, ReadsAssumption
    <2> QED
      BY <1>2, <2>1
  <1>5. Cardinality(ListCases) = IF lo > hi THEN 0 ELSE hi - lo + 1
    BY <1>4, FS_Interval
  <1>6. ListCases # {} => lo <= hi
    BY <1>4
  <1>7. PICK size \in Int : size = Cardinality(ListCases) /\ size = IF lo > hi THEN 0 ELSE hi - lo + 1
    BY <1>5
  <1>8. /\ size \in 0..PageLimit /\ \A before \in 0..k : size >= Lesser(before - PageOffset, PageLimit)
        /\ lo <= hi => size + PageOffset <= k
    BY <1>3, <1>7, ReadsAssumption DEF Lesser
  <1> QED
    BY <1>2, <1>6, <1>7, <1>8 DEF PageFits, Numbered

LEMMA ReadInitInv == ASSUME ReadsInit PROVE ReadInv
  <1>1. /\ rows = [c \in Cases |-> [p \in Positions |-> "absent"]] /\ summary = [c \in Cases |-> "none"]
        /\ journal = [c \in Cases |-> [p \in Positions |-> 0]] /\ read = "none" /\ subject \in Cases /\ results = <<>>
    BY DEF ReadsInit, Init
  <1>2. results \in Seq(ToSet(results))
    BY <1>1
  <1>3. rows \in [Cases -> RowFun] /\ journal \in [Cases -> [Positions -> Nat]]
    BY <1>1 DEF RowFun, RowVals
  <1>4. \A c \in Cases : CaseStands(c)
    BY <1>1 DEF CaseStands, Fits
  <1>5. Numbered
    <2>1. Created = {}
      BY <1>1 DEF Created
    <2>2. CountCases = 0
      BY <2>1, FS_EmptySet DEF CountCases
    <2> QED
      BY <2>1, <2>2 DEF Numbered
  <1> QED
    BY <1>1, <1>2, <1>3, <1>4, <1>5 DEF ReadInv, ReadShapes

\* A step of a case: its rows become r, its journal n.
RowStep(c, r, n) ==
    /\ rows' = [rows EXCEPT ![c] = r] /\ summary' = [summary EXCEPT ![c] = Summarise(r)]
    /\ journal' = [journal EXCEPT ![c] = n]
    /\ \A p \in Positions : n[p] >= journal[c][p]
    /\ \A p \in Positions : r[p] \in {"succeeded", "failed"} => n[p] > 0
    /\ c \in Created => \A p \in Positions : rows[c][p] \in Ended \cup {"absent"} => r[p] = rows[c][p]
    /\ \A p \in Positions : rows[c][p] = "failed" => r[p] = "failed"
    /\ \A d \in Cases : d < c => d \in Created
    /\ UNCHANGED <<read, subject, results>>

LEMMA RowStepInv ==
  ASSUME ReadInv, NEW c \in Cases, NEW r \in RowFun, NEW n \in [Positions -> Nat], RowStep(c, r, n)
  PROVE  ReadInv'
  <1>1. /\ rows'[c] = r /\ summary'[c] = Summarise(r) /\ journal'[c] = n
        /\ \A d \in Cases \ {c} : rows'[d] = rows[d] /\ summary'[d] = summary[d] /\ journal'[d] = journal[d]
    BY DEF RowStep, ReadInv, ReadShapes
  <1>2. Summarise(r) \in Statuses /\ Fits(Summarise(r), r)
    BY SummaryFits
  <1>3. ReadShapes'
    BY <1>2 DEF RowStep, ReadInv, ReadShapes
  <1>4. \A d \in Cases : CaseStands(d)'
    BY <1>1, <1>2 DEF CaseStands, RowStep, ReadInv, Statuses
  <1>5. ASSUME read = "detail" PROVE DetailOK'
    <2>1. DetailOK /\ results' = results /\ subject' = subject /\ subject \in Cases
      BY <1>5 DEF ReadInv, RowStep, ReadShapes
    <2>2. subject \in Created'
      <3>1. "none" \notin Statuses
        BY DEF Statuses
      <3> QED
        BY <1>1, <1>2, <2>1, <3>1 DEF DetailOK, Created
    <2>3. \A p \in Positions : rows[subject][p] \in Ended \cup {"absent"} => rows'[subject][p] = rows[subject][p]
      BY <1>1, <2>1 DEF DetailOK, RowStep
    <2>4. \A p \in Positions : /\ journal'[subject][p] >= journal[subject][p]
                               /\ journal[subject][p] \in Nat /\ journal'[subject][p] \in Nat
      BY <1>1, <1>3, <2>1 DEF RowStep, ReadInv, ReadShapes
    <2>5. Len(results) >= 1 => Fits(results[1].is, rows'[subject])
      BY <2>1, <2>3 DEF DetailOK, Fits, Ended
    <2>6. Len(results) >= 2 =>
            \A p \in Positions : results[2].is[p] \in {"succeeded", "failed"} => journal'[subject][p] > 0
      BY <2>1, <2>4 DEF DetailOK
    <2>7. Len(results) >= 3 => \A p \in Positions : results[3].is[p] <= journal'[subject][p]
      <3> SUFFICES ASSUME Len(results) >= 3, NEW p \in Positions PROVE results[3].is[p] <= journal'[subject][p]
        OBVIOUS
      <3>1. results[3].is[p] \in Nat /\ results[3].is[p] <= journal[subject][p]
        BY <2>1 DEF DetailOK
      <3> QED
        BY <2>4, <3>1
    <2> QED
      BY <2>1, <2>2, <2>5, <2>6, <2>7 DEF DetailOK
  <1>6. Created \subseteq Created' /\ CountCases \in Nat /\ CountCases' \in Nat /\ CountCases <= CountCases'
    <2>1. Created \subseteq Created'
      BY <1>1, <1>2 DEF Created, Statuses
    <2>2. Created \subseteq Cases /\ Created' \subseteq Cases
      BY DEF Created
    <2>3. PICK S \in SUBSET Cases, T \in SUBSET Cases : S = Created /\ T = Created'
      BY <2>2
    <2>4. Cardinality(S) <= Cardinality(T) /\ Cardinality(S) \in Nat /\ Cardinality(T) \in Nat
      BY <2>1, <2>3, CasesFinite, FS_Subset
    <2> QED
      BY <2>1, <2>3, <2>4 DEF CountCases
  <1>7. ASSUME read = "history" PROVE HistoryOK'
    <2>1. HistoryOK /\ results' = results
      BY <1>7 DEF ReadInv, RowStep
    <2>2. PICK k, m \in Nat : k = CountCases /\ m = CountCases' /\ k <= m
      BY <1>6
    <2>3. \A page, before : PageFits(page, before, k) => PageFits(page, before, m)
      BY <2>2, ReadsAssumption DEF PageFits
    <2>4. Len(results) >= 2 => PageFits(results[2].is, results[1].is, m)
      BY <2>1, <2>2, <2>3 DEF HistoryOK
    <2>5. Len(results) >= 3 =>
              results[3].is \in results[1].is..m /\ PageFits(results[2].is, results[1].is, results[3].is)
      BY <2>1, <2>2 DEF HistoryOK
    <2>6. /\ Len(results) >= 1 => results[1].is \in 0..m
          /\ Len(results) >= 4 => Total(results[4].is) \in results[3].is..m
          /\ Len(results) >= 5 => results[5].is \in Total(results[4].is)..m
      BY <2>1, <2>2 DEF HistoryOK
    <2> QED
      BY <2>1, <2>2, <2>4, <2>5, <2>6 DEF HistoryOK, PageFits
  <1>8. ASSUME read = "ops" PROVE OpsOK'
    <2>1. OpsOK /\ results' = results
      BY <1>8 DEF ReadInv, RowStep
    <2>2. PICK S \in SUBSET AllRows, T \in SUBSET AllRows : S = RowsIn({"failed"}) /\ T = RowsIn({"failed"})'
      BY DEF RowsIn, AllRows
    <2>3. S \subseteq T
      <3> SUFFICES ASSUME NEW x \in S PROVE x \in T
        OBVIOUS
      <3>1. x \in AllRows /\ rows[x[1]][x[2]] = "failed" /\ x[1] \in Cases /\ x[2] \in Positions
        BY <2>2 DEF RowsIn, StatusOf, AllRows
      <3>2. rows'[x[1]][x[2]] = "failed"
        BY <1>1, <3>1 DEF RowStep
      <3> QED
        BY <2>2, <3>1, <3>2 DEF RowsIn, StatusOf, AllRows
    <2>4. Cardinality(S) <= Cardinality(T) /\ Cardinality(S) \in Nat /\ Cardinality(T) \in Nat
      BY <2>3, CountsFinite, FS_Subset
    <2>5. Cardinality(RowsIn({"failed"})) = Cardinality(S) /\ Cardinality(RowsIn({"failed"}))' = Cardinality(T)
      BY <2>2
    <2> QED
      BY <2>1, <2>4, <2>5 DEF OpsOK
  <1>9. Numbered'
    <2>1. Created' = Created \cup {c}
      BY <1>1, <1>2 DEF Created, Statuses
    <2>2. PICK S \in SUBSET Cases, T \in SUBSET Cases, k \in Nat :
              /\ S = Created /\ T = Created' /\ k = Cardinality(S) /\ S = 1..k
      BY <1>6 DEF Created, CountCases, Numbered, ReadInv
    <2>3. CASE c \in S
      <3>1. Created' = Created
        BY <2>1, <2>2, <2>3
      <3> QED
        BY <2>2, <3>1 DEF Numbered, CountCases
    <2>4. CASE c \notin S
      <3>1. c \in Nat /\ c >= 1 /\ \A d \in 1..(c - 1) : d \in S
        <4>1. c \in Nat /\ c >= 1 /\ \A d \in 1..(c - 1) : d \in Cases /\ d < c
          BY CaseNumbers
        <4> QED
          BY <2>2, <4>1 DEF RowStep
      <3>2. c = k + 1
        <4>1. k \in Nat /\ c \in Nat /\ c >= 1 /\ c \notin 1..k
          BY <2>2, <2>4, <3>1, Zenon
        <4>2. \A d \in 1..(c - 1) : d \in 1..k
          BY <2>2, <3>1, Zenon
        <4> QED
          BY ONLY <4>1, <4>2
      <3>3. T = 1..(k + 1)
        <4>1. k \in Nat /\ T = 1..k \cup {k + 1}
          BY <2>1, <2>2, <3>2
        <4>2. 1..k \cup {k + 1} = 1..(k + 1)
          BY ONLY k \in Nat
        <4> QED
          BY <4>1, <4>2
      <3>4. Cardinality(T) = k + 1
        BY <3>3, FS_Interval
      <3> QED
        BY <2>2, <3>3, <3>4 DEF Numbered, CountCases
    <2> QED
      BY <2>3, <2>4
  <1> QED
    BY <1>3, <1>4, <1>5, <1>7, <1>8, <1>9 DEF ReadInv, RowStep

LEMMA AskInv == ASSUME ReadInv, Ask PROVE ReadInv'
  <1>1. /\ UNCHANGED <<rows, summary, journal, subject, results>> /\ results = <<>>
        /\ read' \in DOMAIN Queries /\ (read' = "detail" => subject \in Created) /\ "none" \notin DOMAIN Queries
    BY DEF Ask, ledgerVars, ReadInv, ReadShapes, Queries
  <1>2. ReadShapes' /\ Numbered' /\ \A c \in Cases : CaseStands(c)'
    BY <1>1 DEF ReadInv, ReadShapes, CaseStands, Numbered, Created, CountCases
  <1>3. Len(results) = 0
    BY <1>1
  <1>4. read' = "detail" => DetailOK'
    BY <1>1, <1>3 DEF DetailOK, Created
  <1>5. (read' = "history" => HistoryOK') /\ (read' = "ops" => OpsOK')
    BY <1>1, <1>3 DEF HistoryOK, OpsOK
  <1> QED
    BY <1>2, <1>4, <1>5 DEF ReadInv

\* The answers to a read's queries, as they are found again.
LEMMA AnswerFound ==
  ASSUME NEW list, Len(results) \in Nat, DOMAIN results = 1..Len(results),
         \A j \in 1..Len(results) : results[j].of = list[j],
         \A j, k \in 1..Len(results) : list[j] = list[k] => j = k,
         NEW i \in 1..Len(results)
  PROVE  Asked(list[i]) /\ Got(list[i]) = results[i].is
  <1>1. (CHOOSE j \in DOMAIN results : results[j].of = list[i]) = i
    OBVIOUS
  <1> QED
    BY <1>1 DEF Asked, Got

LEMMA DetailGot ==
  ASSUME DetailOK, NEW i \in 1..4, i <= Len(results), DOMAIN results = 1..Len(results), Len(results) \in Nat
  PROVE  Asked(Detail[i]) /\ Got(Detail[i]) = results[i].is
  <1>1. \A j, k \in 1..4 : Detail[j] = Detail[k] => j = k
    BY DEF Detail
  <1>2. i \in 1..Len(results) /\ 1..Len(results) \subseteq 1..4
    BY DEF DetailOK
  <1>3. \A j \in 1..Len(results) : results[j].of = Detail[j]
    BY DEF DetailOK
  <1> QED
    BY <1>1, <1>2, <1>3, AnswerFound

LEMMA QueryInv == ASSUME ReadInv, Query PROVE ReadInv'
  <1>1. /\ UNCHANGED <<rows, summary, journal, read, subject>> /\ read \in DOMAIN Queries
        /\ Len(results) < Len(Queries[read]) /\ results \in Seq(ToSet(results))
    BY DEF Query, ledgerVars, ReadInv, ReadShapes
  <1>2. PICK e : results' = Append(results, e)
                 /\ e.of = Queries[read][Len(results) + 1] /\ e.is = Answer(Queries[read][Len(results) + 1])
    BY DEF Query
  <1>3. PICK n \in Nat : /\ n = Len(results) /\ results' \in Seq(ToSet(results')) /\ Len(results') = n + 1
                         /\ results'[n + 1] = e /\ \A i \in 1..n : results'[i] = results[i]
    BY <1>1, <1>2, Appended
  <1>4. ReadShapes' /\ Numbered' /\ \A c \in Cases : CaseStands(c)'
    <2>1. read # "none"
      BY <1>1 DEF Query
    <2> QED
      BY <1>1, <1>3, <2>1 DEF ReadInv, ReadShapes, CaseStands, Numbered, Created, CountCases
  <1>5. ASSUME read = "detail" PROVE DetailOK'
    <2>1. /\ DetailOK /\ DOMAIN results = 1..n /\ n \in 0..3 /\ Queries[read] = Detail
          /\ e.of = Detail[n + 1] /\ e.is = Answer(Detail[n + 1])
      <3>1. Queries["detail"] = Detail /\ Len(Detail) = 4
        BY DEF Queries, Detail
      <3> QED
        BY <1>1, <1>2, <1>3, <1>5, <3>1 DEF ReadInv
    <2>2. CaseStands(subject) /\ rows[subject] \in RowFun /\ journal[subject] \in [Positions -> Nat]
      BY DEF ReadInv, ReadShapes
    <2>3. /\ \A i \in 1..(n + 1) : results'[i].of = Detail[i]
          /\ Len(results') <= 4 /\ subject' \in Created'
      <3>1. \A i \in 1..n : results'[i].of = Detail[i]
        BY <1>3, <2>1 DEF DetailOK
      <3>2. results'[n + 1].of = Detail[n + 1]
        BY <1>3, <2>1
      <3>3. \A i \in 1..(n + 1) : results'[i].of = Detail[i]
        BY <1>3, <3>1, <3>2
      <3>4. Len(results') <= 4
        BY <1>3, <2>1
      <3>5. subject' \in Created'
        BY <1>1, <2>1 DEF DetailOK, Created
      <3> QED
        BY <3>3, <3>4, <3>5
    <2>4. CASE n = 0
      <3>1. e.is = summary[subject]
        BY <2>1, <2>4 DEF Detail, Answer, GetCaseByIDOrNumber
      <3> QED
        BY <1>1, <1>3, <2>2, <2>3, <2>4, <3>1 DEF DetailOK, CaseStands
    <2>5. CASE n = 1
      <3>1. e.is = rows[subject]
        BY <2>1, <2>5 DEF Detail, Answer, ListCaseActionExecutions
      <3>2. results'[1] = results[1] /\ results'[2] = e
        BY <1>3, <2>5
      <3> QED
        BY <1>1, <1>3, <2>1, <2>2, <2>3, <2>5, <3>1, <3>2 DEF DetailOK, CaseStands
    <2>6. CASE n = 2
      <3>1. e.is = journal[subject]
        BY <2>1, <2>6 DEF Detail, Answer, ListCaseEvents
      <3>2. results'[1] = results[1] /\ results'[2] = results[2] /\ results'[3] = e
        BY <1>3, <2>6
      <3>3. \A p \in Positions : journal[subject][p] \in Nat
        BY <2>2
      <3> QED
        BY <1>1, <1>3, <2>1, <2>2, <2>3, <2>6, <3>1, <3>2, <3>3 DEF DetailOK
    <2>7. CASE n = 3
      <3>1. Asked("actions") /\ Got("actions") = results[2].is
        <4>1. Asked(Detail[2]) /\ Got(Detail[2]) = results[2].is
          BY <1>3, <2>1, <2>7, DetailGot
        <4> QED
          BY <4>1 DEF Detail
      <3>2. e.is = [p \in Positions |-> IF results[2].is[p] = "absent" THEN 0 ELSE journal[subject][p]]
        <4>1. Detail[4] = "attempts"
          BY DEF Detail
        <4>2. Answer("attempts") = ListCaseActionAttempts(results[2].is)
          BY <3>1 DEF Answer
        <4> QED
          BY <2>1, <2>7, <4>1, <4>2 DEF ListCaseActionAttempts
      <3>3. results'[1] = results[1] /\ results'[2] = results[2] /\ results'[3] = results[3] /\ results'[4] = e
        BY <1>3, <2>7
      <3>4. e.is \in [Positions -> Nat] /\ \A p \in Positions : results[2].is[p] # "absent" => e.is[p] = journal[subject][p]
        BY <2>2, <3>2
      <3> QED
        BY <1>1, <1>3, <2>1, <2>2, <2>3, <2>7, <3>3, <3>4 DEF DetailOK
    <2> QED
      BY <2>1, <2>4, <2>5, <2>6, <2>7
  <1>6. /\ n \in Nat /\ \A i \in 1..n : results'[i].of = results[i].of /\ results'[i].is = results[i].is
        /\ Len(results') = n + 1 /\ results'[n + 1] = e /\ \A i \in 1..(n + 1) : i \in 1..n \/ i = n + 1
    BY <1>3
  <1>7. ASSUME read = "history" PROVE HistoryOK'
    <2>1. /\ HistoryOK /\ n \in 0..4 /\ e.of = History[n + 1] /\ e.is = Answer(History[n + 1])
      <3>1. Queries["history"] = History /\ Len(History) = 5
        BY DEF Queries, History
      <3>2. Queries[read] = History /\ HistoryOK
        BY <1>7, <3>1 DEF ReadInv
      <3>3. n < 5
        BY <1>1, <1>3, <3>1, <3>2
      <3>4. e.of = History[n + 1] /\ e.is = Answer(History[n + 1])
        BY <1>2, <1>3, <3>2
      <3> QED
        BY <3>2, <3>3, <3>4
    <2>2. Total(ByStatus) = CountCases /\ CountCases \in Nat /\ Created' = Created /\ CountCases' = CountCases
      BY <1>1, StatusesDivide DEF ReadInv, ReadShapes, Created, CountCases
    <2>3. \A i \in 1..(n + 1) : results'[i].of = History[i]
      BY <1>3, <1>6, <2>1 DEF HistoryOK
    <2>4. /\ n = 0 => e.is = CountCases
          /\ n = 1 => e.is = ListCases
          /\ n = 2 => e.is = CountCases
          /\ n = 3 => e.is = ByStatus
          /\ n = 4 => e.is = CountCases
      BY <2>1 DEF History, Answer, ByTemplate
    <2>5. CASE n = 0
      <3>1. results'[1].is = CountCases
        BY <1>6, <2>4, <2>5
      <3>2. Len(results') = 1 /\ (\A i \in 1..1 : results'[i].of = History[i]) /\ CountCases \in 0..CountCases
        BY <1>6, <2>2, <2>3, <2>5
      <3> QED
        BY <2>2, <3>1, <3>2 DEF HistoryOK
    <2>6. CASE n = 1
      <3>1. results'[1].is = results[1].is /\ results'[2].is = ListCases
        BY <1>6, <2>4, <2>6
      <3>2. Len(results') = 2 /\ \A i \in 1..2 : results'[i].of = History[i]
        BY <1>6, <2>3, <2>6
      <3>3. results[1].is \in 0..CountCases
        BY <1>3, <2>1, <2>6 DEF HistoryOK
      <3>4. PageFits(results'[2].is, results'[1].is, CountCases)
        BY <2>2, <3>1, <3>3, PageOfCases DEF ReadInv
      <3> QED
        BY <2>2, <3>1, <3>2, <3>3, <3>4 DEF HistoryOK, PageFits
    <2>7. CASE n = 2
      <3>1. results'[1].is = results[1].is /\ results'[2].is = results[2].is /\ results'[3].is = CountCases
        BY <1>6, <2>4, <2>7
      <3>2. /\ results[1].is \in 0..CountCases /\ CountCases \in results[1].is..CountCases
            /\ PageFits(results[2].is, results[1].is, CountCases)
        BY <1>3, <2>1, <2>2, <2>7 DEF HistoryOK
      <3>3. Len(results') = 3 /\ \A i \in 1..3 : results'[i].of = History[i]
        BY <1>6, <2>3, <2>7
      <3> QED
        BY <2>2, <3>1, <3>2, <3>3 DEF HistoryOK, PageFits
    <2>8. CASE n = 3
      <3>1. /\ results'[1].is = results[1].is /\ results'[2].is = results[2].is
            /\ results'[3].is = results[3].is /\ results'[4].is = ByStatus
        BY <1>6, <2>4, <2>8
      <3> QED
        BY <1>3, <1>6, <2>1, <2>2, <2>3, <2>8, <3>1 DEF HistoryOK, PageFits
    <2>9. CASE n = 4
      <3>1. /\ results'[1].is = results[1].is /\ results'[2].is = results[2].is
            /\ results'[3].is = results[3].is /\ results'[4].is = results[4].is /\ results'[5].is = CountCases
        BY <1>6, <2>4, <2>9
      <3> QED
        BY <1>3, <1>6, <2>1, <2>2, <2>3, <2>9, <3>1 DEF HistoryOK, PageFits
    <2> QED
      BY <2>1, <2>5, <2>6, <2>7, <2>8, <2>9
  <1>8. ASSUME read = "ops" PROVE OpsOK'
    <2>1. /\ OpsOK /\ n \in 0..2 /\ e.of = Snapshot[n + 1] /\ e.is = Answer(Snapshot[n + 1])
      <3>1. Queries["ops"] = Snapshot /\ Len(Snapshot) = 3
        BY DEF Queries, Snapshot
      <3> QED
        BY <1>1, <1>2, <1>3, <1>8, <3>1 DEF ReadInv
    <2>2. PICK S \in SUBSET AllRows : S = RowsIn({"failed"}) /\ S = RowsIn({"failed"})'
      BY <1>1 DEF RowsIn, AllRows, StatusOf
    <2>3. PICK T \in SUBSET AllRows : T = Errored
      BY DEF Errored, RowsIn, AllRows
    <2>4. /\ Cardinality(S) \in Nat /\ Cardinality(T) \in Nat /\ Cardinality(S) <= Cardinality(T)
          /\ Cardinality(RowsIn({"failed"})) = Cardinality(S) /\ Cardinality(RowsIn({"failed"}))' = Cardinality(S)
      <3>1. S \subseteq T
        BY <2>2, <2>3 DEF Errored, RowsIn
      <3> QED
        BY <2>2, <3>1, CountsFinite, FS_Subset
    <2>5. \A i \in 1..(n + 1) : results'[i].of = Snapshot[i]
      BY <1>3, <1>6, <2>1 DEF OpsOK
    <2>6. CASE n = 0
      <3>1. e.is["failed"] = Cardinality(S)
        BY <2>1, <2>2, <2>6 DEF Snapshot, Answer, RowsByStatus, RowStatuses, Ended
      <3> QED
        BY <1>3, <1>6, <2>1, <2>4, <2>5, <2>6, <3>1 DEF OpsOK
    <2>7. CASE n = 1
      BY <1>3, <1>6, <2>1, <2>4, <2>5, <2>7 DEF OpsOK
    <2>8. CASE n = 2
      <3>1. e.is = Lesser(Cardinality(T), MaxFailures) /\ MaxFailures \in Nat
        BY <2>1, <2>3, <2>8, ReadsAssumption DEF Snapshot, Answer, RecentFailures
      <3>2. results'[1].is = results[1].is /\ results'[3].is = e.is
        BY <1>6, <2>8
      <3>3. results[1].is["failed"] \in Nat /\ results[1].is["failed"] <= Cardinality(S)
        BY <1>3, <2>1, <2>4, <2>8 DEF OpsOK
      <3>4. e.is \in Nat /\ e.is >= Lesser(results[1].is["failed"], MaxFailures)
        BY <2>4, <3>1, <3>3 DEF Lesser
      <3>5. Len(results') = 3 /\ \A i \in 1..Len(results') : results'[i].of = Snapshot[i]
        BY <1>3, <1>6, <2>5, <2>8
      <3>6. results'[1].is["failed"] \in 0..Cardinality(RowsIn({"failed"}))'
        BY <2>4, <3>2, <3>3
      <3>7. results'[3].is \in Nat /\ results'[3].is >= Lesser(results'[1].is["failed"], MaxFailures)
        BY <3>2, <3>4
      <3> QED
        BY <3>5, <3>6, <3>7 DEF OpsOK
    <2> QED
      BY <2>1, <2>6, <2>7, <2>8
  <1> QED
    BY <1>1, <1>4, <1>5, <1>7, <1>8 DEF ReadInv

\* A case with rows was created, and so were those before it.
LEMMA CreatedBelow ==
  ASSUME ReadInv, NEW c \in Cases, NEW p \in Positions, rows[c][p] # "absent"
  PROVE  \A d \in Cases : d < c => d \in Created
  <1>1. c \in Created
    BY DEF ReadInv, CaseStands, Created
  <1>2. Created = 1..CountCases /\ CountCases \in Nat
    BY CasesFinite DEF ReadInv, Numbered, CountCases, Created
  <1>3. PICK k \in Nat : Created = 1..k
    BY <1>2
  <1>4. c \in Nat /\ c <= k
    BY <1>1, <1>3
  <1> SUFFICES ASSUME NEW d \in Cases, d < c PROVE d \in Created
    OBVIOUS
  <1>5. d \in Nat /\ d >= 1
    BY CaseNumbers
  <1> QED
    BY <1>3, <1>4, <1>5

LEMMA CaseStepInv ==
  ASSUME ReadInv, NEW c \in Cases,
         OpenNext(c) \/ \E p \in Positions : EndRow(c, p) \/ WorkRow(c, p)
  PROVE  ReadInv'
  <1>1. rows[c] \in RowFun /\ journal[c] \in [Positions -> Nat] /\ CaseStands(c)
    BY DEF ReadInv, ReadShapes
  <1>2. CASE OpenNext(c)
    <2>1. PICK present \in SUBSET Positions :
              Rewrite(c, [p \in Positions |-> IF p \in present THEN "pending" ELSE "absent"])
      BY <1>2 DEF OpenNext, Open
    <2>2. PICK r \in RowFun : Rewrite(c, r) /\ \A p \in Positions : r[p] \in {"pending", "absent"}
      <3> DEFINE r == [p \in Positions |-> IF p \in present THEN "pending" ELSE "absent"]
      <3>1. r \in RowFun /\ \A p \in Positions : r[p] \in {"pending", "absent"}
        BY DEF RowFun, RowVals, Waiting
      <3> QED
        BY <2>1, <3>1
    <2>3. PICK n \in [Positions -> Nat] : n = journal[c]
      BY <1>1
    <2>4. journal' = [journal EXCEPT ![c] = n]
      BY <1>2, <2>3 DEF OpenNext, ReadInv, ReadShapes
    <2>5. c \notin Created /\ \A p \in Positions : rows[c][p] # "failed"
      BY <1>1, <1>2 DEF OpenNext, Open, Created, CaseStands
    <2>6. \A p \in Positions : n[p] \in Nat /\ n[p] >= journal[c][p]
      BY <2>3
    <2>7. RowStep(c, r, n)
      BY <1>2, <2>2, <2>4, <2>5, <2>6 DEF RowStep, Rewrite, OpenNext
    <2> QED
      BY <2>7, RowStepInv
  <1>3. ASSUME NEW p \in Positions, EndRow(c, p) PROVE ReadInv'
    <2>1. PICK s \in {"succeeded", "failed", "retrying"} : Rewrite(c, [rows[c] EXCEPT ![p] = s])
      BY <1>3 DEF EndRow, End
    <2>2. PICK r \in RowFun : Rewrite(c, r) /\ r[p] = s /\ \A q \in Positions \ {p} : r[q] = rows[c][q]
      <3> DEFINE r == [rows[c] EXCEPT ![p] = s]
      <3>1. r \in RowFun /\ r[p] = s /\ \A q \in Positions \ {p} : r[q] = rows[c][q]
        BY <1>1 DEF RowFun, RowVals, Waiting, Ended
      <3> QED
        BY <2>1, <3>1
    <2>3. PICK n \in [Positions -> Nat] : /\ journal' = [journal EXCEPT ![c] = n]
                                          /\ n[p] = journal[c][p] + 1
                                          /\ \A q \in Positions \ {p} : n[q] = journal[c][q]
      <3> DEFINE n == [journal[c] EXCEPT ![p] = @ + 1]
      <3>1. n \in [Positions -> Nat] /\ n[p] = journal[c][p] + 1 /\ \A q \in Positions \ {p} : n[q] = journal[c][q]
        BY <1>1
      <3>2. journal' = [journal EXCEPT ![c] = n]
        BY <1>3 DEF EndRow, ReadInv, ReadShapes
      <3> QED
        BY <3>1, <3>2
    <2>4. rows[c][p] = "running"
      BY <1>3 DEF EndRow, End
    <2>5. \A q \in Positions : n[q] >= journal[c][q] /\ journal[c][q] \in Nat /\ (q = p => n[q] > 0)
      BY <1>1, <2>3
    <2>6. \A q \in Positions : r[q] \in {"succeeded", "failed"} => n[q] > 0
      BY <1>1, <2>2, <2>3, <2>5 DEF CaseStands
    <2>7. \A q \in Positions : rows[c][q] \in Ended \cup {"absent"} => r[q] = rows[c][q]
      BY <2>2, <2>4 DEF Ended
    <2>8. \A q \in Positions : rows[c][q] = "failed" => r[q] = "failed"
      BY <2>7 DEF Ended
    <2>9. \A d \in Cases : d < c => d \in Created
      BY <1>1, <2>4, CreatedBelow
    <2>10. RowStep(c, r, n)
      BY <1>3, <2>2, <2>3, <2>5, <2>6, <2>7, <2>8, <2>9 DEF RowStep, Rewrite, EndRow
    <2> QED
      BY <2>10, RowStepInv
  <1>4. ASSUME NEW p \in Positions, WorkRow(c, p) PROVE ReadInv'
    <2>1. PICK r \in RowFun :
              /\ Rewrite(c, r)
              /\ \A q \in Positions : /\ rows[c][q] \in Ended \cup {"absent"} => r[q] = rows[c][q]
                                      /\ r[q] \in {"succeeded", "failed"} => r[q] = rows[c][q]
      <3>1. CASE Begin(c, p)
        <4> DEFINE r == [rows[c] EXCEPT ![p] = "running"]
        <4>1. r \in RowFun /\ r[p] = "running" /\ \A q \in Positions \ {p} : r[q] = rows[c][q]
          BY <1>1 DEF RowFun, RowVals
        <4>2. rows[c][p] \notin Ended \cup {"absent"} /\ Rewrite(c, r)
          BY <3>1 DEF Begin, Waiting, Ended
        <4> QED
          BY <4>1, <4>2
      <3>2. CASE Block(c, p)
        <4> DEFINE r == [q \in Positions |-> IF q > p /\ rows[c][q] \in Waiting THEN "skipped" ELSE rows[c][q]]
        <4>1. r \in RowFun
          BY <1>1 DEF RowFun, RowVals, Ended
        <4>2. \A q \in Positions : /\ rows[c][q] \in Ended \cup {"absent"} => r[q] = rows[c][q]
                                   /\ r[q] \in {"succeeded", "failed"} => r[q] = rows[c][q]
          BY DEF Waiting, Ended
        <4>3. Rewrite(c, r)
          BY <3>2 DEF Block
        <4> QED
          BY <4>1, <4>2, <4>3
      <3> QED
        BY <1>4, <3>1, <3>2 DEF WorkRow
    <2>2. PICK n \in [Positions -> Nat] : n = journal[c]
      BY <1>1
    <2>3. journal' = [journal EXCEPT ![c] = n]
      BY <1>4, <2>2 DEF WorkRow, ReadInv, ReadShapes
    <2>4. \A q \in Positions : n[q] \in Nat /\ n[q] >= journal[c][q]
      BY <2>2
    <2>5. \A q \in Positions : r[q] \in {"succeeded", "failed"} => n[q] > 0
      BY <1>1, <2>1, <2>2 DEF CaseStands
    <2>6. \A q \in Positions : rows[c][q] = "failed" => r[q] = "failed"
      BY <2>1 DEF Ended
    <2>7. \A d \in Cases : d < c => d \in Created
      <3>1. rows[c][p] # "absent"
        BY <1>4 DEF WorkRow, Begin, Block, Waiting
      <3> QED
        BY <1>1, <3>1, CreatedBelow
    <2>8. RowStep(c, r, n)
      BY <1>4, <2>1, <2>3, <2>4, <2>5, <2>6, <2>7 DEF RowStep, Rewrite, WorkRow
    <2> QED
      BY <2>8, RowStepInv
  <1> QED
    BY <1>2, <1>3, <1>4

LEMMA ReadNextInv == ASSUME ReadInv, [ReadsNext]_readsVars PROVE ReadInv'
  <1>1. CASE UNCHANGED readsVars
    <2>1. UNCHANGED <<rows, summary, journal, read, subject, results>>
      BY <1>1 DEF readsVars, ledgerVars
    <2>2. ReadShapes' /\ (\A c \in Cases : CaseStands(c)') /\ (read' = "detail" => DetailOK')
      BY <2>1 DEF ReadInv, ReadShapes, CaseStands, DetailOK, Created
    <2>3. Created' = Created /\ CountCases' = CountCases /\ RowsIn({"failed"})' = RowsIn({"failed"}) /\ Numbered'
      BY <2>1 DEF Created, CountCases, RowsIn, StatusOf, ReadInv, Numbered
    <2>4. Cardinality(RowsIn({"failed"}))' = Cardinality(RowsIn({"failed"}))
      BY <2>3
    <2>5. (read' = "history" => HistoryOK') /\ (read' = "ops" => OpsOK')
      BY <2>1, <2>3, <2>4 DEF ReadInv, HistoryOK, OpsOK, PageFits
    <2> QED
      BY <2>2, <2>3, <2>5 DEF ReadInv
  <1> QED
    BY <1>1, AskInv, QueryInv, CaseStepInv DEF ReadsNext

\* Under ReadInv the details add up.
LEMMA DetailWhole == ASSUME ReadInv PROVE DetailNotTorn
  <1> SUFFICES ASSUME Answered("detail") PROVE
        LET actions == CaseActionDetails(Got("actions"), Got("attempts")) IN
        /\ Got("case") = "completed" => \A p \in DOMAIN actions : actions[p].status \in Ended
        /\ Got("case") = "failed" => \E p \in DOMAIN actions : actions[p].status = "failed"
        /\ \A p \in DOMAIN actions :
              /\ actions[p].status \in {"succeeded", "failed"} => Got("events")[p] > 0
              /\ Got("events")[p] <= actions[p].attempts
    BY DEF DetailNotTorn
  <1>1. /\ DetailOK /\ Len(results) = 4 /\ results \in Seq(ToSet(results))
        /\ DOMAIN results = 1..Len(results)
    <2>1. Queries["detail"] = Detail /\ Len(Detail) = 4
      BY DEF Queries, Detail
    <2> QED
      BY <2>1 DEF Answered, ReadInv, ReadShapes
  <1>2. \A i \in 1..4 : Got(Detail[i]) = results[i].is
    BY <1>1, DetailGot
  <1>3. /\ Got("case") = results[1].is /\ Got("actions") = results[2].is
        /\ Got("events") = results[3].is /\ Got("attempts") = results[4].is
    BY <1>2 DEF Detail
  <1> DEFINE actions == CaseActionDetails(results[2].is, results[4].is)
  <1>4. DOMAIN actions = {p \in Positions : results[2].is[p] # "absent"}
    BY DEF CaseActionDetails
  <1>5. \A p \in DOMAIN actions : actions[p].status = results[2].is[p] /\ actions[p].attempts = results[4].is[p]
    BY DEF CaseActionDetails
  <1>6. results[1].is = "completed" => \A p \in DOMAIN actions : actions[p].status \in Ended
    BY <1>1, <1>4, <1>5 DEF DetailOK, Fits
  <1>7. results[1].is = "failed" => \E p \in DOMAIN actions : actions[p].status = "failed"
    <2>1. Fits(results[1].is, results[2].is)
      BY <1>1 DEF DetailOK
    <2> QED
      BY <2>1, <1>4, <1>5 DEF Fits
  <1>8. \A p \in DOMAIN actions : /\ actions[p].status \in {"succeeded", "failed"} => results[3].is[p] > 0
                                  /\ results[3].is[p] <= actions[p].attempts
    BY <1>1, <1>4, <1>5 DEF DetailOK
  <1> QED
    BY <1>3, <1>6, <1>7, <1>8

LEMMA HistoryWhole == ASSUME ReadInv PROVE HistoryAddsUp
  <1> SUFFICES ASSUME Answered("history") PROVE
        /\ Cardinality(Got("page")) <= PageLimit
        /\ Cardinality(Got("page")) >= Lesser(Got("listed") - PageOffset, PageLimit)
        /\ Got("page") # {} => Cardinality(Got("page")) + PageOffset <= Got("total")
        /\ Got("listed") <= Got("total")
        /\ Got("total") <= Total(Got("byStatus"))
        /\ Total(Got("byStatus")) <= Got("byTemplate")
    BY DEF HistoryAddsUp
  <1>1. /\ HistoryOK /\ Len(results) = 5 /\ DOMAIN results = 1..Len(results)
    <2>1. Queries["history"] = History /\ Len(History) = 5
      BY DEF Queries, History
    <2> QED
      BY <2>1 DEF Answered, ReadInv, ReadShapes
  <1>2. \A i \in 1..5 : Got(History[i]) = results[i].is
    <2>1. \A j, k \in 1..5 : History[j] = History[k] => j = k
      BY DEF History
    <2>2. \A j \in 1..Len(results) : results[j].of = History[j]
      BY <1>1 DEF HistoryOK
    <2>3. Len(results) \in Nat
      BY <1>1
    <2> QED
      BY <1>1, <2>1, <2>2, <2>3, AnswerFound
  <1>3. /\ Got("listed") = results[1].is /\ Got("page") = results[2].is /\ Got("total") = results[3].is
        /\ Got("byStatus") = results[4].is /\ Got("byTemplate") = results[5].is
    BY <1>2 DEF History
  <1>4. /\ PageFits(results[2].is, results[1].is, results[3].is) /\ results[1].is <= results[3].is
        /\ results[3].is <= Total(results[4].is) /\ Total(results[4].is) <= results[5].is
    BY <1>1 DEF HistoryOK
  <1> QED
    BY <1>3, <1>4, ReadsAssumption DEF PageFits

LEMMA SnapshotWhole == ASSUME ReadInv PROVE OpsShowsFailures
  <1> SUFFICES ASSUME Answered("ops") PROVE Got("errors") >= Lesser(Got("counts")["failed"], MaxFailures)
    BY DEF OpsShowsFailures
  <1>1. /\ OpsOK /\ Len(results) = 3 /\ DOMAIN results = 1..Len(results)
    <2>1. Queries["ops"] = Snapshot /\ Len(Snapshot) = 3
      BY DEF Queries, Snapshot
    <2> QED
      BY <2>1 DEF Answered, ReadInv, ReadShapes
  <1>2. \A i \in 1..3 : Got(Snapshot[i]) = results[i].is
    <2>1. \A j, k \in 1..3 : Snapshot[j] = Snapshot[k] => j = k
      BY DEF Snapshot
    <2>2. \A j \in 1..Len(results) : results[j].of = Snapshot[j]
      BY <1>1 DEF OpsOK
    <2>3. Len(results) \in Nat
      BY <1>1
    <2> QED
      BY <1>1, <2>1, <2>2, <2>3, AnswerFound
  <1>3. Got("counts") = results[1].is /\ Got("errors") = results[3].is
    BY <1>2 DEF Snapshot
  <1> QED
    BY <1>1, <1>3 DEF OpsOK

\* A read of several queries without a transaction never contradicts itself, for
\* any finite number of cases and actions and whatever the workers do between
\* the queries: a detail shows no status that the actions below it contradict,
\* no action that ended without its event and no event without its attempt
\* (CaseService.Get); a history's parts account for the totals above them
\* (UserHistory); /ops lists the errors it counts (OpsService.status).
THEOREM ReadsHoldTogether == ReadsSpec => []ReadsAgree
  <1>1. ReadInv => ReadsAgree
    BY DetailWhole, HistoryWhole, SnapshotWhole DEF ReadsAgree
  <1> QED
    BY <1>1, ReadInitInv, ReadNextInv, PTL DEF ReadsSpec
==============================================================================
