---------------------------- MODULE MemberRecord ----------------------------
(***************************************************************************)
(* The record of one member under one template: cases are created, one     *)
(* after the other as the guild lock orders them, and grow old. What       *)
(* selectTemplateLevel picks for the next case is a function of both.      *)
(***************************************************************************)
EXTENDS Escalation

CONSTANTS Policies,  \* policies that normalizeLevels accepts
          Windows,   \* windows of their levels, and 0 for none
          Oldest,    \* every window has passed at this age
          MaxCases   \* bound on the cases of a record

ASSUME RecordAssumption ==
    /\ \A p \in Policies : Accepted(p) /\ Stored(p)
    /\ 0 \in Windows /\ \A w \in Windows : w < Oldest
    /\ MaxCases \in Nat

VARIABLES policy,  \* the template's levels
          ages     \* how many cases are of each age

Ages == 0 .. Oldest

SumTo(f, n) == LET sum[i \in 0 .. n] == IF i = 0 THEN f[0] ELSE f[i] + sum[i - 1] IN sum[n]

\* CountTemplateCasesForTarget since now less the window, and the case under way.
Since(w) == IF w = 0 THEN Oldest ELSE w
MatchingCases == [w \in Windows |-> SumTo(ages, Since(w)) + 1]

Selected == Select(policy, MatchingCases)

RecordInit ==
    /\ policy \in Policies
    /\ ages = [a \in Ages |-> 0]

\* CaseService.create: no level, no case.
CreateForMember ==
    /\ SumTo(ages, Oldest) < MaxCases
    /\ Selected # 0
    /\ ages' = [ages EXCEPT ![0] = @ + 1]
    /\ UNCHANGED policy

RecordAges ==
    /\ ages[Oldest] < SumTo(ages, Oldest)
    /\ ages' = [a \in Ages |->
                   CASE a = 0 -> 0
                     [] a \in 1 .. Oldest - 1 -> ages[a - 1]
                     [] a = Oldest -> ages[a] + ages[a - 1]]
    /\ UNCHANGED policy

RecordNext == CreateForMember \/ RecordAges

RecordSpec == RecordInit /\ [][RecordNext]_<<policy, ages>>
-----------------------------------------------------------------------------
(* Properties                                                              *)

\* The scan of selectTemplateLevel picks the level that its comment and
\* docs/modules/case-pipeline.md describe, whatever the order of the levels.
SelectsDocumentedLevel == Selected = DocumentedLevel(policy, MatchingCases)

\* A template that was accepted can be applied to the member. Validation counts
\* a disabled default level too, so this fails where only that is the default.
AcceptedTemplatesApply == Selected # 0
=============================================================================
