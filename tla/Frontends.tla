----------------------------- MODULE Frontends -----------------------------
(***************************************************************************)
(* The components behind the dashboard and behind the Discord bot that     *)
(* share no state, side by side: a behaviour is one of a single component, *)
(* the others rest in one of their initial states.                         *)
(***************************************************************************)
EXTENDS Paging, CaseReads, AuthSessions, StaffContext, Templates, MemberRecord,
        CommandSync, Interactions

VARIABLE part  \* the component that moves

dashboardVars == <<pagingVars, readsVars, authVars, staffVars, templateVars, policy, ages>>
frontendVars == <<part, dashboardVars, syncVars, chatVars>>

Resting ==
    /\ part # "paging" => feed = "cases" /\ askedLimit = CHOOSE limit \in Limits : TRUE
    /\ part # "reads" => subject = CHOOSE k \in Cases : TRUE
    /\ part # "staff" => bits = {"manage_guild"} /\ owns = FALSE
    /\ part # "record" => policy = CHOOSE p \in Policies : TRUE

FrontendsInit ==
    /\ part \in {"paging", "reads", "auth", "staff", "templates", "record", "sync", "chat"}
    /\ Resting
    /\ PagingInit /\ ReadsInit /\ AuthInit /\ StaffInit /\ TemplatesInit /\ RecordInit
    /\ SyncInit /\ ChatInit

DashboardNext ==
    \/ /\ part = "paging" /\ PagingNext
       /\ UNCHANGED <<readsVars, authVars, staffVars, templateVars, policy, ages>>
    \/ /\ part = "reads" /\ ReadsNext
       /\ UNCHANGED <<pagingVars, authVars, staffVars, templateVars, policy, ages>>
    \/ /\ part = "auth" /\ AuthNext
       /\ UNCHANGED <<pagingVars, readsVars, staffVars, templateVars, policy, ages>>
    \/ /\ part = "staff" /\ StaffNext
       /\ UNCHANGED <<pagingVars, readsVars, authVars, templateVars, policy, ages>>
    \/ /\ part = "templates" /\ TemplatesNext
       /\ UNCHANGED <<pagingVars, readsVars, authVars, staffVars, policy, ages>>
    \/ /\ part = "record" /\ RecordNext
       /\ UNCHANGED <<pagingVars, readsVars, authVars, staffVars, templateVars>>

FrontendsNext ==
    /\ UNCHANGED part
    /\ \/ DashboardNext /\ UNCHANGED <<syncVars, chatVars>>
       \/ part = "sync" /\ SyncNext /\ UNCHANGED <<dashboardVars, chatVars>>
       \/ part = "chat" /\ ChatNext /\ UNCHANGED <<dashboardVars, syncVars>>

\* The types of the components' variables.
DashboardTypeOK == PagingTypeOK /\ AuthTypeOK /\ StaffTypeOK /\ TemplatesTypeOK

FrontendsSpec == FrontendsInit /\ [][FrontendsNext]_frontendVars
=============================================================================
