---------------------------- MODULE Interactions ----------------------------
(***************************************************************************)
(* A slash command on its way through the bot: the dispatcher              *)
(* (internal/discordbot/interactions/dispatcher.go) runs a handler, sends  *)
(* its first response, and only then starts the deferred task, which edits *)
(* that response; the handler is /case add (commands/case.go).  The        *)
(* gateway may deliver an interaction twice, any call to Discord or to the *)
(* store may fail, Discord and the store may carry a call out and answer   *)
(* it with an error, a task may panic and the process may end.             *)
(***************************************************************************)
EXTENDS Integers, FiniteSets

CONSTANTS
    Deliveries,     \* gateway events, each handled by a goroutine of its own
    Commands,       \* the interactions they carry
    MaxMishaps,     \* faults: bounds the model
    MaxEdits        \* changes of the template: bounds the model

VARIABLES
    task,           \* the goroutine of each delivery
    reply,          \* what the moderator sees of each interaction
    made,           \* cases committed, by interaction
    template,       \* the template the commands name
    mishaps, edits

chatVars == <<task, reply, made, template, mishaps, edits>>

\* What an interaction may show, by who wrote it.
Immediate == {"refused", "choices"}
Edited    == {"created", "sorry", "unfinished"}
Replies   == {"nothing", "thinking"} \union Immediate \union Edited

Kinds == {"add", "help", "autocomplete", "component", "unregistered"}

NotDelivered(d) == task[d].at = "waiting"

ChatInit ==
    /\ task = [d \in Deliveries |-> [at |-> "waiting"]]
    /\ reply = [c \in Commands |-> "nothing"]
    /\ made = [c \in Commands |-> 0]
    /\ template = "enabled"
    /\ mishaps = 0
    /\ edits = 0

Goto(d, at) == task' = [task EXCEPT ![d].at = at]

Mishap == mishaps < MaxMishaps /\ mishaps' = mishaps + 1

-----------------------------------------------------------------------------
(* The dispatcher's side.                                                  *)

\* Dispatcher.Handle: an interaction arrives; a second delivery carries
\* what the first one did.
Deliver(d, c, kind, allowed) ==
    /\ NotDelivered(d)
    /\ \A e \in Deliveries : ~NotDelivered(e) /\ task[e].of = c =>
           task[e].kind = kind /\ task[e].allowed = allowed
    /\ task' = [task EXCEPT ![d] =
           [at |-> "handle", of |-> c, kind |-> kind, allowed |-> allowed,
            first |-> "nothing", says |-> "nothing"]]
    /\ UNCHANGED <<reply, made, template, mishaps, edits>>

\* handleTemplateAutocomplete: no choices where a read fails.
\* HandleCaseInteraction: the options and permission bits Discord sent.
\* handleComponent, handleModal: nothing is registered.
FirstResponse(d) ==
    CASE task[d].kind = "autocomplete" -> "choices"
      [] task[d].kind = "add" /\ task[d].allowed -> "thinking"
      [] OTHER -> "refused"

\* handleCommand drops an unknown command; safeHandle answers a panic.
HandleInteraction(d) ==
    /\ task[d].at = "handle"
    /\ IF task[d].kind = "unregistered"
       THEN Goto(d, "done") /\ UNCHANGED mishaps
       ELSE \/ /\ task' = [task EXCEPT ![d].at = "respond",
                                       ![d].first = FirstResponse(d)]
               /\ UNCHANGED mishaps
            \/ /\ Mishap
               /\ task' = [task EXCEPT ![d].at = "respond",
                                       ![d].first = "refused"]
    /\ UNCHANGED <<reply, made, template, edits>>

\* execute after an accepted response: the task runs in a goroutine.
AfterResponse(d) == IF task[d].first = "thinking" THEN "resolve" ELSE "done"

\* The task started whatever the answer (a mutant).
RunsAnyway(d) == AfterResponse(d)

\* execute after a response that failed: nothing runs.
Rejected(d) == "done"

\* Client.InteractionRespond: Discord accepts one response per interaction.
Respond(d) ==
    /\ task[d].at = "respond"
    /\ \/ /\ reply[task[d].of] = "nothing"
          /\ reply' = [reply EXCEPT ![task[d].of] = task[d].first]
          /\ \/ Goto(d, AfterResponse(d)) /\ UNCHANGED mishaps
             \/ Goto(d, Rejected(d)) /\ Mishap
       \/ /\ reply[task[d].of] # "nothing"
          /\ Goto(d, Rejected(d))
          /\ UNCHANGED <<reply, mishaps>>
       \/ /\ Goto(d, Rejected(d))
          /\ Mishap
          /\ UNCHANGED reply
    /\ UNCHANGED <<made, template, edits>>

-----------------------------------------------------------------------------
(* The deferred task of /case add.                                         *)

\* The task's outcome, to be edited into the response.
Saying(d, text) == task' = [task EXCEPT ![d].at = "edit", ![d].says = text]

\* A store error of createCaseFromInteraction.
StoreFails(d) ==
    /\ task[d].at \in {"resolve", "lookup", "create"}
    /\ Mishap
    /\ Saying(d, "sorry")
    /\ UNCHANGED <<reply, made, template, edits>>

\* resolveInteractionGuildContext, then guildContext.Can on the same bits;
\* the bot may not be in the guild.
ResolveContext(d) ==
    /\ task[d].at = "resolve"
    /\ \/ task[d].allowed /\ Goto(d, "lookup")
       \/ Saying(d, "sorry")
    /\ UNCHANGED <<reply, made, template, mishaps, edits>>

\* resolveTemplate: a disabled template is refused here, one the list does
\* not have is left to Create.
ResolveTemplate(d) ==
    /\ task[d].at = "lookup"
    /\ IF template = "disabled" THEN Saying(d, "sorry") ELSE Goto(d, "create")
    /\ UNCHANGED <<reply, made, template, mishaps, edits>>

\* The error of Create dropped (a mutant).
AlwaysCreated == "created"

\* CaseService.Create reads the template again, under the guild lock.
CreateAnswer == IF template = "enabled" THEN "created" ELSE "sorry"

\* CaseService.Create; its COMMIT may be answered by an error.
CreateFromInteraction(d) ==
    /\ task[d].at = "create"
    /\ made' = [made EXCEPT ![task[d].of] =
           @ + IF template = "enabled" THEN 1 ELSE 0]
    /\ \/ Saying(d, CreateAnswer) /\ UNCHANGED mishaps
       \/ template = "enabled" /\ Saying(d, "sorry") /\ Mishap
    /\ UNCHANGED <<reply, template, edits>>

\* responder.EditOriginal of the outcome, and runTask on its error; the edit
\* may have been carried out.
EditOriginal(d) ==
    /\ task[d].at = "edit"
    /\ \/ /\ reply' = [reply EXCEPT ![task[d].of] = task[d].says]
          /\ \/ Goto(d, "done") /\ UNCHANGED mishaps
             \/ Goto(d, "report") /\ Mishap
       \/ /\ Goto(d, "report")
          /\ Mishap
          /\ UNCHANGED reply
    /\ UNCHANGED <<made, template, edits>>

\* runTask recovers a panic of the task, wherever it was.
TaskPanics(d) ==
    /\ task[d].at \in {"resolve", "lookup", "create", "edit"}
    /\ Mishap
    /\ Goto(d, "report")
    /\ UNCHANGED <<reply, made, template, edits>>

\* runTask: the last edit; its error is dropped.
ReportUnfinished(d) ==
    /\ task[d].at = "report"
    /\ \/ /\ reply' = [reply EXCEPT ![task[d].of] = "unfinished"]
          /\ UNCHANGED mishaps
       \/ Mishap /\ UNCHANGED reply
    /\ Goto(d, "done")
    /\ UNCHANGED <<made, template, edits>>

-----------------------------------------------------------------------------
\* Nothing waits for the tasks when the process ends.
ProcessEnds ==
    /\ Mishap
    /\ task' = [d \in Deliveries |->
           IF NotDelivered(d) THEN task[d] ELSE [task[d] EXCEPT !.at = "done"]]
    /\ UNCHANGED <<reply, made, template, edits>>

\* A manager disables, enables or archives the template meanwhile.
TemplateChanges ==
    /\ edits < MaxEdits
    /\ edits' = edits + 1
    /\ template # "archived"
    /\ template' \in {"enabled", "disabled", "archived"} \ {template}
    /\ UNCHANGED <<task, reply, made, mishaps>>

TaskStep(d) ==
    \/ HandleInteraction(d) \/ Respond(d) \/ ResolveContext(d)
    \/ ResolveTemplate(d) \/ CreateFromInteraction(d) \/ EditOriginal(d)
    \/ ReportUnfinished(d)

ChatNext ==
    \/ \E d \in Deliveries, c \in Commands, kind \in Kinds, ok \in BOOLEAN :
           Deliver(d, c, kind, ok)
    \/ \E d \in Deliveries : TaskStep(d) \/ StoreFails(d) \/ TaskPanics(d)
    \/ ProcessEnds
    \/ TemplateChanges

ChatSpec == ChatInit /\ [][ChatNext]_chatVars

-----------------------------------------------------------------------------
(* Properties.                                                             *)

\* A moderator is told the truth: "created" means the case exists, and
\* without a lost answer, a panic or an exit, any other last word on a
\* command means it does not.
RepliesTellOutcome ==
    \A c \in Commands :
        /\ reply[c] = "created" => made[c] > 0
        /\ reply[c] \in Immediate => made[c] = 0
        /\ reply[c] \in {"sorry", "unfinished"} /\ made[c] > 0 => mishaps > 0

\* An interaction Discord delivers twice, or whose first response it refused,
\* has one task at most and makes no second case: a case stands behind a
\* response that was shown, for a moderator the interaction's own permission
\* bits allow.
OneCasePerInteraction ==
    /\ \A d, e \in Deliveries :
           (/\ {task[d].at, task[e].at} \subseteq {"resolve", "lookup", "create", "edit", "report"}
            /\ task[d].of = task[e].of)  =>  d = e
    /\ \A c \in Commands :
           /\ made[c] <= 1
           /\ made[c] > 0 => reply[c] \notin {"nothing"} \union Immediate
=============================================================================
