------------------------------ MODULE MCLegacy ------------------------------
(***************************************************************************)
(* The parts of the legacy bot that share no state, side by side: a        *)
(* behaviour is one of a single component, the others rest where they      *)
(* began. Two components are looked at twice, each time with a part of     *)
(* their steps: appeals with the commands that ban and lift bans, every    *)
(* command with another one; events with one /log command, two /log        *)
(* commands without events.                                                *)
(***************************************************************************)
EXTENDS LegacyTickets, LegacyBans, LegacyEvents, MessageCache, LegacyHoneypot

CONSTANTS Pair,   \* jobs in a behaviour where every command is used
          Editor  \* the /log command that runs beside events

VARIABLE part  \* the component that moves

legacyVars == <<part, ticketVars, banVars, eventVars, cacheVars, potVars>>

Appealing == BanNext /\ \A j \in DOMAIN job' : job'[j].kind \notin {"Kick", "TimeoutAdd", "Warn", "CasesAdd"}
Punishing == BanNext /\ Len(job') <= Pair
Reporting == EventNext /\ \A a \in Admins \ {Editor} : UNCHANGED admin[a]
Configuring == EventNext /\ arriving' = {}

LegacyInit ==
    /\ part \in {"tickets", "appeals", "punishments", "events", "logs", "cache", "honeypots"}
    /\ TicketInit /\ BanInit /\ EventInit /\ CacheInit /\ PotInit

LegacyNext ==
    /\ UNCHANGED part
    /\ \/ /\ part = "tickets" /\ TicketNext
          /\ UNCHANGED <<banVars, eventVars, cacheVars, potVars>>
       \/ /\ part = "appeals" /\ Appealing
          /\ UNCHANGED <<ticketVars, eventVars, cacheVars, potVars>>
       \/ /\ part = "punishments" /\ Punishing
          /\ UNCHANGED <<ticketVars, eventVars, cacheVars, potVars>>
       \/ /\ part = "events" /\ Reporting
          /\ UNCHANGED <<ticketVars, banVars, cacheVars, potVars>>
       \/ /\ part = "logs" /\ Configuring
          /\ UNCHANGED <<ticketVars, banVars, cacheVars, potVars>>
       \/ /\ part = "cache" /\ CacheNext
          /\ UNCHANGED <<ticketVars, banVars, eventVars, potVars>>
       \/ /\ part = "honeypots" /\ PotNext
          /\ UNCHANGED <<ticketVars, banVars, eventVars, cacheVars>>

\* LegacyEvents' fairness, where its goroutines run.
InPart(A) == part = "events" /\ A /\ UNCHANGED <<part, ticketVars, banVars, cacheVars, potVars>>

PartFairness ==
    /\ \A w \in LogWorkers : WF_legacyVars(InPart(Take(w) \/ Leave(w)))
    /\ \A e \in Reports : WF_legacyVars(InPart(Arrive(e))) /\ WF_legacyVars(InPart(Wake(e)))

LegacySpec == LegacyInit /\ [][LegacyNext]_legacyVars /\ PartFairness
=============================================================================
