---------------------------- MODULE LegacyTickets ----------------------------
(***************************************************************************)
(* Support tickets of the Legacy bot (Legacy/storage/tickets.go,           *)
(* components/ticket-create.go, ticket-close.go).  A ticket is a private   *)
(* thread, a row in MySQL, an entry of the Redis hash active_tickets and a *)
(* Redis list of its messages.  Every press of a button and every message  *)
(* is handled in a goroutine of its own, nothing locks, and any call to    *)
(* Redis, MySQL or Discord may fail, or be carried out and answered by an  *)
(* error.                                                                  *)
(***************************************************************************)
EXTENDS Integers, FiniteSets

CONSTANTS
    Opens,        \* presses of "Open a ticket"; a ticket is named by its press
    Closes,       \* presses of "Close Ticket"
    Users,
    Messages,     \* messages sent in ticket threads
    MaxFailures   \* failing calls: bounds the model

VARIABLES
    settings,     \* the ticketsettings row: which channels are set
    rows,         \* the tickets table
    active,       \* active_tickets: the threads whose messages are kept
    lists,        \* the Redis list of messages, by ticket
    threads,      \* the Discord threads
    opening, closing, sending,   \* the goroutines
    seen,         \* what the first closing of a ticket read from its list
    collects,     \* closings that have read the list
    failures

ticketVars == <<settings, rows, active, lists, threads, opening, closing,
                sending, seen, collects, failures>>
store == <<settings, rows, active, lists, threads>>
ghosts == <<seen, collects>>

NoRow == [state |-> "none"]
Fresh == [at |-> "waiting"]

TicketInit ==
    /\ settings = {}
    /\ rows = [t \in Opens |-> NoRow]
    /\ active = {}
    /\ lists = [t \in Opens |-> {}]
    /\ threads = [t \in Opens |-> "none"]
    /\ opening = [t \in Opens |-> Fresh]
    /\ closing = [k \in Closes |-> Fresh]
    /\ sending = [m \in Messages |-> Fresh]
    /\ seen = [t \in Opens |-> {}]
    /\ collects = [t \in Opens |-> 0]
    /\ failures = 0

CallFails == failures < MaxFailures /\ failures' = failures + 1

-----------------------------------------------------------------------------
\* SetTicketChannel, SetTicketLogChannel: the row is made by whichever
\* command comes first, with the other channel empty.
SetChannel(channel) ==
    /\ channel \notin settings
    /\ settings' = settings \union {channel}
    /\ UNCHANGED <<rows, active, lists, threads, opening, closing, sending,
                   ghosts, failures>>

-----------------------------------------------------------------------------
(* handleTicketCreate.                                                     *)

OpenAt(t, at) == opening' = [opening EXCEPT ![t].at = at]

PressOpen(t, u) ==
    /\ opening[t].at = "waiting"
    /\ opening' = [opening EXCEPT ![t] = [at |-> "find", user |-> u]]
    /\ "channel" \in settings
    /\ UNCHANGED <<store, closing, sending, ghosts, failures>>

OpenTickets(u) == {t \in Opens : rows[t].state = "open" /\ rows[t].owner = u}

\* GetUsersTicket
FindUsersTicket(t) ==
    /\ opening[t].at = "find"
    /\ OpenAt(t, IF OpenTickets(opening[t].user) = {} THEN "thread" ELSE "done")
    /\ UNCHANGED <<store, closing, sending, ghosts, failures>>

\* The order of the writes: thread, active_tickets, tickets, welcome.
OpenOrder == [thread |-> "register", register |-> "insert", insert |-> "welcome"]

\* The call was carried out. Its handler goes on, or ends on an error.
OpenAnswered(t, step) ==
    \/ OpenAt(t, OpenOrder[step]) /\ UNCHANGED failures
    \/ OpenAt(t, "done") /\ CallFails

\* ThreadStartComplex, and the message of the log channel if there is one.
StartThread(t) ==
    /\ opening[t].at = "thread"
    /\ threads' = [threads EXCEPT ![t] = "silent"]
    /\ OpenAnswered(t, "thread")
    /\ UNCHANGED <<settings, rows, active, lists, closing, sending, ghosts>>

\* CreateTicket: HSET active_tickets.
RegisterThread(t) ==
    /\ opening[t].at = "register"
    /\ active' = active \union {t}
    /\ OpenAnswered(t, "register")
    /\ UNCHANGED <<settings, rows, lists, threads, closing, sending, ghosts>>

\* CreateTicket: INSERT INTO tickets.
InsertTicket(t) ==
    /\ opening[t].at = "insert"
    /\ rows' = [rows EXCEPT ![t] =
           [state |-> "open", owner |-> opening[t].user, content |-> {}]]
    /\ OpenAnswered(t, "insert")
    /\ UNCHANGED <<settings, active, lists, threads, closing, sending, ghosts>>

\* The welcome message carries the button that closes the ticket.
SendWelcome(t) ==
    /\ opening[t].at = "welcome"
    /\ threads' = [threads EXCEPT ![t] = "welcomed"]
    /\ OpenAt(t, "done")
    /\ UNCHANGED <<settings, rows, active, lists, closing, sending, ghosts,
                   failures>>

\* A failing call, or the nil message of a failing log channel, ends the
\* handler with what it has done so far.
OpenFails(t) ==
    /\ opening[t].at \notin {"waiting", "done"}
    /\ CallFails
    /\ OpenAt(t, "done")
    /\ UNCHANGED <<store, closing, sending, ghosts>>

-----------------------------------------------------------------------------
(* StoreTicketMessage, called by onMessageCreate.                          *)

\* HGET active_tickets: no entry, nothing to keep.
LookUpTicket(m, t) ==
    /\ sending[m].at = "waiting"
    /\ threads[t] \in {"silent", "welcomed"}
    /\ sending' = [sending EXCEPT ![m] =
           IF t \in active THEN [at |-> "push", ticket |-> t] ELSE [at |-> "done"]]
    /\ UNCHANGED <<store, opening, closing, ghosts, failures>>

\* RPUSH onto the ticket's list.
PushMessage(m) ==
    /\ sending[m].at = "push"
    /\ \/ /\ lists' = [lists EXCEPT ![sending[m].ticket] = @ \union {m}]
          /\ UNCHANGED failures
       \/ CallFails /\ UNCHANGED lists
    /\ sending' = [sending EXCEPT ![m].at = "done"]
    /\ UNCHANGED <<settings, rows, active, threads, opening, closing, ghosts>>

-----------------------------------------------------------------------------
(* handleTicketClose and CloseTicket.                                      *)

CloseAt(k, at) == closing' = [closing EXCEPT ![k].at = at]

\* The button, the settings and FindTicketByThreadID, whatever its state.
PressClose(k, t) ==
    /\ closing[k].at = "waiting"
    /\ threads[t] = "welcomed"
    /\ settings # {}
    /\ rows[t].state # "none"
    /\ closing' = [closing EXCEPT ![k] =
           [at |-> "collect", ticket |-> t, read |-> {}]]
    /\ UNCHANGED <<store, opening, sending, ghosts, failures>>

\* Redis emptied before the content is stored (a mutant).
DeleteFirst ==
    [collect |-> "unregister", unregister |-> "drop", drop |-> "content",
     content |-> "state", state |-> "delete", delete |-> "done"]

\* The order of CloseTicket and of what handleTicketClose does after it.
CloseOrder ==
    [collect |-> "content", content |-> "unregister", unregister |-> "drop",
     drop |-> "state", state |-> "delete", delete |-> "done"]

\* The call was carried out. Its handler goes on, or ends on an error.
CloseAnswered(k, step) ==
    \/ CloseAt(k, CloseOrder[step]) /\ UNCHANGED failures
    \/ CloseAt(k, "done") /\ CallFails

\* StoreAllTicketMessages: LRANGE.
CollectMessages(k) ==
    LET t == closing[k].ticket
    IN  /\ closing[k].at = "collect"
        /\ closing' = [closing EXCEPT ![k].at = CloseOrder["collect"],
                                      ![k].read = lists[t]]
        /\ seen' = IF collects[t] = 0 THEN [seen EXCEPT ![t] = lists[t]] ELSE seen
        /\ collects' = [collects EXCEPT ![t] = @ + 1]
        /\ UNCHANGED <<store, opening, sending, failures>>

\* StoreAllTicketMessages: UPDATE tickets SET content.
StoreContent(k) ==
    /\ closing[k].at = "content"
    /\ rows' = [rows EXCEPT ![closing[k].ticket].content = closing[k].read]
    /\ CloseAnswered(k, "content")
    /\ UNCHANGED <<settings, active, lists, threads, opening, sending, ghosts>>

\* HDEL active_tickets.
UnregisterThread(k) ==
    /\ closing[k].at = "unregister"
    /\ active' = active \ {closing[k].ticket}
    /\ CloseAnswered(k, "unregister")
    /\ UNCHANGED <<settings, rows, lists, threads, opening, sending, ghosts>>

\* DEL of the list.
DropMessages(k) ==
    /\ closing[k].at = "drop"
    /\ lists' = [lists EXCEPT ![closing[k].ticket] = {}]
    /\ CloseAnswered(k, "drop")
    /\ UNCHANGED <<settings, rows, active, threads, opening, sending, ghosts>>

\* UPDATE tickets SET state = 1.
MarkClosed(k) ==
    /\ closing[k].at = "state"
    /\ rows' = [rows EXCEPT ![closing[k].ticket].state = "closed"]
    /\ CloseAnswered(k, "state")
    /\ UNCHANGED <<settings, active, lists, threads, opening, sending, ghosts>>

\* The transcripts are sent, their errors logged, and the thread deleted.
DeleteThread(k) ==
    /\ closing[k].at = "delete"
    /\ threads' = [threads EXCEPT ![closing[k].ticket] = "deleted"]
    /\ CloseAt(k, CloseOrder["delete"])
    /\ UNCHANGED <<settings, rows, active, lists, opening, sending, ghosts,
                   failures>>

CloseFails(k) ==
    /\ closing[k].at \notin {"waiting", "done"}
    /\ CallFails
    /\ CloseAt(k, "done")
    /\ UNCHANGED <<store, opening, sending, ghosts>>

TicketNext ==
    \/ \E channel \in {"channel", "log"} : SetChannel(channel)
    \/ \E t \in Opens, u \in Users : PressOpen(t, u)
    \/ \E t \in Opens :
           \/ FindUsersTicket(t) \/ StartThread(t) \/ RegisterThread(t)
           \/ InsertTicket(t) \/ SendWelcome(t) \/ OpenFails(t)
    \/ \E m \in Messages, t \in Opens : LookUpTicket(m, t)
    \/ \E m \in Messages : PushMessage(m)
    \/ \E k \in Closes, t \in Opens : PressClose(k, t)
    \/ \E k \in Closes :
           \/ CollectMessages(k) \/ StoreContent(k) \/ UnregisterThread(k)
           \/ DropMessages(k) \/ MarkClosed(k) \/ DeleteThread(k)
           \/ CloseFails(k)

TicketSpec == TicketInit /\ [][TicketNext]_ticketVars

-----------------------------------------------------------------------------
(* Properties.                                                             *)

\* Rows, threads and lists agree: a row has a thread, messages are kept for
\* threads that were opened, and a thread goes after its ticket is closed.
TicketTypeOK ==
    /\ settings \subseteq {"channel", "log"}
    /\ \A t \in Opens :
           /\ rows[t] # NoRow => threads[t] # "none"
           /\ t \in active \/ lists[t] # {} => threads[t] # "none"
           /\ threads[t] = "deleted" => rows[t].state = "closed"

\* Closing a ticket is five calls after its messages were read, and any of them
\* may be the last. Until a closing has read them the ticket's thread is
\* registered, so that what members write there is kept. As long as one closing
\* alone has read them, what it read is in the list or in the row, and it is in
\* the row once the thread is not registered any more. It says no more because
\* the code does no more: a second closing, of two presses or after a failure,
\* reads the emptied list and writes that over the row; a closing that fails
\* after HDEL leaves the ticket open and its thread unregistered; and messages
\* that come between the reading of the list and its deletion are lost.
OneClosingKeepsMessages ==
    \A t \in Opens :
        /\ rows[t] # NoRow /\ collects[t] = 0 => t \in active
        /\ collects[t] = 1 =>
              /\ seen[t] \subseteq lists[t] \union rows[t].content
              /\ t \notin active => seen[t] \subseteq rows[t].content

\* The two, as one run checks them.
TicketsSound == TicketTypeOK /\ OneClosingKeepsMessages

\* "make sure the user does not already have a ticket".
OneOpenTicket == \A u \in Users : Cardinality(OpenTickets(u)) <= 1

=============================================================================
