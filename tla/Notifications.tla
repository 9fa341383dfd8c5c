--------------------------- MODULE Notifications ---------------------------
(***************************************************************************)
(* Actionable desktop notifications: the daemon's loop, bindings and       *)
(* handlers (src/runtime/daemon.rs, src/application/notifications.rs), its *)
(* D-Bus listener (src/adapters/notifications_zbus.rs) and, external, the  *)
(* notification server and the user in front of it.                        *)
(*                                                                         *)
(* The server emits ActionInvoked and NotificationClosed on two streams;   *)
(* the listener merges them into a bounded channel; the loop handles one   *)
(* event at a time and waits for the server inside the handlers.  What an  *)
(* action then does to processes is the business of ProcessControl.        *)
(***************************************************************************)
EXTENDS Integers, Sequences, FiniteSetsExt

CONSTANTS
    Subjects,    \* processes, trees and groups notified about
    Groups,      \* those that are stale workload groups
    Ids,         \* notification ids of one server session (bound)
    Batches,     \* notifications one monitor report may ask for (bound)
    Capacities,  \* what MAX_NOTIFICATION_BINDINGS may be
    ChannelSize, \* capacity of the event channel
    MaxClicks, MaxFailures, MaxRestarts \* bounds on the environment

ASSUME NotificationsAssumption ==
    /\ Groups \subseteq Subjects /\ Subjects # {}
    /\ Ids \subseteq Nat \ {0}
    /\ Batches \subseteq Seq(Subjects)
    /\ Capacities \subseteq Nat \ {0} /\ ChannelSize \in Nat \ {0}
    /\ MaxClicks \in Nat /\ MaxFailures \in Nat /\ MaxRestarts \in Nat

VARIABLES
    \* the server and its user
    resident,  \* the server keeps a notification after a click (persistence)
    shown,     \* on the screen: id -> content
    used,      \* ids given out in this session of the server
    session,   \* how often the server was restarted
    clicks, failures, \* counters for the bounds
    \* the listener
    listening, \* its task runs
    actions, closures, \* the two signal streams
    channel,   \* events on their way to the loop
    \* the loop
    notifier,  \* Some(sink)
    bindings,  \* NotificationBindings: [capacity, known, order]
    phase,     \* what the loop waits for; "idle" in select!
    batch,     \* notifications the running monitor report still has to send
    call,      \* the Notify call under way
    reply,     \* its answer
    work,      \* the event and the binding of the action being performed
    acted      \* history: notifications an action was performed for

serverVars == <<resident, shown, used, session, clicks, failures>>
listenerVars == <<listening, actions, closures, channel>>
loopVars == <<notifier, bindings, phase, batch, call, reply, work, acted>>
vars == <<serverVars, listenerVars, loopVars>>

Views == {"summary", "details"}
(* "stop" stands for "ignore_hour" and "always_ignore" as well: offered    *)
(* and permitted together, they differ in what they do at the end.         *)
Keys == {"stop", "stop_group", "details", "back"}
Phases == {"idle", "report", "notify", "reply", "close", "act"}
Pressure == "pressure"  \* the subject of a pressure notification

Content == [subject : Subjects \cup {Pressure}, view : Views]

(* About and session record what the user clicked on; the code does not    *)
(* see them.  So does a binding's session.  A binding comes with its id.   *)
ActionEvent == [type : {"action"}, id : Ids, key : Keys, about : Content,
                session : 0..MaxRestarts]
ClosedEvent == [type : {"closed"}, id : Ids]
FailedEvent == [type |-> "failed"]
Binding == [id : Ids, content : Content, session : 0..MaxRestarts]
Call == [content : Content, replaces : {0} \cup Ids]
NoCall == [content |-> [subject |-> Pressure, view |-> "summary"], replaces |-> 0]
Reply == [id : {0} \cup Ids, session : 0..MaxRestarts]
NoReply == [id |-> 0, session |-> 0]
NoWork == <<>>

NotificationsTypeOK ==
    /\ resident \in BOOLEAN
    /\ DOMAIN shown \subseteq used /\ used \subseteq Ids
    /\ \A id \in DOMAIN shown : shown[id] \in Content
    /\ session \in 0..MaxRestarts
    /\ clicks \in 0..MaxClicks /\ failures \in 0..MaxFailures
    /\ listening \in BOOLEAN /\ notifier \in BOOLEAN
    /\ actions \in Seq(ActionEvent) /\ closures \in Seq(ClosedEvent)
    /\ channel \in Seq(ActionEvent \cup ClosedEvent \cup {FailedEvent})
    /\ Len(channel) <= ChannelSize
    /\ bindings.capacity \in Capacities
    /\ \A id \in DOMAIN bindings.known :
         bindings.known[id] \in Binding /\ bindings.known[id].id = id
    /\ bindings.order \in Seq(Ids)
    /\ phase \in Phases
    /\ batch \in Seq(Subjects)
    /\ call \in Call /\ reply \in Reply
    /\ work = NoWork \/ work \in [event : ActionEvent, binding : Binding]
    /\ acted \subseteq (0..MaxRestarts) \X Ids

(* NotificationBindings::new, and what clear leaves.                       *)
Empty(capacity) == [capacity |-> capacity, known |-> <<>>, order |-> <<>>]

NotificationsInit ==
    /\ resident \in BOOLEAN
    /\ shown = <<>> /\ used = {} /\ session = 0 /\ clicks = 0 /\ failures = 0
    /\ notifier \in BOOLEAN /\ listening = notifier
    /\ actions = <<>> /\ closures = <<>> /\ channel = <<>>
    /\ \E capacity \in Capacities : bindings = Empty(capacity)
    /\ phase = "idle" /\ batch = <<>>
    /\ call = NoCall /\ reply = NoReply
    /\ work = NoWork /\ acted = {}

-----------------------------------------------------------------------------
(* The server and the user (external)                                      *)

(* The buttons a request asks for: NotificationRequest's action sets.      *)
Buttons(content) ==
    IF content.subject = Pressure THEN {}
    ELSE IF content.subject \in Groups
    THEN IF content.view = "summary" THEN {"details"} ELSE {"stop_group", "back"}
    ELSE IF content.view = "summary"
    THEN {"stop", "details"}
    ELSE {"back"}

Without(id) == [i \in DOMAIN shown \ {id} |-> shown[i]]
With(id, content) == [i \in DOMAIN shown \cup {id} |-> IF i = id THEN content ELSE shown[i]]

(* Signals reach a listener or nobody.                                     *)
Emit(stream, event) == IF listening THEN Append(stream, event) ELSE stream
Closed(id) == [type |-> "closed", id |-> id]

(* The user presses a button.  A server that does not keep the             *)
(* notification closes it.                                                 *)
Click(id, key) ==
    /\ clicks < MaxClicks
    /\ id \in DOMAIN shown /\ key \in Buttons(shown[id])
    /\ clicks' = clicks + 1
    /\ actions' = Emit(actions, [type |-> "action", id |-> id, key |-> key,
                                 about |-> shown[id], session |-> session])
    /\ IF resident
       THEN UNCHANGED <<shown, closures>>
       ELSE shown' = Without(id) /\ closures' = Emit(closures, Closed(id))
    /\ UNCHANGED <<resident, used, session, failures, listening, channel, loopVars>>

(* It expires or is dismissed.                                             *)
Dismiss(id) ==
    /\ id \in DOMAIN shown
    /\ shown' = Without(id)
    /\ closures' = Emit(closures, Closed(id))
    /\ UNCHANGED <<resident, used, session, clicks, failures, listening, actions, channel,
                   loopVars>>

(* The server is restarted: a new process that counts ids from the start.  *)
(* The bus connection and its subscriptions stay.                          *)
Restart ==
    /\ session < MaxRestarts
    /\ session' = session + 1
    /\ shown' = <<>> /\ used' = {}
    /\ UNCHANGED <<resident, clicks, failures, listenerVars, loopVars>>

(* Notify: the notification to replace keeps its id, if the server has it  *)
(* or takes the id as given; anything else gets the next id.               *)
Serve ==
    /\ phase = "notify"
    /\ \E id \in Ids :
         /\ id = call.replaces \/ (id \notin used /\ \A i \in Ids \ used : id <= i)
         /\ call.replaces \in DOMAIN shown => id = call.replaces
         /\ shown' = With(id, call.content)
         /\ used' = used \cup {id}
         /\ reply' = [id |-> id, session |-> session]
    /\ phase' = "reply"
    /\ UNCHANGED <<resident, session, clicks, failures, listenerVars,
                   notifier, bindings, batch, call, work, acted>>

-----------------------------------------------------------------------------
(* The listener: forward_events.  A full channel blocks it.                *)

AlwaysRoomBug == TRUE
HasRoom == Len(channel) < ChannelSize

Forward ==
    /\ listening /\ HasRoom
    /\ \/ /\ actions # <<>>
          /\ channel' = Append(channel, Head(actions))
          /\ actions' = Tail(actions) /\ UNCHANGED closures
       \/ /\ closures # <<>>
          /\ channel' = Append(channel, Head(closures))
          /\ closures' = Tail(closures) /\ UNCHANGED actions
    /\ UNCHANGED <<serverVars, listening, loopVars>>

(* A stream ends: the listener reports it and returns.                     *)
StreamFails ==
    /\ listening /\ HasRoom
    /\ failures < MaxFailures
    /\ failures' = failures + 1
    /\ channel' = Append(channel, FailedEvent)
    /\ listening' = FALSE /\ actions' = <<>> /\ closures' = <<>>
    /\ UNCHANGED <<resident, shown, used, session, clicks, loopVars>>

-----------------------------------------------------------------------------
(* NotificationBindings                                                    *)

(* A map of bindings and, beside it, the order in which they go.           *)
Bound(id) == id \in DOMAIN bindings.known
BindingOf(id) == bindings.known[id]

(* retain, of an order that has every id once.                             *)
Position(order, id) == CHOOSE k \in DOMAIN order : order[k] = id
Retained(order, id) ==
    IF \E k \in DOMAIN order : order[k] = id
    THEN [n \in 1..(Len(order) - 1) |->
             order[IF n < Position(order, id) THEN n ELSE n + 1]]
    ELSE order

(* remove: only of an id that is bound is the order looked through.        *)
Removed(from, id) ==
    IF id \in DOMAIN from.known
    THEN [from EXCEPT !.known = [i \in DOMAIN from.known \ {id} |-> from.known[i]],
                      !.order = Retained(from.order, id)]
    ELSE from

(* The loop of remember: the oldest go until there is room.                *)
Popped(from, n) ==
    LET gone == {from.order[k] : k \in 1..n}
    IN [from EXCEPT !.known = [i \in DOMAIN from.known \ gone |-> from.known[i]],
                    !.order = SubSeq(from.order, n + 1, Len(from.order))]

(* Mutant: the oldest goes one notification too late.                      *)
LateBug(from) == Cardinality(DOMAIN from.known) <= from.capacity

Fits(from) == Cardinality(DOMAIN from.known) < from.capacity
WithRoom(from) ==
    LET all == Len(from.order)
    IN Popped(from, Min({n \in 0..all : n = all \/ Fits(Popped(from, n))}))

Inserted(from, binding) ==
    [from EXCEPT !.known = [i \in DOMAIN from.known \cup {binding.id} |->
                               IF i = binding.id THEN binding ELSE from.known[i]],
                 !.order = Append(from.order, binding.id)]

(* Mutant: the binding the id had before is not removed.                   *)
DuplicateBug(from, binding) == Inserted(WithRoom(from), binding)

(* remember                                                                *)
Remembered(from, binding) == Inserted(WithRoom(Removed(from, binding.id)), binding)

(* transition: the view an action leads to, if it navigates.               *)
Navigates(content, key) ==
    <<content.view, key>> \in {<<"summary", "details">>, <<"details", "back">>}
NextContent(content) ==
    [content EXCEPT !.view = IF content.view = "summary" THEN "details" ELSE "summary"]

(* dispatch: what a binding lets an action do.                             *)
AnyViewBug(content, key) == (key = "stop_group") <=> (content.subject \in Groups)
Permitted(content, key) ==
    \/ key = "stop_group" /\ content.subject \in Groups /\ content.view = "details"
    \/ key = "stop" /\ content.subject \notin Groups

(* plan_notification                                                       *)
Plan(id, key) ==
    IF ~Bound(id) THEN "unknown"
    ELSE LET content == BindingOf(id).content IN
         IF Navigates(content, key) THEN "navigate"
         ELSE IF Permitted(content, key) THEN "execute"
         ELSE "rejected"

-----------------------------------------------------------------------------
(* The loop                                                                *)

(* Dropping the sink aborts the listener; what it has sent stays in the    *)
(* channel.                                                                *)
Disconnect ==
    /\ notifier' = FALSE
    /\ listening' = FALSE /\ actions' = <<>> /\ closures' = <<>>

(* notification_retry                                                      *)
Retry ==
    /\ phase = "idle" /\ ~notifier
    /\ notifier' = TRUE /\ listening' = TRUE
    /\ UNCHANGED <<serverVars, actions, closures, channel, bindings, phase, batch, call,
                   reply, work, acted>>

Ask(content, replaces) ==
    phase' = "notify" /\ call' = [content |-> content, replaces |-> replaces]

(* record_monitor_report: the notifications of one poll, one by one.  That *)
(* ids are left is a bound.                                                *)
Report(subjects) ==
    /\ phase = "idle" /\ notifier
    /\ used # Ids
    /\ batch' = subjects /\ phase' = "report"
    /\ UNCHANGED <<serverVars, listenerVars, notifier, bindings, call, reply, work, acted>>

ReportNext ==
    /\ phase = "report"
    /\ IF batch = <<>> \/ used = Ids
       THEN phase' = "idle" /\ batch' = <<>> /\ UNCHANGED call
       ELSE Ask([subject |-> Head(batch), view |-> "summary"], 0) /\ batch' = Tail(batch)
    /\ UNCHANGED <<serverVars, listenerVars, notifier, bindings, reply, work, acted>>

(* send_pressure_notification                                              *)
NotifyPressure ==
    /\ phase = "idle" /\ notifier
    /\ used # Ids
    /\ Ask([subject |-> Pressure, view |-> "summary"], 0)
    /\ UNCHANGED <<serverVars, listenerVars, notifier, bindings, batch, reply, work, acted>>

(* Notify succeeded: the binding of the id it returned; pressure           *)
(* notifications have none.                                                *)
Remember ==
    /\ phase = "reply"
    /\ LET binding == [id |-> reply.id, content |-> call.content, session |-> reply.session]
       IN bindings' = IF call.content.subject = Pressure THEN bindings
                      ELSE Remembered(Removed(bindings, call.replaces), binding)
    /\ phase' = IF batch = <<>> THEN "idle" ELSE "report"
    /\ call' = NoCall /\ reply' = NoReply
    /\ UNCHANGED <<serverVars, listenerVars, notifier, batch, work, acted>>

(* Mutant: the bindings survive a failed navigation.                       *)
KeepOnFailureBug == bindings

(* A failed Notify forgets all bindings, one of a pressure notification    *)
(* none.                                                                   *)
AfterFailure == IF call.content.subject = Pressure THEN bindings ELSE Empty(bindings.capacity)

(* Notify failed, before or after the server acted on it.                  *)
NotifyFails ==
    /\ phase \in {"notify", "reply"}
    /\ failures < MaxFailures
    /\ failures' = failures + 1
    /\ Disconnect
    /\ bindings' = AfterFailure
    /\ phase' = "idle" /\ batch' = <<>> /\ call' = NoCall /\ reply' = NoReply
    /\ UNCHANGED <<resident, shown, used, session, clicks, channel, work, acted>>

(* Mutant: an action that leaves its binding in place.                     *)
KeepBindingBug(event) ==
    /\ UNCHANGED bindings
    /\ work' = [event |-> event, binding |-> BindingOf(event.id)]
    /\ phase' = IF notifier THEN "close" ELSE "act"

(* A permitted action: unbind, close the notification, then perform it.    *)
Execute(event) ==
    /\ bindings' = Removed(bindings, event.id)
    /\ work' = [event |-> event, binding |-> BindingOf(event.id)]
    /\ phase' = IF notifier THEN "close" ELSE "act"

HandleAction ==
    LET event == Head(channel) IN
    /\ phase = "idle" /\ channel # <<>> /\ event.type = "action"
    /\ channel' = Tail(channel)
    /\ LET id == event.id
           plan == Plan(id, event.key)
       IN \/ /\ plan \in {"unknown", "rejected"}
             /\ UNCHANGED <<bindings, phase, call, work>>
          \/ /\ plan = "navigate" /\ notifier
             /\ Ask(NextContent(BindingOf(id).content), id)
             /\ UNCHANGED <<bindings, work>>
          \/ /\ plan = "navigate" /\ ~notifier
             /\ bindings' = Removed(bindings, id)
             /\ UNCHANGED <<phase, call, work>>
          \/ /\ plan = "execute"
             /\ Execute(event) /\ UNCHANGED call
    /\ UNCHANGED <<serverVars, listening, actions, closures, notifier, batch, reply, acted>>

HandleClosed ==
    LET event == Head(channel) IN
    /\ phase = "idle" /\ channel # <<>> /\ event.type = "closed"
    /\ channel' = Tail(channel)
    /\ bindings' = Removed(bindings, event.id)
    /\ UNCHANGED <<serverVars, listening, actions, closures, notifier, phase, batch, call,
                   reply, work, acted>>

HandleFailed ==
    /\ phase = "idle" /\ channel # <<>> /\ Head(channel).type = "failed"
    /\ channel' = Tail(channel)
    /\ Disconnect
    /\ bindings' = Empty(bindings.capacity)
    /\ UNCHANGED <<serverVars, phase, batch, call, reply, work, acted>>

(* close_handled_notification: a failure is only logged.                   *)
CloseHandled ==
    /\ phase = "close"
    /\ phase' = "act"
    /\ LET id == work.event.id IN
       \/ /\ id \in DOMAIN shown
          /\ shown' = Without(id) /\ closures' = Emit(closures, Closed(id))
          /\ UNCHANGED failures
       \/ /\ id \notin DOMAIN shown
          /\ UNCHANGED <<shown, closures, failures>>
       \/ /\ failures < MaxFailures /\ failures' = failures + 1
          /\ UNCHANGED <<shown, closures>>
    /\ UNCHANGED <<resident, used, session, clicks, listening, actions, channel,
                   notifier, bindings, batch, call, reply, work, acted>>

(* The stop or the ignore itself.                                          *)
Act ==
    /\ phase = "act"
    /\ acted' = acted \cup {<<work.binding.session, work.event.id>>}
    /\ phase' = "idle" /\ work' = NoWork
    /\ UNCHANGED <<serverVars, listenerVars, notifier, bindings, batch, call, reply>>

-----------------------------------------------------------------------------
Next ==
    \/ \E id \in Ids : Dismiss(id) \/ \E key \in Keys : Click(id, key)
    \/ Restart
    \/ Serve
    \/ Forward \/ StreamFails
    \/ Retry
    \/ \E subjects \in Batches : Report(subjects)
    \/ ReportNext \/ NotifyPressure \/ Remember \/ NotifyFails
    \/ HandleAction \/ HandleClosed \/ HandleFailed
    \/ CloseHandled \/ Act

NotificationsSpec == NotificationsInit /\ [][Next]_vars
-----------------------------------------------------------------------------
(* Properties                                                              *)

(* README, "Background workloads": the daemon "performs an action that the *)
(* user explicitly chooses".  The action is performed on the subject whose *)
(* notification was clicked, and a group is stopped only if the click was  *)
(* made in its details and nothing navigated away from them since.         *)
(* Nothing in the code ties an id to a session of the server, so this is   *)
(* claimed of clicks made in the session the binding comes from.           *)
ActsOnShown ==
    phase = "act" =>
        LET event == work.event
            content == work.binding.content
        IN event.session = work.binding.session =>
             /\ event.about.subject = content.subject
             /\ event.key = "stop_group" => event.about = content

(* A notification is acted on once, however often and fast its buttons are *)
(* pressed and whether or not closing it works.                            *)
ActsOnce == phase = "act" => <<work.binding.session, work.event.id>> \notin acted

(* The daemon's idea of a notification on the screen is right, but while   *)
(* it is being replaced: the view decides what may be done.                *)
BindingIsShown ==
    \A id \in DOMAIN bindings.known :
        LET b == BindingOf(id) IN
        b.session = session /\ id \in DOMAIN shown /\ id # call.replaces =>
            shown[id] = b.content

(* The map and the order beside it name the same notifications, the order  *)
(* each of them once, and they are never more than the limit, however ids  *)
(* are reused: otherwise remember drops the wrong one, or none.            *)
BindingsBounded ==
    /\ Cardinality(DOMAIN bindings.known) <= bindings.capacity
    /\ DOMAIN bindings.known = {bindings.order[k] : k \in DOMAIN bindings.order}
    /\ \A j, k \in DOMAIN bindings.order : bindings.order[j] = bindings.order[k] => j = k

(* CHANGELOG 0.6.0: "the summary opens details, where the user can         *)
(* explicitly send SIGTERM".  As long as nothing failed, the buttons on    *)
(* the screen work: their notification is bound.                           *)
ButtonsWork ==
    phase = "idle" /\ failures = 0 /\ session = 0 =>
        \A id \in DOMAIN shown : Buttons(shown[id]) # {} => Bound(id)
=============================================================================
