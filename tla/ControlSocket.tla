--------------------------- MODULE ControlSocket ---------------------------
(***************************************************************************)
(* The control socket (src/runtime/daemon.rs, bind_control_socket to       *)
(* SocketGuard; src/runtime/paths.rs): the name in the runtime directory,  *)
(* the sockets that listen, and one client.  A name leads to the socket    *)
(* that was bound to it, whether that one still listens or not.            *)
(***************************************************************************)
CONSTANTS
    Daemons, \* processes that may be the daemon
    NoEntry, \* the name is free
    NoQuery  \* no client

ASSUME SocketAssumption == NoEntry \notin Daemons

VARIABLES
    entry,     \* whose socket the name leads to
    listening, \* the daemons whose socket listens
    query      \* the client: [peer, at, stage], or NoQuery

socketVars == <<entry, listening, query>>

(* A peer of this program, or one that connects and sends nothing.         *)
Peers == {"cli", "silent"}
Queries == [peer : Peers, at : Daemons, stage : {"queued", "accepted"}]

SocketTypeOK ==
    /\ entry \in Daemons \cup {NoEntry}
    /\ listening \subseteq Daemons
    /\ query \in Queries \cup {NoQuery}

SocketInit == entry = NoEntry /\ listening = {} /\ query = NoQuery

-----------------------------------------------------------------------------
(* bind_control_socket: what the first look at the name finds.  A connect  *)
(* to a socket that listens succeeds even when nobody accepts it.          *)
NameFree == entry = NoEntry
SomeoneListens == entry \in listening

(* fs::remove_file: of whatever the name leads to by now.                  *)
RemoveName ==
    /\ ~NameFree
    /\ entry' = NoEntry
    /\ UNCHANGED <<listening, query>>

BindName(d) ==
    /\ NameFree
    /\ entry' = d
    /\ listening' = listening \cup {d}
    /\ UNCHANGED query

(* SocketGuard::drop, before the listener is dropped.                      *)
DropGuard ==
    /\ entry' = NoEntry
    /\ UNCHANGED <<listening, query>>

(* The listener goes, and every connection with it.                        *)
CloseSockets(closed) ==
    /\ listening' = listening \ closed
    /\ query' = IF query # NoQuery /\ query.at \in closed THEN NoQuery ELSE query

-----------------------------------------------------------------------------
(* query: the client connects to the name; it gives up after its timeouts. *)
Connect(peer) ==
    /\ query = NoQuery /\ SomeoneListens
    /\ query' = [peer |-> peer, at |-> entry, stage |-> "queued"]
    /\ UNCHANGED <<entry, listening>>

ClientGivesUp ==
    /\ query # NoQuery /\ query.peer = "cli"
    /\ query' = NoQuery
    /\ UNCHANGED <<entry, listening>>

(* listener.accept in the daemon's loop, and handle_client in a task of    *)
(* its own: it answers a request that is complete, and waits no longer     *)
(* than CONTROL_TIMEOUT for one that is not.                               *)
Accept(d) ==
    /\ query # NoQuery /\ query.at = d /\ query.stage = "queued"
    /\ query' = [query EXCEPT !.stage = "accepted"]
    /\ UNCHANGED <<entry, listening>>

Accepted(peer) == query # NoQuery /\ query.stage = "accepted" /\ query.peer = peer

Answer ==
    /\ Accepted("cli")
    /\ query' = NoQuery
    /\ UNCHANGED <<entry, listening>>

(* Mutant: the read has no timeout, only an answered client is let go.     *)
PatientHandlerBug ==
    /\ Accepted("cli")
    /\ query' = NoQuery
    /\ UNCHANGED <<entry, listening>>

HandlerGivesUp ==
    /\ Accepted("silent")
    /\ query' = NoQuery
    /\ UNCHANGED <<entry, listening>>

=============================================================================
