------------------------------- MODULE Listener -------------------------------
(***************************************************************************)
(* The HTTP listener (crates/app/src/lib.rs, serve_listener_with_limits and *)
(* serve_connection, and http.rs): one thread accepts connections, a thread *)
(* per admitted connection reads requests, has the application handle them  *)
(* under its mutex and writes the answers.                                  *)
(*                                                                          *)
(* A client sends requests for as long as it likes: "keep" and "close" are  *)
(* complete and ask to keep or to close the connection, "garbled" is one    *)
(* that does not parse.  It is sent the application's answers and the       *)
(* listener's own refusals (400, 408, 503), of which the last is kept here. *)
(***************************************************************************)
EXTENDS Naturals, Sequences, FiniteSets, SequencesExt

CONSTANTS
  NumConns,       \* bound: connections made, numbered as they are made
  MaxConnections, \* of the configuration
  MaxPanics       \* bound: requests whose handling panics

ASSUME ListenerAssumption == NumConns \in Nat /\ MaxConnections \in Nat \ {0}

Conns == 1..NumConns

VARIABLES
  server,   \* the accepting thread: accepting, draining, or what serve returned
  signal,   \* SHUTDOWN_REQUESTED
  backlog,  \* connections the kernel holds, oldest first
  phase,    \* of each connection
  current,  \* the request its thread works on
  input,    \* the request it has to read next, or "none"
  hungUp,   \* whether its client has closed its side
  output,   \* what was written to it last, or "nothing"
  owed,     \* how many of its requests were given to the application and not answered
  active,   \* the counter of admitted connections
  poisoned  \* whether the mutex is

clients == <<input, hungUp>>
workers == <<phase, current, output, owed, active, poisoned>>
vars    == <<server, signal, backlog, clients, workers>>

Requests == {"keep", "close", "garbled"}

Held == {"reading", "locking", "handling", "writing", "leaving"}

Init ==
  /\ server = "accepting" /\ signal = FALSE /\ backlog = <<>>
  /\ phase = [c \in Conns |-> "none"] /\ current = [c \in Conns |-> "none"]
  /\ input = [c \in Conns |-> "none"] /\ hungUp = [c \in Conns |-> FALSE]
  /\ output = [c \in Conns |-> "nothing"] /\ owed = [c \in Conns |-> 0]
  /\ active = 0 /\ poisoned = FALSE

-----------------------------------------------------------------------------
(* Clients and the operator.  What a client sends, at whatever time, is      *)
(* seen when its thread reads; only then is it a step here.                 *)

Connect(c) ==
  /\ phase[c] = "none" /\ server \in {"accepting", "draining"}
  /\ \A d \in 1..(c - 1) : phase[d] # "none"
  /\ phase' = [phase EXCEPT ![c] = "queued"]
  /\ backlog' = Append(backlog, c)
  /\ UNCHANGED <<server, signal, clients, current, output, owed, active, poisoned>>

Send(c) ==
  /\ phase[c] = "reading" /\ ~ hungUp[c] /\ input[c] = "none"
  /\ \E r \in Requests : input' = [input EXCEPT ![c] = r]
  /\ UNCHANGED <<server, signal, backlog, hungUp, workers>>

HangUp(c) ==
  /\ phase[c] = "reading" /\ ~ hungUp[c]
  /\ hungUp' = [hungUp EXCEPT ![c] = TRUE]
  /\ UNCHANGED <<server, signal, backlog, input, workers>>

Signal ==
  /\ server = "accepting" /\ ~ signal
  /\ signal' = TRUE
  /\ UNCHANGED <<server, backlog, clients, workers>>

-----------------------------------------------------------------------------
(* The accepting thread.                                                    *)

(* The slot is taken by the accepting thread, before the worker starts; a   *)
(* connection that finds none is told so and dropped.                       *)
Accept ==
  /\ server = "accepting" /\ ~ signal /\ backlog # <<>>
  /\ backlog' = Tail(backlog)
  /\ LET c == Head(backlog)
     IN IF active < MaxConnections
        THEN /\ phase' = [phase EXCEPT ![c] = "reading"]
             /\ active' = active + 1
             /\ UNCHANGED output
        ELSE /\ phase' = [phase EXCEPT ![c] = "closed"]
             /\ output' \in {output, [output EXCEPT ![c] = "refusal"]}
             /\ UNCHANGED active
  /\ UNCHANGED <<server, signal, clients, current, owed, poisoned>>

(* accept fails, or an option of the accepted socket cannot be set: the     *)
(* loop ends with the error, once the workers have ended.                   *)
AcceptFails ==
  /\ server = "accepting" /\ ~ signal
  /\ server' = "failing"
  /\ backlog' \in {backlog} \cup (IF backlog = <<>> THEN {} ELSE {Tail(backlog)})
  /\ phase' = [c \in Conns |-> IF c \in ToSet(backlog) \ ToSet(backlog') THEN "closed"
                               ELSE phase[c]]
  /\ UNCHANGED <<signal, clients, current, output, owed, active, poisoned>>

SeeSignal ==
  /\ server = "accepting" /\ signal
  /\ server' = "draining"
  /\ UNCHANGED <<signal, backlog, clients, workers>>

Lost == {c \in Conns : phase[c] = "panicked"}

(* thread::scope joins every worker, and panics when one of them did.       *)
Return ==
  /\ server \in {"draining", "failing"}
  /\ \A c \in Conns : phase[c] \notin Held
  /\ server' = IF Lost # {} THEN "panicked"
               ELSE IF server = "draining" THEN "stopped" ELSE "failed"
  /\ backlog' = <<>>
  /\ phase' = [c \in Conns |-> IF phase[c] = "queued" THEN "closed" ELSE phase[c]]
  /\ UNCHANGED <<signal, clients, current, output, owed, active, poisoned>>

-----------------------------------------------------------------------------
(* The thread of a connection.                                              *)

(* The socket is dropped, with what was not read from it and whatever its   *)
(* client did.                                                              *)
Discard(c) ==
  /\ input' = [input EXCEPT ![c] = "none"]
  /\ hungUp' = [hungUp EXCEPT ![c] = FALSE]
  /\ current' = [current EXCEPT ![c] = "none"]

To(c, p) == phase' = [phase EXCEPT ![c] = p]

Refuse(c) ==
  /\ output' \in {output, [output EXCEPT ![c] = "refusal"]}
  /\ To(c, "leaving")

(* read_http_request and parse_http.                                        *)
ReadRequest(c) ==
  /\ phase[c] = "reading" /\ input[c] # "none"
  /\ input' = [input EXCEPT ![c] = "none"]
  /\ IF input[c] = "garbled"
     THEN Refuse(c) /\ UNCHANGED current
     ELSE To(c, "locking") /\ current' = [current EXCEPT ![c] = input[c]] /\ UNCHANGED output
  /\ UNCHANGED <<server, signal, backlog, hungUp, owed, active, poisoned>>

ReadEnd(c) ==
  /\ phase[c] = "reading" /\ input[c] = "none" /\ hungUp[c]
  /\ To(c, "leaving")
  /\ UNCHANGED <<server, signal, backlog, clients, current, output, owed, active, poisoned>>

(* Seeded fault: the socket has no read timeout. *)
ReadTimeoutNever(c) == FALSE /\ UNCHANGED vars

(* Five seconds without a byte, between two requests or inside of one; the  *)
(* bytes of a request may be on their way.                                  *)
ReadTimeout(c) ==
  /\ phase[c] = "reading" /\ ~ hungUp[c]
  /\ Refuse(c)
  /\ UNCHANGED <<server, signal, backlog, clients, current, owed, active, poisoned>>

(* Seeded fault: a poisoned mutex is waited for. *)
LockPoisonedWaits(c) ==
  /\ phase[c] = "locking" /\ ~ poisoned /\ \A d \in Conns : phase[d] # "handling"
  /\ To(c, "handling") /\ owed' = [owed EXCEPT ![c] = @ + 1]
  /\ UNCHANGED <<server, signal, backlog, clients, current, output, active, poisoned>>

Lock(c) ==
  /\ phase[c] = "locking" /\ \A d \in Conns : phase[d] # "handling"
  /\ IF poisoned
     THEN To(c, "leaving") /\ UNCHANGED owed
     ELSE To(c, "handling") /\ owed' = [owed EXCEPT ![c] = @ + 1]
  /\ UNCHANGED <<server, signal, backlog, clients, current, output, active, poisoned>>

Handle(c) ==
  /\ phase[c] = "handling"
  /\ To(c, "writing")
  /\ UNCHANGED <<server, signal, backlog, clients, current, output, owed, active, poisoned>>

(* The guard poisons the mutex, and the thread ends without its last        *)
(* statement, which gives the slot back.                                    *)
Panic(c) ==
  /\ phase[c] = "handling" /\ Cardinality(Lost) < MaxPanics
  /\ To(c, "panicked")
  /\ poisoned' = TRUE
  /\ Discard(c)
  /\ UNCHANGED <<server, signal, backlog, output, owed, active>>

Answered(c) ==
  /\ output' = [output EXCEPT ![c] = "answer"]
  /\ owed' = [owed EXCEPT ![c] = @ - 1]
  /\ To(c, IF current[c] = "close" THEN "leaving" ELSE "reading")

(* Seeded fault: the thread goes on after a write that failed. *)
WriteGoesOn(c) ==
  /\ phase[c] = "writing"
  /\ \/ Answered(c)
     \/ UNCHANGED <<output, owed>> /\ To(c, IF current[c] = "close" THEN "leaving" ELSE "reading")
  /\ current' = [current EXCEPT ![c] = "none"]
  /\ UNCHANGED <<server, signal, backlog, clients, active, poisoned>>

(* write_http fails when the client is gone or reads nothing for 5 seconds. *)
Write(c) ==
  /\ phase[c] = "writing"
  /\ \/ Answered(c)
     \/ UNCHANGED <<output, owed>> /\ To(c, "leaving")
  /\ current' = [current EXCEPT ![c] = "none"]
  /\ UNCHANGED <<server, signal, backlog, clients, active, poisoned>>

(* Seeded fault: only a connection that was answered gives its slot back. *)
LeaveAnswered(c) ==
  /\ phase[c] = "leaving"
  /\ active' = IF output[c] # "nothing" THEN active - 1 ELSE active
  /\ To(c, "closed")
  /\ Discard(c)
  /\ UNCHANGED <<server, signal, backlog, output, owed, poisoned>>

Leave(c) ==
  /\ phase[c] = "leaving"
  /\ active' = active - 1
  /\ To(c, "closed")
  /\ Discard(c)
  /\ UNCHANGED <<server, signal, backlog, output, owed, poisoned>>

Worker(c) ==
  \/ ReadRequest(c) \/ ReadEnd(c) \/ ReadTimeout(c) \/ Lock(c) \/ Handle(c) \/ Panic(c)
  \/ Write(c) \/ Leave(c)

Next ==
  \/ \E c \in Conns : Connect(c) \/ Send(c) \/ HangUp(c) \/ Worker(c)
  \/ Signal \/ Accept \/ AcceptFails \/ SeeSignal \/ Return

Spec == Init /\ [][Next]_vars

(* Every thread goes on: reads end by a request, by the limits on its size, *)
(* by the end of the stream or by the timeout of the socket, writes by the  *)
(* other timeout, and handling a request ends.  Clients and the operator    *)
(* may do nothing, or send for ever; the mutex favours nobody.              *)
FairSpec ==
  /\ Spec
  /\ WF_vars(Accept) /\ WF_vars(SeeSignal) /\ WF_vars(Return)
  /\ \A c \in Conns : WF_vars(Worker(c))

-----------------------------------------------------------------------------
(* Properties.                                                              *)

TypeOK ==
  /\ server \in {"accepting", "draining", "failing", "stopped", "failed", "panicked"}
  /\ signal \in BOOLEAN /\ poisoned \in BOOLEAN
  /\ phase \in [Conns -> Held \cup {"none", "queued", "panicked", "closed"}]
  /\ current \in [Conns -> {"none", "keep", "close"}]
  /\ backlog \in Seq(Conns) /\ active \in Nat
  /\ input \in [Conns -> Requests \cup {"none"}]
  /\ hungUp \in [Conns -> BOOLEAN]
  /\ owed \in [Conns -> Nat]
  /\ output \in [Conns -> {"nothing", "answer", "refusal"}]

Slots == {c \in Conns : phase[c] \in Held \cup {"panicked"}}

(* The counter is the number of connections that have a thread, and of      *)
(* those whose thread panicked, however a thread ended: no slot leaks but   *)
(* by a panic, none is given back twice, and there are never more than      *)
(* max_connections of them.                                                 *)
SlotsExact == active = Cardinality(Slots) /\ active <= MaxConnections

(* After a refusal of the listener (400, 408, 503) nothing more is read     *)
(* from its connection or written to it, and the application was given none *)
(* of its requests that it did not answer: who is refused may send the      *)
(* request again without its having an effect twice.                        *)
RefusedUnhandled ==
  \A c \in Conns : output[c] = "refusal" =>
    phase[c] \in {"leaving", "closed"} /\ owed[c] = 0

Silence == <>[][\A c \in Conns : ~ Send(c)]_vars

Returned == server \in {"stopped", "failed", "panicked"}

(* Clients that no longer send lose their connections, without any of them  *)
(* hanging up: no thread is left behind in a read, in a write, or on a      *)
(* mutex that another thread's panic has poisoned.                          *)
WorkerEnds ==
  Silence => \A c \in Conns : phase[c] \in Held ~> phase[c] \in {"closed", "panicked"}

(* After SIGINT or SIGTERM, and once the clients have stopped sending,      *)
(* serve returns, so that the checkpoint store is dropped and releases its  *)
(* lock file.  While a client goes on sending it does not: serve_connection *)
(* never looks at the flag, and serve waits for every worker.               *)
SignalStops == Silence => (signal ~> Returned)
===============================================================================
