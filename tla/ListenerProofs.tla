---------------------------- MODULE ListenerProofs ----------------------------
(***************************************************************************)
(* Theorems about the HTTP listener, for any number of connections, slots,  *)
(* requests and panics.                                                     *)
(***************************************************************************)
EXTENDS Listener, FiniteSetTheorems, SequenceTheorems, TLAPS

Phases == Held \cup {"none", "queued", "panicked", "closed"}

-----------------------------------------------------------------------------
(* Types.                                                                    *)

LEMMA HeadOfBacklog ==
  ASSUME TypeOK, backlog # <<>>
  PROVE  /\ Head(backlog) \in Conns
         /\ Tail(backlog) \in Seq(Conns)
         /\ Len(Tail(backlog)) = Len(backlog) - 1
         /\ \A i \in 1..Len(Tail(backlog)) : Tail(backlog)[i] = backlog[i + 1]
         /\ Head(backlog) = backlog[1]
         /\ Len(backlog) \in Nat \ {0}
         /\ DOMAIN backlog = 1..Len(backlog)
         /\ DOMAIN Tail(backlog) = 1..Len(Tail(backlog))
  <1>1. backlog \in Seq(Conns)
    BY DEF TypeOK, Phases
  <1>2. QED BY <1>1, HeadTailProperties, EmptySeq, LenProperties

(* The thread of a connection owes an answer exactly while it handles a      *)
(* request or writes, unless it is gone; a refusal is its last word.         *)
TaleOf(c) ==
  /\ phase[c] \in {"none", "queued", "reading", "locking"} => owed[c] = 0 /\ output[c] # "refusal"
  /\ phase[c] \in {"handling", "writing"} => owed[c] = 1 /\ output[c] # "refusal"
  /\ phase[c] = "panicked" => output[c] # "refusal"
  /\ output[c] = "refusal" => owed[c] = 0

Tale == \A c \in Conns : TaleOf(c)

LEMMA SlotsFinite ==
  /\ IsFiniteSet(Slots)
  /\ Cardinality(Slots) \in Nat
  <1>1. IsFiniteSet(Conns)
    BY ListenerAssumption, FS_Interval DEF Conns
  <1>2. Slots \in SUBSET Conns
    BY DEF Slots
  <1>3. QED BY <1>1, <1>2, FS_Subset, FS_CardinalityType

(* A connection that is held is counted. *)
LEMMA HeldIsCounted ==
  ASSUME SlotsExact, NEW c \in Conns, phase[c] \in Held
  PROVE  active \in Nat \ {0}
  <1>1. c \in Slots
    BY DEF Slots
  <1>2. Cardinality(Slots) # 0
    BY <1>1, SlotsFinite, FS_EmptySet
  <1>3. QED BY <1>2, SlotsFinite DEF SlotsExact

LEMMA WorkerType ==
  ASSUME TypeOK, Tale, SlotsExact, NEW c \in Conns, Worker(c)
  PROVE  TypeOK'
  <1>1. CASE ReadRequest(c)
    <2>1. input[c] \in Requests
      BY <1>1 DEF ReadRequest, TypeOK
    <2>2. CASE input[c] = "garbled"
      BY <1>1, <2>2 DEF ReadRequest, Refuse, To, TypeOK, Held
    <2>3. CASE input[c] # "garbled"
      BY <1>1, <2>1, <2>3 DEF ReadRequest, To, TypeOK, Held, Requests
    <2>4. QED BY <2>2, <2>3
  <1>2. CASE ReadEnd(c)
    BY <1>2 DEF ReadEnd, To, TypeOK, Held, clients
  <1>3. CASE ReadTimeout(c)
    BY <1>3 DEF ReadTimeout, Refuse, To, TypeOK, Held, clients
  <1>4. CASE Lock(c)
    <2>1. phase' \in {[phase EXCEPT ![c] = "leaving"], [phase EXCEPT ![c] = "handling"]}
      BY <1>4 DEF Lock, To
    <2>2. owed' \in {owed, [owed EXCEPT ![c] = owed[c] + 1]}
      BY <1>4 DEF Lock
    <2>3. owed' \in [Conns -> Nat]
      BY <2>2 DEF TypeOK
    <2>4. QED BY <1>4, <2>1, <2>3 DEF Lock, TypeOK, Held, clients
  <1>5. CASE Handle(c)
    BY <1>5 DEF Handle, To, TypeOK, Held, clients
  <1>6. CASE Panic(c)
    BY <1>6 DEF Panic, Discard, To, TypeOK, Held
  <1>7. CASE Write(c)
    <2>1. owed[c] = 1
      BY <1>7 DEF Write, Tale, TaleOf
    <2>2. owed' \in {owed, [owed EXCEPT ![c] = 0]}
      BY <1>7, <2>1 DEF Write, Answered
    <2>3. owed' \in [Conns -> Nat]
      BY <2>2 DEF TypeOK
    <2>4. output' \in [Conns -> {"nothing", "answer", "refusal"}]
      BY <1>7 DEF Write, Answered, TypeOK
    <2>5. phase' \in [Conns -> Phases]
      BY <1>7 DEF Write, Answered, To, TypeOK, Phases, Held
    <2>6. QED BY <1>7, <2>3, <2>4, <2>5 DEF Write, TypeOK, Phases, clients
  <1>8. CASE Leave(c)
    <2>1. active' \in Nat
      BY <1>8, HeldIsCounted DEF Leave, Held
    <2>2. QED BY <1>8, <2>1 DEF Leave, Discard, To, TypeOK, Held
  <1>9. QED BY <1>1, <1>2, <1>3, <1>4, <1>5, <1>6, <1>7, <1>8 DEF Worker

(* The kernel's queue holds queued connections, and each one once.           *)
QueueExact ==
  /\ \A i \in DOMAIN backlog : phase[backlog[i]] = "queued"
  /\ \A i, j \in DOMAIN backlog : backlog[i] = backlog[j] => i = j

LEMMA NextType ==
  ASSUME TypeOK, Tale, SlotsExact, [Next]_vars
  PROVE  TypeOK'
  <1>1. ASSUME NEW c \in Conns, Connect(c) PROVE TypeOK'
    <2>1. backlog' \in Seq(Conns)
      BY <1>1, AppendProperties DEF Connect, TypeOK, Phases
    <2>2. QED BY <1>1, <2>1 DEF Connect, TypeOK, Phases, clients
  <1>2. ASSUME NEW c \in Conns, Send(c) PROVE TypeOK'
    BY <1>2 DEF Send, TypeOK, workers
  <1>3. ASSUME NEW c \in Conns, HangUp(c) PROVE TypeOK'
    BY <1>3 DEF HangUp, TypeOK, Phases, workers
  <1>4. ASSUME NEW c \in Conns, Worker(c) PROVE TypeOK'
    BY <1>4, WorkerType
  <1>5. CASE Signal
    BY <1>5 DEF Signal, TypeOK, clients, workers
  <1>6. CASE Accept
    <2>1. PICK c \in Conns : c = Head(backlog)
      BY <1>6, HeadOfBacklog DEF Accept
    <2>2. output' \in {output, [output EXCEPT ![c] = "refusal"]}
      BY <1>6, <2>1 DEF Accept
    <2>3. backlog' \in Seq(Conns)
      BY <1>6, HeadOfBacklog DEF Accept
    <2>4. phase' \in [Conns -> Phases]
      <3>1. phase' \in {[phase EXCEPT ![c] = "reading"], [phase EXCEPT ![c] = "closed"]}
        BY <1>6, <2>1 DEF Accept
      <3>2. QED BY <3>1 DEF TypeOK, Phases, Held
    <2>5. active' \in Nat
      <3>1. active' \in {active, active + 1}
        BY <1>6 DEF Accept
      <3>2. QED BY <3>1 DEF TypeOK, Phases
    <2>6. QED BY <1>6, <2>2, <2>3, <2>4, <2>5 DEF Accept, TypeOK, Phases, clients
  <1>7. CASE AcceptFails
    <2>1. backlog' \in Seq(Conns)
      BY <1>7, HeadOfBacklog DEF AcceptFails, TypeOK, Phases
    <2>2. phase' \in [Conns -> Phases]
      BY <1>7 DEF AcceptFails, TypeOK, Phases
    <2>3. QED BY <1>7, <2>1, <2>2 DEF AcceptFails, TypeOK, Phases, clients
  <1>8. CASE SeeSignal
    BY <1>8 DEF SeeSignal, TypeOK, clients, workers
  <1>9. CASE Return
    <2>1. backlog' \in Seq(Conns)
      BY <1>9, EmptySeq DEF Return
    <2>2. phase' \in [Conns -> Phases]
      BY <1>9 DEF Return, TypeOK, Phases
    <2>3. QED BY <1>9, <2>1, <2>2 DEF Return, TypeOK, Phases, clients
  <1>10. CASE UNCHANGED vars
    BY <1>10 DEF vars, clients, workers, TypeOK, Phases
  <1>11. QED
    BY <1>1, <1>2, <1>3, <1>4, <1>5, <1>6, <1>7, <1>8, <1>9, <1>10 DEF Next

-----------------------------------------------------------------------------
(* The queue and the slots.  A worker's steps keep its connection counted,   *)
(* but for the last one, which gives the slot back.                          *)

LEMMA WorkerMoves ==
  ASSUME TypeOK, NEW c \in Conns, Worker(c)
  PROVE  /\ phase[c] \in Held
         /\ backlog' = backlog
         /\ \E p \in Held \cup {"panicked", "closed"} : phase' = [phase EXCEPT ![c] = p]
         /\ \/ phase'[c] # "closed" /\ active' = active
            \/ phase'[c] = "closed" /\ active' = active - 1
  <1>1. CASE ReadRequest(c)
    <2>1. phase' \in {[phase EXCEPT ![c] = "leaving"], [phase EXCEPT ![c] = "locking"]}
      BY <1>1 DEF ReadRequest, Refuse, To
    <2>2. QED BY <1>1, <2>1 DEF ReadRequest, Held, TypeOK, Phases
  <1>2. CASE ReadEnd(c)
    BY <1>2 DEF ReadEnd, To, Held, TypeOK, Phases
  <1>3. CASE ReadTimeout(c)
    BY <1>3 DEF ReadTimeout, Refuse, To, Held, TypeOK, Phases
  <1>4. CASE Lock(c)
    <2>1. phase' \in {[phase EXCEPT ![c] = "leaving"], [phase EXCEPT ![c] = "handling"]}
      BY <1>4 DEF Lock, To
    <2>2. QED BY <1>4, <2>1 DEF Lock, Held, TypeOK, Phases
  <1>5. CASE Handle(c)
    BY <1>5 DEF Handle, To, Held, TypeOK, Phases
  <1>6. CASE Panic(c)
    BY <1>6 DEF Panic, To, Held, TypeOK, Phases
  <1>7. CASE Write(c)
    <2>1. phase' \in {[phase EXCEPT ![c] = "leaving"], [phase EXCEPT ![c] = "reading"]}
      BY <1>7 DEF Write, Answered, To
    <2>2. QED BY <1>7, <2>1 DEF Write, Held, TypeOK, Phases
  <1>8. CASE Leave(c)
    BY <1>8 DEF Leave, To, Held, TypeOK, Phases
  <1>9. QED BY <1>1, <1>2, <1>3, <1>4, <1>5, <1>6, <1>7, <1>8 DEF Worker

LEMMA NextQueue ==
  ASSUME TypeOK, QueueExact, [Next]_vars
  PROVE  QueueExact'
  <1>0. \A i \in DOMAIN backlog : backlog[i] \in Conns
    BY ElementOfSeq, LenProperties DEF TypeOK, Phases
  <1>1. ASSUME NEW c \in Conns, Connect(c) PROVE QueueExact'
    <2>1. /\ Len(backlog') = Len(backlog) + 1
          /\ \A i \in 1..Len(backlog) : backlog'[i] = backlog[i]
          /\ backlog'[Len(backlog) + 1] = c
          /\ DOMAIN backlog' = 1..Len(backlog')
          /\ DOMAIN backlog = 1..Len(backlog) /\ Len(backlog) \in Nat
      BY <1>1, AppendProperties, LenProperties DEF Connect, TypeOK, Phases
    <2>2. \A i \in DOMAIN backlog : backlog[i] # c
      BY <1>1 DEF Connect, QueueExact
    <2>3. phase' = [phase EXCEPT ![c] = "queued"] /\ phase \in [Conns -> Phases]
      BY <1>1 DEF Connect, TypeOK, Phases, Held
    <2>4. \A i \in DOMAIN backlog' : i \in DOMAIN backlog \/ i = Len(backlog) + 1
      BY <2>1
    <2>5. ASSUME NEW i \in DOMAIN backlog' PROVE phase'[backlog'[i]] = "queued"
      BY <1>0, <2>1, <2>2, <2>3, <2>4 DEF QueueExact
    <2>6. ASSUME NEW i \in DOMAIN backlog', NEW j \in DOMAIN backlog', backlog'[i] = backlog'[j]
          PROVE  i = j
      BY <2>1, <2>2, <2>4, <2>6 DEF QueueExact
    <2>7. QED BY <2>5, <2>6 DEF QueueExact
  <1>2. ASSUME NEW c \in Conns, Send(c) \/ HangUp(c) PROVE QueueExact'
    BY <1>2 DEF Send, HangUp, workers, QueueExact
  <1>3. ASSUME NEW c \in Conns, Worker(c) PROVE QueueExact'
    <2>1. PICK p \in Held \cup {"panicked", "closed"} : phase' = [phase EXCEPT ![c] = p]
      BY <1>3, WorkerMoves
    <2>2. backlog' = backlog /\ \A i \in DOMAIN backlog : backlog[i] # c
      BY <1>3, WorkerMoves DEF QueueExact, Held
    <2>3. phase \in [Conns -> Phases]
      BY DEF TypeOK, Phases, Held
    <2>4. QED BY <1>0, <2>1, <2>2, <2>3 DEF QueueExact
  <1>4. CASE Signal \/ SeeSignal
    BY <1>4 DEF Signal, SeeSignal, workers, QueueExact
  <1>5. CASE Accept
    <2>1. backlog' = Tail(backlog) /\ backlog # <<>>
      BY <1>5 DEF Accept
    <2>2. \A i \in DOMAIN backlog' : i + 1 \in DOMAIN backlog /\ i \in Nat \ {0} /\ backlog'[i] = backlog[i + 1]
      BY <2>1, HeadOfBacklog
    <2>3. phase' \in {[phase EXCEPT ![Head(backlog)] = "reading"],
                      [phase EXCEPT ![Head(backlog)] = "closed"]}
      BY <1>5 DEF Accept
    <2>4. Head(backlog) = backlog[1] /\ 1 \in DOMAIN backlog
      BY <2>1, HeadOfBacklog
    <2>5. phase \in [Conns -> Phases]
      BY DEF TypeOK, Phases, Held
    <2>6. ASSUME NEW i \in DOMAIN backlog' PROVE phase'[backlog'[i]] = "queued"
      <3>1. backlog[i + 1] # Head(backlog)
        BY <2>2, <2>4 DEF QueueExact
      <3>2. QED BY <1>0, <2>2, <2>3, <2>5, <3>1 DEF QueueExact
    <2>7. ASSUME NEW i \in DOMAIN backlog', NEW j \in DOMAIN backlog', backlog'[i] = backlog'[j]
          PROVE  i = j
      <3>1. i + 1 = j + 1
        BY <2>2, <2>7 DEF QueueExact
      <3>2. QED BY <2>2, <3>1
    <2>8. QED BY <2>6, <2>7 DEF QueueExact
  <1>6. CASE AcceptFails
    <2>1. \A c \in ToSet(backlog') : phase'[c] = phase[c] \/ c \notin Conns
      BY <1>6 DEF AcceptFails
    <2>2. \A i \in DOMAIN backlog' : backlog'[i] \in ToSet(backlog')
      BY DEF ToSet
    <2>3. CASE backlog' = backlog
      BY <1>0, <2>1, <2>2, <2>3 DEF QueueExact
    <2>4. CASE backlog # <<>> /\ backlog' = Tail(backlog)
      <3>1. \A i \in DOMAIN backlog' : i + 1 \in DOMAIN backlog /\ i \in Nat \ {0} /\ backlog'[i] = backlog[i + 1]
        BY <2>4, HeadOfBacklog
      <3>2. ASSUME NEW i \in DOMAIN backlog' PROVE phase'[backlog'[i]] = "queued"
        BY <1>0, <2>1, <2>2, <3>1 DEF QueueExact
      <3>3. ASSUME NEW i \in DOMAIN backlog', NEW j \in DOMAIN backlog', backlog'[i] = backlog'[j]
            PROVE  i = j
        <4>1. i + 1 = j + 1
          BY <3>1, <3>3 DEF QueueExact
        <4>2. QED BY <3>1, <4>1
      <3>4. QED BY <3>2, <3>3 DEF QueueExact
    <2>5. QED BY <1>6, <2>3, <2>4 DEF AcceptFails
  <1>7. CASE Return
    BY <1>7 DEF Return, QueueExact
  <1>8. CASE UNCHANGED vars
    BY <1>8 DEF vars, workers, QueueExact
  <1>9. QED
    BY <1>1, <1>2, <1>3, <1>4, <1>5, <1>6, <1>7, <1>8 DEF Next

LEMMA NextSlots ==
  ASSUME TypeOK, QueueExact, SlotsExact, [Next]_vars
  PROVE  SlotsExact'
  <1>0. phase \in [Conns -> Phases]
    BY DEF TypeOK, Phases, Held
  <1>1. CASE Slots' = Slots /\ active' = active
    BY <1>1 DEF SlotsExact
  <1>2. ASSUME NEW c \in Conns, Connect(c) PROVE Slots' = Slots /\ active' = active
    BY <1>0, <1>2 DEF Connect, Slots, Held
  <1>3. ASSUME NEW c \in Conns, Send(c) \/ HangUp(c) PROVE Slots' = Slots /\ active' = active
    BY <1>3 DEF Send, HangUp, workers, Slots
  <1>4. ASSUME NEW c \in Conns, Worker(c) PROVE SlotsExact'
    <2>1. PICK p \in Held \cup {"panicked", "closed"} : phase' = [phase EXCEPT ![c] = p]
      BY <1>4, WorkerMoves
    <2>2. phase[c] \in Held /\ phase'[c] = p
      BY <1>0, <1>4, <2>1, WorkerMoves
    <2>3. CASE p # "closed"
      <3>1. Slots' = Slots
        BY <1>0, <2>1, <2>2, <2>3 DEF Slots
      <3>2. active' = active
        BY <1>4, <2>2, <2>3, WorkerMoves
      <3>3. QED BY <1>1, <3>1, <3>2
    <2>4. CASE p = "closed"
      <3>1. Slots' = Slots \ {c} /\ c \in Slots
        BY <1>0, <2>1, <2>2, <2>4 DEF Slots, Held
      <3>2. active' = active - 1 /\ active \in Nat
        BY <1>4, <2>2, <2>4, WorkerMoves DEF TypeOK, Phases
      <3>3. Cardinality(Slots \ {c}) = Cardinality(Slots) - 1
        BY <3>1, SlotsFinite, FS_RemoveElement
      <3>4. QED BY <3>1, <3>2, <3>3, ListenerAssumption DEF SlotsExact
    <2>5. QED BY <2>3, <2>4
  <1>5. CASE Signal \/ SeeSignal
    BY <1>1, <1>5 DEF Signal, SeeSignal, workers, Slots
  <1>6. CASE Accept
    <2>1. PICK c \in Conns : c = Head(backlog) /\ phase[c] = "queued"
      BY <1>6, HeadOfBacklog DEF Accept, QueueExact
    <2>2. CASE active < MaxConnections
      <3>1. phase' = [phase EXCEPT ![c] = "reading"] /\ active' = active + 1
        BY <1>6, <2>1, <2>2 DEF Accept
      <3>2. Slots' = Slots \cup {c} /\ c \notin Slots
        BY <1>0, <2>1, <3>1 DEF Slots, Held
      <3>3. Cardinality(Slots \cup {c}) = Cardinality(Slots) + 1
        BY <3>2, SlotsFinite, FS_AddElement
      <3>4. QED BY <2>2, <3>1, <3>2, <3>3, ListenerAssumption DEF SlotsExact, TypeOK, Phases
    <2>3. CASE ~ (active < MaxConnections)
      <3>1. phase' = [phase EXCEPT ![c] = "closed"] /\ active' = active
        BY <1>6, <2>1, <2>3 DEF Accept
      <3>2. Slots' = Slots
        BY <1>0, <2>1, <3>1 DEF Slots, Held
      <3>3. QED BY <1>1, <3>1, <3>2
    <2>4. QED BY <2>2, <2>3
  <1>7. CASE AcceptFails
    <2>1. \A c \in ToSet(backlog) : phase[c] = "queued"
      BY DEF ToSet, QueueExact
    <2>2. Slots' = Slots
      BY <1>0, <1>7, <2>1 DEF AcceptFails, Slots, Held
    <2>3. QED BY <1>1, <1>7, <2>2 DEF AcceptFails
  <1>8. CASE Return
    <2>1. Slots' = Slots
      BY <1>0, <1>8 DEF Return, Slots, Held
    <2>2. QED BY <1>1, <1>8, <2>1 DEF Return
  <1>9. CASE UNCHANGED vars
    BY <1>1, <1>9 DEF vars, workers, Slots
  <1>10. QED
    BY <1>1, <1>2, <1>3, <1>4, <1>5, <1>6, <1>7, <1>8, <1>9 DEF Next

LEMMA Starts == Init => TypeOK /\ Tale /\ QueueExact /\ SlotsExact
  <1> SUFFICES ASSUME Init PROVE TypeOK /\ Tale /\ QueueExact /\ SlotsExact
    OBVIOUS
  <1>1. TypeOK
    BY EmptySeq DEF Init, TypeOK, Phases
  <1>2. QueueExact
    BY DEF Init, QueueExact
  <1>3. Slots = {}
    BY DEF Init, Slots, Held
  <1>4. SlotsExact
    BY <1>3, FS_EmptySet, ListenerAssumption DEF Init, SlotsExact
  <1>5. Tale
    BY DEF Init, Tale, TaleOf
  <1>6. QED BY <1>1, <1>2, <1>4, <1>5

-----------------------------------------------------------------------------
(* What is written to a connection, and what is owed to it.                  *)

LEMMA SameTale ==
  ASSUME NEW c \in Conns, TaleOf(c),
         phase'[c] = phase[c], output'[c] = output[c], owed'[c] = owed[c]
  PROVE  TaleOf(c)'
  BY DEF TaleOf

LEMMA WorkerTale ==
  ASSUME TypeOK, Tale, NEW c \in Conns, Worker(c)
  PROVE  Tale'
  <1>1. TaleOf(c)
    BY DEF Tale
  <1>2. \A d \in Conns \ {c} :
          phase'[d] = phase[d] /\ output'[d] = output[d] /\ owed'[d] = owed[d]
    <2>1. \A d \in Conns \ {c} : phase'[d] = phase[d]
      BY WorkerMoves DEF TypeOK
    <2>2. \A d \in Conns \ {c} : owed'[d] = owed[d]
      BY DEF Worker, ReadRequest, ReadEnd, ReadTimeout, Lock, Handle, Panic, Write, Answered, Leave,
             TypeOK
    <2>3. \A d \in Conns \ {c} : output'[d] = output[d]
      BY DEF Worker, ReadRequest, ReadEnd, ReadTimeout, Lock, Handle, Panic, Write, Leave,
             Refuse, Answered, TypeOK
    <2>4. QED BY <2>1, <2>2, <2>3
  <1>3. TaleOf(c)'
    <2>1. CASE ReadRequest(c)
      BY <1>1, <2>1 DEF ReadRequest, Refuse, To, TypeOK, TaleOf
    <2>2. CASE ReadEnd(c)
      BY <1>1, <2>2 DEF ReadEnd, To, TypeOK, TaleOf
    <2>3. CASE ReadTimeout(c)
      BY <1>1, <2>3 DEF ReadTimeout, Refuse, To, TypeOK, TaleOf
    <2>4. CASE Lock(c)
      BY <1>1, <2>4 DEF Lock, To, TypeOK, TaleOf
    <2>5. CASE Handle(c)
      BY <1>1, <2>5 DEF Handle, To, TypeOK, TaleOf
    <2>6. CASE Panic(c)
      BY <1>1, <2>6 DEF Panic, To, TypeOK, TaleOf
    <2>7. CASE Write(c)
      <3>1. phase[c] = "writing" /\ owed[c] = 1 /\ output[c] # "refusal"
        BY <1>1, <2>7 DEF Write, TaleOf
      <3>2. CASE Answered(c)
        BY <3>1, <3>2 DEF Answered, To, TypeOK, TaleOf
      <3>3. CASE UNCHANGED <<output, owed>> /\ To(c, "leaving")
        BY <3>1, <3>3 DEF To, TypeOK, TaleOf
      <3>4. QED BY <2>7, <3>2, <3>3 DEF Write
    <2>8. CASE Leave(c)
      BY <1>1, <2>8 DEF Leave, To, TypeOK, TaleOf
    <2>9. QED BY <2>1, <2>2, <2>3, <2>4, <2>5, <2>6, <2>7, <2>8 DEF Worker
  <1>4. \A d \in Conns \ {c} : TaleOf(d)'
    BY <1>2, SameTale DEF Tale
  <1>5. QED BY <1>3, <1>4 DEF Tale

LEMMA NextTale ==
  ASSUME TypeOK, QueueExact, Tale, [Next]_vars
  PROVE  Tale'
  <1>1. ASSUME NEW c \in Conns, Connect(c) PROVE Tale'
    <2>1. output' = output /\ owed' = owed /\ phase[c] = "none" /\ phase' = [phase EXCEPT ![c] = "queued"]
      BY <1>1 DEF Connect
    <2>2. TaleOf(c)'
      BY <2>1 DEF Tale, TaleOf, TypeOK
    <2>3. \A d \in Conns \ {c} : TaleOf(d)'
      BY <2>1, SameTale DEF Tale, TypeOK
    <2>4. QED BY <2>2, <2>3 DEF Tale
  <1>2. ASSUME NEW c \in Conns, Send(c) \/ HangUp(c) PROVE Tale'
    BY <1>2, SameTale DEF Send, HangUp, workers, Tale
  <1>3. ASSUME NEW c \in Conns, Worker(c) PROVE Tale'
    BY <1>3, WorkerTale
  <1>4. CASE Signal \/ SeeSignal
    BY <1>4, SameTale DEF Signal, SeeSignal, workers, Tale
  <1>5. CASE Accept
    <2>1. PICK c \in Conns : c = Head(backlog) /\ phase[c] = "queued"
      BY <1>5, HeadOfBacklog DEF Accept, QueueExact
    <2>2. /\ phase' \in {[phase EXCEPT ![c] = "reading"], [phase EXCEPT ![c] = "closed"]}
          /\ output' \in {output, [output EXCEPT ![c] = "refusal"]}
          /\ phase'[c] = "reading" => output' = output
          /\ owed' = owed
      BY <1>5, <2>1 DEF Accept, TypeOK
    <2>3. TaleOf(c)'
      BY <2>1, <2>2 DEF Tale, TaleOf, TypeOK
    <2>4. \A d \in Conns \ {c} : TaleOf(d)'
      BY <2>2, SameTale DEF Tale, TypeOK
    <2>5. QED BY <2>3, <2>4 DEF Tale
  <1>6. CASE AcceptFails \/ Return
    <2>1. output' = output /\ owed' = owed
      BY <1>6 DEF AcceptFails, Return
    <2>2. \A c \in Conns : phase'[c] = phase[c] \/ phase'[c] = "closed"
      BY <1>6 DEF AcceptFails, Return
    <2>3. QED BY <2>1, <2>2 DEF Tale, TaleOf
  <1>7. CASE UNCHANGED vars
    BY <1>7, SameTale DEF vars, workers, Tale
  <1>8. QED
    BY <1>1, <1>2, <1>3, <1>4, <1>5, <1>6, <1>7 DEF Next

-----------------------------------------------------------------------------
(* The theorems rest on one invariant.                                       *)

Exact == TypeOK /\ Tale /\ QueueExact /\ SlotsExact

LEMMA NextExact == Exact /\ [Next]_vars => Exact'
  BY NextType, NextQueue, NextSlots, NextTale DEF Exact

(* TypeOK, and SlotsExact: the connection counter of                         *)
(* serve_listener_with_limits equals the number of held and panicked         *)
(* connections.  The counter's type rests on it, since giving a slot back    *)
(* subtracts one.                                                            *)
THEOREM SlotsNeverLeak == Spec => [](TypeOK /\ SlotsExact)
  <1>1. Init => Exact
    BY Starts DEF Exact
  <1>2. Exact => TypeOK /\ SlotsExact
    BY DEF Exact
  <1>3. QED BY <1>1, <1>2, NextExact, PTL DEF Spec

(* RefusedUnhandled: serve_connection reads and writes nothing after a 400,  *)
(* 408 or 503, and every request handled before it has been answered.        *)
THEOREM RefusalsAreClean == Spec => []RefusedUnhandled
  <1>1. Init => Exact
    BY Starts DEF Exact
  <1>2. Exact => RefusedUnhandled
    BY DEF Exact, Tale, TaleOf, RefusedUnhandled, TypeOK, Held
  <1>3. QED BY <1>1, <1>2, NextExact, PTL DEF Spec
===============================================================================
