------------------------------ MODULE IpcStats ------------------------------
(***************************************************************************)
(* Responses of the C++ worker to its Consumer (consumer/ipc part_001):   *)
(* the one goroutine that reads the socket decodes each Response frame    *)
(* (parseWorkerResponse) and routeResponse stores its message in a field  *)
(* of the Consumer.  The stats fields are read concurrently by HTTP admin *)
(* handlers, which take statsRWMutex shared (spec 4.5 and 5).             *)
(*                                                                         *)
(* A field is a few machine words.  json.Unmarshal first validates the    *)
(* whole message and then writes the decoded fields in place one by one;  *)
(* a Go string assignment writes its pointer and its length.  Each word   *)
(* written or read is one step, so a reader that runs between two writes  *)
(* sees a mixture.  A message carries one value in all of its words.      *)
(***************************************************************************)
EXTENDS Naturals, FiniteSets, TLC

CONSTANTS
    Readers,        \* concurrent admin handlers reading the stats
    ReadFields,     \* Consumer fields the admin handlers read
    NumWords,       \* words of a field
    Vals,           \* values a message may carry (not 0)
    InMsgTypes,     \* msgType values the worker sends
    InOpcodes,      \* opcode values the worker sends
    MaxResponses,   \* bound on the responses routed
    Invalid         \* a message that fails json.Unmarshal's validation

ASSUME NumWords >= 1 /\ 0 \notin Vals /\ Invalid \notin Vals /\ MaxResponses \in Nat

\* Response message types and opcodes (the iota constants).
respV8WorkerConfig == 1
sourceMap      == 1
handlerCode    == 2
appLogMessage  == 3
sysLogMessage  == 4
latencyStats   == 5
failureStats   == 6
executionStats == 7
compileInfo    == 8
queueSize      == 9
lcbExceptions  == 10

\* The Consumer field each routed opcode is stored in.
StatsField == sourceMap :> "sourceMap" @@ handlerCode :> "handlerCode"
              @@ latencyStats :> "latencyStats" @@ failureStats :> "failureStats"
              @@ executionStats :> "executionStats" @@ compileInfo :> "compileInfo"
              @@ queueSize :> "cppWorkerAggQueueSize" @@ lcbExceptions :> "lcbExceptionStats"

\* Opcodes whose message is a JSON document decoded with json.Unmarshal.
UnmarshalOpcodes == {latencyStats, failureStats, executionStats, compileInfo,
                     queueSize, lcbExceptions}

Words  == 1..NumWords
Fields == {StatsField[o] : o \in InOpcodes \cap DOMAIN StatsField}
Zero   == [w \in Words |-> 0]

VARIABLES
    field,       \* Consumer field -> its words
    wpc,         \* the socket reader: idle | lock | decode
    wop,         \* opcode of the response being routed
    wmsg,        \* its message
    wnext,       \* next word it writes
    writerHeld,  \* statsRWMutex held exclusively
    readersHeld, \* readers holding statsRWMutex shared
    routed,      \* responses routed so far
    rpc,         \* reader -> idle | read | done
    rfield,      \* reader -> field it reads
    rnext,       \* reader -> next word it reads
    rsnap        \* reader -> words it has read

vars == <<field, wpc, wop, wmsg, wnext, writerHeld, readersHeld, routed,
          rpc, rfield, rnext, rsnap>>
readerVars == <<rpc, rfield, rnext, rsnap>>

Init ==
    /\ field = [f \in Fields |-> Zero]
    /\ wpc = "idle" /\ wop = 0 /\ wmsg = 0 /\ wnext = 1
    /\ writerHeld = FALSE /\ readersHeld = {}
    /\ routed = 0
    /\ rpc = [r \in Readers |-> "idle"]
    /\ rfield = [r \in Readers |-> CHOOSE f \in ReadFields : TRUE]
    /\ rnext = [r \in Readers |-> 1]
    /\ rsnap = [r \in Readers |-> Zero]

-----------------------------------------------------------------------------
(* routeResponse                                                           *)

\* Mutant: the latencyStats case decodes without taking the lock.
TakesStatsLock_latencyUnlocked(o) == o \in {failureStats, executionStats, lcbExceptions}

\* Mutant: the latencyStats case has no deferred Unlock.
ReleasesStatsLock_missingDefer(o) == o \in {failureStats, executionStats, lcbExceptions}

\* The cases that take c.statsRWMutex.Lock() ...
TakesStatsLock(o) == o \in {latencyStats, failureStats, executionStats, lcbExceptions}

\* ... and release it by the deferred Unlock when routeResponse returns.
ReleasesStatsLock(o) == o \in {latencyStats, failureStats, executionStats, lcbExceptions}

\* A frame whose msgType or opcode routeResponse has no case for
\* (appLogMessage and sysLogMessage included) changes nothing.
RouteIgnored(t, o) ==
    /\ wpc = "idle" /\ routed < MaxResponses
    /\ t # respV8WorkerConfig \/ o \notin DOMAIN StatsField
    /\ routed' = routed + 1
    /\ UNCHANGED <<field, wpc, wop, wmsg, wnext, writerHeld, readersHeld, readerVars>>

\* sourceMap and handlerCode: the message string is assigned to the field.
RouteAssign(o, m) ==
    /\ wpc = "idle" /\ routed < MaxResponses
    /\ o \in {sourceMap, handlerCode}
    /\ routed' = routed + 1
    /\ wpc' = "decode" /\ wop' = o /\ wmsg' = m /\ wnext' = 1
    /\ UNCHANGED <<field, writerHeld, readersHeld, readerVars>>

\* A JSON stats message: the lock is requested first where the case takes
\* it; without the lock an invalid message is rejected by json.Unmarshal
\* before any write (the error is logged).
RouteUnmarshal(o, m) ==
    /\ wpc = "idle" /\ routed < MaxResponses
    /\ o \in UnmarshalOpcodes
    /\ routed' = routed + 1
    /\ wop' = o /\ wmsg' = m /\ wnext' = 1
    /\ wpc' = IF TakesStatsLock(o) THEN "lock"
              ELSE IF m = Invalid THEN "idle" ELSE "decode"
    /\ UNCHANGED <<field, writerHeld, readersHeld, readerVars>>

\* statsRWMutex.Lock(): granted once no reader holds the lock; then
\* json.Unmarshal runs, and an invalid message returns (and unlocks) at once.
StatsLock ==
    /\ wpc = "lock"
    /\ ~writerHeld /\ readersHeld = {}
    /\ IF wmsg = Invalid
       THEN /\ wpc' = "idle"
            /\ writerHeld' = ~ReleasesStatsLock(wop)
       ELSE /\ wpc' = "decode"
            /\ writerHeld' = TRUE
    /\ UNCHANGED <<field, wop, wmsg, wnext, readersHeld, routed, readerVars>>

\* One word of the field is written; after the last one routeResponse
\* returns and the deferred Unlock runs.
WriteWord ==
    /\ wpc = "decode"
    /\ field' = [field EXCEPT ![StatsField[wop]][wnext] = wmsg]
    /\ IF wnext = NumWords
       THEN /\ wpc' = "idle" /\ wnext' = 1
            /\ writerHeld' = (writerHeld /\ ~ReleasesStatsLock(wop))
       ELSE /\ wnext' = wnext + 1
            /\ UNCHANGED <<wpc, writerHeld>>
    /\ UNCHANGED <<wop, wmsg, readersHeld, routed, readerVars>>

-----------------------------------------------------------------------------
(* An admin handler reading a field under statsRWMutex.RLock().  RLock     *)
(* waits while the lock is held or a writer waits for it.                  *)

RLock(r, f) ==
    /\ rpc[r] = "idle"
    /\ ~writerHeld /\ wpc # "lock"
    /\ readersHeld' = readersHeld \cup {r}
    /\ rpc' = [rpc EXCEPT ![r] = "read"]
    /\ rfield' = [rfield EXCEPT ![r] = f]
    /\ rnext' = [rnext EXCEPT ![r] = 1]
    /\ UNCHANGED <<field, wpc, wop, wmsg, wnext, writerHeld, routed, rsnap>>

\* One word is read; after the last one the reader unlocks.
ReadWord(r) ==
    /\ rpc[r] = "read"
    /\ rsnap' = [rsnap EXCEPT ![r][rnext[r]] = field[rfield[r]][rnext[r]]]
    /\ IF rnext[r] = NumWords
       THEN /\ rpc' = [rpc EXCEPT ![r] = "done"]
            /\ readersHeld' = readersHeld \ {r}
            /\ UNCHANGED rnext
       ELSE /\ rnext' = [rnext EXCEPT ![r] = @ + 1]
            /\ UNCHANGED <<rpc, readersHeld>>
    /\ UNCHANGED <<field, wpc, wop, wmsg, wnext, writerHeld, routed, rfield>>

\* The handler has answered with what it read.
ReadDone(r) ==
    /\ rpc[r] = "done"
    /\ rpc' = [rpc EXCEPT ![r] = "idle"]
    /\ UNCHANGED <<field, wpc, wop, wmsg, wnext, writerHeld, readersHeld, routed,
                   rfield, rnext, rsnap>>

-----------------------------------------------------------------------------
Messages == Vals \cup {Invalid}

Next ==
    \/ \E t \in InMsgTypes, o \in InOpcodes : RouteIgnored(t, o)
    \/ \E o \in InOpcodes \cap {sourceMap, handlerCode}, m \in Vals : RouteAssign(o, m)
    \/ \E o \in InOpcodes, m \in Messages : RouteUnmarshal(o, m)
    \/ StatsLock \/ WriteWord
    \/ \E r \in Readers : \/ \E f \in ReadFields \cap Fields : RLock(r, f)
                          \/ ReadWord(r) \/ ReadDone(r)

\* Goroutines are scheduled; a Lock request blocks new readers, so it is
\* granted once the readers inside have left.
Fairness ==
    /\ WF_vars(StatsLock \/ WriteWord)
    /\ \A r \in Readers : WF_vars(ReadWord(r) \/ ReadDone(r))

Spec == Init /\ [][Next]_vars
FairSpec == Spec /\ Fairness

-----------------------------------------------------------------------------
(* Properties.                                                             *)

\* An admin reader sees a consistent snapshot (spec 4.5): every field it
\* reads under the shared lock holds the words of one message that
\* routeResponse stored, never part of one and part of another.
StatsSnapshotsConsistent ==
    \A r \in Readers :
        rpc[r] = "done" => \E v \in Vals \cup {0} : rsnap[r] = [w \in Words |-> v]

\* The socket reader never stays blocked in routeResponse: every response
\* it starts to route is stored and the lock it took is released, however
\* the admin readers interleave.
ResponsesRouted == (wpc # "idle") ~> (wpc = "idle" /\ ~writerHeld)

=============================================================================
