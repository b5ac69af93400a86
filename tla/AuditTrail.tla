------------------------------ MODULE AuditTrail ------------------------------
(***************************************************************************)
(* The server's hash-chained audit log (mcp-server/src/audit-log.js), its  *)
(* rotation, and the anchoring of its tail on chain                        *)
(* (mcp-server/src/audit-anchor.js, contracts/solidity/src/                *)
(* AuditAnchor.sol).  A log entry is written synchronously, so it is one   *)
(* action with the ways its file operations can fail.  The anchor service  *)
(* ticks on a timer and awaits the chain; a tick that outlasts the         *)
(* interval overlaps the next one, so its steps are actions.               *)
(*                                                                         *)
(* Abstractions.  The hash of a record is a number no other record has;    *)
(* file sizes are counted in lines; a missing file is an empty one.        *)
(***************************************************************************)
EXTENDS Integers, Sequences

CONSTANTS
    MaxLines,     \* AUDIT_LOG_MAX_BYTES: a volume with this many lines is rotated
    Rotations,    \* how far a rotation can get: see Volumes
    LineOutcomes, \* what can become of a line: see RecordAudit
    Ticks,        \* ticks of the anchor service that may overlap
    Restarts,     \* whether the process may stop and start
    Edits,        \* whether lines of the log may be altered in place
    MaxHash,      \* bound: records and altered lines in a behaviour
    MaxAnchors    \* bound: anchors in a behaviour

ASSUME TrailAssumption ==
    /\ MaxLines \in Nat \ {0}
    /\ Rotations \subseteq {"none", "removed", "renamed"}
    /\ LineOutcomes \subseteq {"written", "lost", "died"}
    /\ Restarts \in BOOLEAN
    /\ Edits \in BOOLEAN
    /\ MaxHash \in Nat
    /\ MaxAnchors \in Nat

VARIABLES
    chainLastHash, chainInitialized,   \* the writer's memory; 0 stands for null
    current, old,                      \* the audit file and its .1 volume
    hashes,                            \* how many hashes were ever computed
    anchors,                           \* AuditAnchor: append-only
    sent,                              \* anchor transactions not mined yet
    lastAnchored,                      \* the service's memory of its last anchor
    ticks,                             \* the state of each tick
    lost,                              \* hashes of records that never reached the file
    dropped,                           \* lines that were rotated out
    edited,                            \* some line was altered
    contradicted,                      \* anchors that commit to a line altered after them
    disturbed                          \* a call to the chain failed, ticks overlapped, or
                                       \* the process stopped with a transaction out

writer == <<chainLastHash, chainInitialized>>
files == <<current, old>>
chain == <<anchors, sent>>
service == <<lastAnchored, ticks>>
auditHistory == <<lost, dropped, edited, contradicted, disturbed>>
auditVars == <<writer, files, hashes, chain, service, auditHistory>>

Line == [hash: 1..MaxHash, prev: 0..MaxHash]

Anchor == [tail: 1..MaxHash, count: Nat]

None == [tail |-> 0, count |-> 0]

Idle == [step |-> "idle", seen |-> None, known |-> None, place |-> 0]

AuditInit ==
    /\ chainLastHash = 0
    /\ chainInitialized = FALSE
    /\ current = <<>>
    /\ old = <<>>
    /\ hashes = 0
    /\ anchors = <<>>
    /\ sent = <<>>
    /\ lastAnchored = None
    /\ ticks = [t \in Ticks |-> Idle]
    /\ lost = {}
    /\ dropped = 0
    /\ edited = FALSE
    /\ contradicted = {}
    /\ disturbed = FALSE

TailHash(lines) == IF lines = <<>> THEN 0 ELSE lines[Len(lines)].hash

-----------------------------------------------------------------------------
(* recordAudit. *)

\* Mutant: the chain starts anew in every process.
ChainHeadForgotten == chainLastHash

\* ensureChainInitialized: the first record of a process continues the file.
ChainHead == IF chainInitialized THEN chainLastHash ELSE TailHash(current)

\* maybeRotate removes the .1 volume, then renames the current one to it.  Each
\* may fail, which is ignored, or be where the process stops.
Volumes(rotation) ==
    IF Len(current) < MaxLines \/ rotation = "none" THEN [old |-> old, current |-> current]
    ELSE IF rotation = "removed" THEN [old |-> <<>>, current |-> current]
    ELSE [old |-> current, current |-> <<>>]

\* What a process takes with it.
Stop ==
    /\ chainLastHash' = 0
    /\ chainInitialized' = FALSE
    /\ lastAnchored' = None
    /\ ticks' = [t \in Ticks |-> Idle]
    /\ disturbed' = (disturbed \/ sent # <<>>)

\* The head moves on before the line is written, and whether or not it is.
RecordAudit(rotation, outcome) ==
    LET record == [hash |-> hashes + 1, prev |-> ChainHead]
        volumes == Volumes(rotation)
    IN  /\ hashes < MaxHash
        /\ hashes' = record.hash
        /\ old' = volumes.old
        /\ dropped' = dropped + (Len(old) + Len(current)) - (Len(volumes.old) + Len(volumes.current))
        /\ \/ /\ outcome = "written"
              /\ current' = Append(volumes.current, record)
              /\ UNCHANGED lost
           \/ /\ outcome \in {"lost", "died"}
              /\ current' = volumes.current
              /\ lost' = lost \cup {record.hash}
        /\ \/ /\ outcome # "died"
              /\ chainInitialized' = TRUE
              /\ chainLastHash' = record.hash
              /\ UNCHANGED <<service, disturbed>>
           \/ outcome = "died" /\ Stop
        /\ UNCHANGED <<chain, edited, contradicted>>

\* A process that stops between records, and the next one.
StopAndStart ==
    /\ Restarts
    /\ chainInitialized \/ lastAnchored # None \/ \E t \in Ticks : ticks[t] # Idle
    /\ Stop
    /\ UNCHANGED <<files, hashes, chain, lost, dropped, edited, contradicted>>

-----------------------------------------------------------------------------
(* Reading the trail back. *)

\* replayAuditTrail: the .1 volume first.
Trail == old \o current

Broken(i) == Trail[i + 1].prev # Trail[i].hash

Intact == \A i \in 1..(Len(Trail) - 1) : ~Broken(i)

\* Mutant: an anchor that covers every line of the trail is not compared.
ContradictsShorter(a) == a.count < Len(Trail) /\ Trail[a.count].hash # a.tail

\* An anchor that covers more lines than there are is taken as dropped.
Contradicts(a) == a.count <= Len(Trail) /\ Trail[a.count].hash # a.tail

\* verifyAuditAgainstAnchors.
Verified == Intact /\ \A i \in DOMAIN anchors : ~Contradicts(anchors[i])

\* Line k is altered and every hash from it on recomputed, as its own file
\* allows; the writer's memory does not know.
EditLine(k) ==
    LET n == Len(Trail)
        altered == [i \in 1..n |->
            IF i < k THEN Trail[i]
            ELSE [hash |-> hashes + (i - k) + 1,
                  prev |-> IF i = k THEN Trail[k].prev ELSE hashes + (i - k)]]
    IN  /\ Edits
        /\ Intact
        /\ hashes + (n - k) + 1 <= MaxHash
        /\ hashes' = hashes + (n - k) + 1
        /\ old' = SubSeq(altered, 1, Len(old))
        /\ current' = SubSeq(altered, Len(old) + 1, n)
        /\ edited' = TRUE
        /\ contradicted' = contradicted \cup {i \in DOMAIN anchors : anchors[i].count \in k..n}
        /\ UNCHANGED <<writer, chain, service, lost, dropped, disturbed>>

-----------------------------------------------------------------------------
(* The anchor service. *)

TailNow == [tail |-> TailHash(Trail), count |-> Len(Trail)]

Latest == IF anchors = <<>> THEN None ELSE anchors[Len(anchors)]

\* A broken trail is refused, an empty one skipped.
Anchorable == Trail # <<>> /\ Intact

\* An intact trail that is not the one anchored last; any other ends the tick.
TickStarts(t) ==
    /\ ticks[t] = Idle
    /\ Anchorable
    /\ lastAnchored = None \/ lastAnchored # TailNow
    /\ ticks' = [ticks EXCEPT ![t] = [step |-> "connected", seen |-> TailNow, known |-> None, place |-> 0]]
    /\ disturbed' = (disturbed \/ \E other \in Ticks : ticks[other] # Idle)
    /\ UNCHANGED <<writer, files, hashes, chain, lastAnchored, lost, dropped, edited, contradicted>>

\* The first tick of a process asks latest(), whose failure is ignored.
TickAsks(t) ==
    /\ ticks[t].step = "connected"
    /\ lastAnchored = None
    /\ \/ ticks' = [ticks EXCEPT ![t].step = "asked", ![t].known = Latest] /\ UNCHANGED disturbed
       \/ ticks' = [ticks EXCEPT ![t].step = "asked"] /\ disturbed' = TRUE
    /\ UNCHANGED <<writer, files, hashes, chain, lastAnchored, lost, dropped, edited, contradicted>>

Aligned(tick) == tick.known = tick.seen

TickAligns(t) ==
    /\ ticks[t].step = "asked"
    /\ Aligned(ticks[t])
    /\ lastAnchored' = ticks[t].seen
    /\ ticks' = [ticks EXCEPT ![t] = Idle]
    /\ UNCHANGED <<writer, files, hashes, chain, auditHistory>>

TickSends(t) ==
    /\ \/ ticks[t].step = "connected" /\ lastAnchored # None
       \/ ticks[t].step = "asked" /\ ~Aligned(ticks[t])
    /\ Len(anchors) + Len(sent) < MaxAnchors
    /\ sent' = Append(sent, ticks[t].seen)
    /\ ticks' = [ticks EXCEPT ![t].step = "waiting", ![t].place = Len(anchors) + Len(sent) + 1]
    /\ UNCHANGED <<writer, files, hashes, anchors, lastAnchored, auditHistory>>

\* AuditAnchor.anchor: the transactions of one signer are mined in order.
Mine ==
    /\ sent # <<>>
    /\ anchors' = Append(anchors, Head(sent))
    /\ sent' = Tail(sent)
    /\ UNCHANGED <<writer, files, hashes, service, auditHistory>>

TickConfirmed(t) ==
    /\ ticks[t].step = "waiting"
    /\ ticks[t].place <= Len(anchors)
    /\ lastAnchored' = ticks[t].seen
    /\ ticks' = [ticks EXCEPT ![t] = Idle]
    /\ UNCHANGED <<writer, files, hashes, chain, auditHistory>>

\* The broadcast fails, or the wait for a transaction that may yet be mined.
TickFails(t) ==
    /\ ticks[t] # Idle
    /\ ticks' = [ticks EXCEPT ![t] = Idle]
    /\ disturbed' = TRUE
    /\ UNCHANGED <<writer, files, hashes, chain, lastAnchored, lost, dropped, edited, contradicted>>

AnchorTick(t) ==
    \/ TickStarts(t) \/ TickAsks(t) \/ TickAligns(t)
    \/ TickSends(t) \/ TickConfirmed(t) \/ TickFails(t)

AuditNext ==
    \/ \E rotation \in Rotations, outcome \in LineOutcomes : RecordAudit(rotation, outcome)
    \/ StopAndStart
    \/ \E k \in DOMAIN Trail : EditLine(k)
    \/ \E t \in Ticks : AnchorTick(t)
    \/ Mine

AuditSpec == AuditInit /\ [][AuditNext]_auditVars

-----------------------------------------------------------------------------
(* Properties. *)

\* Every variable keeps its type; in particular no anchor covers nothing.
AuditTypeOK ==
    /\ chainLastHash \in 0..hashes
    /\ chainInitialized \in BOOLEAN
    /\ current \in Seq(Line)
    /\ old \in Seq(Line)
    /\ hashes \in 0..MaxHash
    /\ anchors \in Seq(Anchor)
    /\ sent \in Seq(Anchor)
    /\ lastAnchored \in Anchor \cup {None}
    /\ ticks \in [Ticks -> [step: {"idle", "connected", "asked", "waiting"},
                            seen: Anchor \cup {None}, known: Anchor \cup {None}, place: Nat]]
    /\ lost \subseteq 1..hashes
    /\ dropped \in Nat
    /\ edited \in BOOLEAN
    /\ contradicted \subseteq DOMAIN anchors
    /\ disturbed \in BOOLEAN

\* The chain is broken only where a record was lost: neither a rotation nor a
\* restart breaks it on its own (the record that follows the last good line
\* is one that could not be written).
BreakMeansLoss == ~edited => \A i \in 1..(Len(Trail) - 1) : Broken(i) => Trail[i].hash + 1 \in lost

\* As long as no line was rotated out, an unaltered trail never contradicts an
\* anchor, whatever was lost, restarted or anchored twice.
NoFalseAlarm == ~edited /\ dropped = 0 => \A i \in DOMAIN anchors : ~Contradicts(anchors[i])

\* As long as no line was rotated out, altering a line that an anchor commits
\* to is noticed by every later verification, recomputed hashes or not.
EditIsNoticed == contradicted # {} /\ dropped = 0 => ~Verified

\* Unless a call to the chain failed, ticks overlapped or the process stopped
\* with a transaction out, no two anchors in a row say the same: a restart
\* alone anchors nothing twice.
NoIdleAnchor == ~disturbed => \A i \in 1..(Len(anchors) - 1) : anchors[i] # anchors[i + 1]

\* The anchors on chain tell an altered trail from an unaltered one as long as
\* no volume was dropped, and are not repeated without need.
AnchorsTellEdits == AuditTypeOK /\ NoFalseAlarm /\ EditIsNoticed /\ NoIdleAnchor

\* What audit-anchor.js:126-128 says: the comparison by position reports
\* tampering and stays valid under rotation.
NoFalseAlarmUnderRotation == ~edited /\ Intact => Verified
=============================================================================
