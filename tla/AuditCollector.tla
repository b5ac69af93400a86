---------------------------- MODULE AuditCollector ----------------------------
(***************************************************************************)
(* The audit collector (mcp-server/src/audit-collector.js), which serves   *)
(* the two volumes of the audit log with a verdict on their hash chain     *)
(* (verifyAuditHashChain in audit-log.js), whole or from a cursor on, page *)
(* by page.  It keeps no state: an answer is a function of the files.      *)
(*                                                                         *)
(* Abstractions.  A cursor is the hash of a record; refused requests, torn *)
(* lines and reading errors are left out.  An altered line has its hash    *)
(* recomputed, as in AuditTrail, so only the chain can tell.               *)
(***************************************************************************)
EXTENDS AuditTrail, FiniteSetsExt

\* verifyAuditHashChain's anchor: 0 is null, for the start of a chain.
Continuation == -1

\* A volume that does not exist is not ok.
VerifyAuditHashChain(volume, anchor) ==
    LET Expected(i) ==
            IF i > 1 THEN volume[i - 1].hash
            ELSE IF anchor = Continuation THEN volume[1].prev ELSE anchor
        bad == {i \in DOMAIN volume : volume[i].prev # Expected(i)}
        ok == volume # <<>> /\ bad = {}
    IN  [ok |-> ok,
         verified |-> IF bad = {} THEN Len(volume) ELSE Min(bad) - 1,
         tailHash |-> IF ok THEN TailHash(volume) ELSE 0]

\* The second volume starts where the .1 volume ends.
AnyStart(tailHash) == Continuation
StartOfCurrent(tailHash) == tailHash

\* What came before the .1 volume may have been rotated out.
AuditFileStatus ==
    LET oldVol == VerifyAuditHashChain(old, Continuation)
        cur == VerifyAuditHashChain(current, StartOfCurrent(oldVol.tailHash))
    IN  IF old = <<>> THEN VerifyAuditHashChain(current, 0)
        ELSE IF ~oldVol.ok THEN oldVol
        ELSE [cur EXCEPT !.verified = @ + oldVol.verified]

ReadAllVolumes == Trail

\* Indexes count from one.
AfterFrom(all, idx) == SubSeq(all, idx, Len(all))
AfterThis(all, idx) == SubSeq(all, idx + 1, Len(all))

\* A cursor that is in no line gets all of them, to start over from.
EntriesAfter(afterHash) ==
    LET all == ReadAllVolumes
        at == {i \in DOMAIN all : all[i].hash = afterHash}
    IN  IF at = {} THEN [found |-> FALSE, entries |-> all]
        ELSE [found |-> TRUE, entries |-> AfterThis(all, Min(at))]

\* GET /entries with a cursor and a limit: the oldest lines first.
Page(afterHash, limit) ==
    LET r == EntriesAfter(afterHash)
        hasMore == Len(r.entries) > limit
        entries == IF hasMore THEN SubSeq(r.entries, 1, limit) ELSE r.entries
    IN  [stale |-> ~r.found,
         entries |-> entries,
         hasMore |-> hasMore,
         nextCursor |-> IF entries # <<>> THEN TailHash(entries)
                        ELSE IF r.found THEN afterHash ELSE 0]

-----------------------------------------------------------------------------
(* Properties. *)

\* The verdict and the replay of audit-anchor.js agree: a chain called good
\* has no break in any of its lines, across the volumes too, and every line
\* was verified; one called tampered has lost or altered records, unless the
\* .1 volume was removed and not replaced, or the current one is missing.
StatusAgreesWithReplay ==
    /\ AuditFileStatus.ok => Intact /\ AuditFileStatus.verified = Len(Trail)
    /\ ~edited /\ lost = {} /\ current # <<>> /\ (old # <<>> \/ dropped = 0)
         => AuditFileStatus.ok

\* Whoever resumes from a cursor gets, unless told that the cursor is stale,
\* every record written since, once and in order, in one answer or in pages;
\* and is told so when one of them was rotated out.
ResumedIsComplete ==
    \A cursor \in 1..hashes, limit \in 1..2 :
      LET page == Page(cursor, limit)
          since == EntriesAfter(cursor).entries
      IN  ~page.stale =>
            /\ page.entries \o EntriesAfter(page.nextCursor).entries = since
            /\ page.hasMore <=> EntriesAfter(page.nextCursor).entries # <<>>
            /\ \A i, j \in DOMAIN since : i < j => since[i].hash < since[j].hash
            /\ ~edited => {since[i].hash : i \in DOMAIN since} = (cursor + 1 .. hashes) \ lost
=============================================================================
