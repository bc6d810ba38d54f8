------------------------------ MODULE EvidenceLog ------------------------------
(* EvidenceStore.append and list (opsswarm/evidence.py) on the JSONL file of  *)
(* one run.  The stores of several processes write to it, one at a time: an   *)
(* append holds the process lock over reload, duplicate check and write.  A   *)
(* write may stop half way (a full disk, a crash) and leave a line that is    *)
(* torn or lacks its newline; the kernel frees the lock of a dead process.    *)
EXTENDS Naturals, FiniteSets, Sequences

CONSTANTS
  Stores,        \* EvidenceStore objects, one per process
  Payloads,      \* what callers append: [kind, fields: field name -> value]
  NoStore, NoPayload,
  MayTear,       \* whether a write may stop half way
  MaxAppends     \* bound on the calls of append

(* SIGNATURE_KEY_FIELDS, of the kinds the instances use.  A kind that is not  *)
(* in it is signed by every field that is not volatile.                       *)
KeyFields == [plan |-> {"option_ids"}, finding |-> {"task_id", "finding"}]
Volatile == {"timestamp", "eid", "id", "run_id"}

Signature(p) ==
  LET fields == DOMAIN p.fields
      key == IF p.kind \in DOMAIN KeyFields THEN KeyFields[p.kind] \cap fields
             ELSE fields \ Volatile
  IN  [kind |-> p.kind, fields |-> [f \in key |-> p.fields[f]]]

Signatures == {Signature(p) : p \in Payloads}

ASSUME EvidenceConstants ==
  NoStore \notin Stores /\ NoPayload \notin Payloads /\ MayTear \in BOOLEAN
  /\ MaxAppends \in Nat

VARIABLES
  lines,     \* the file: records and torn lines
  unended,   \* the last line has no newline yet
  holder,    \* the store that holds <run>.lock
  store,     \* [Stores -> pc, payload of the append, _index, _last_signature]
  acked,     \* payloads whose append has returned an evidence id
  appends
vars == <<lines, unended, holder, store, acked, appends>>

Torn == [torn |-> TRUE]
\* A chain signature hashes the payload signature with the one before it: here
\* it is the sequence of the payload signatures up to the record.
Record(p, prev) == [torn |-> FALSE, payload |-> p, chain |-> Append(prev, Signature(p))]

IsRecord(line) == ~line.torn
\* Where the records are that list returns and _load_existing_signatures indexes.
Listed == {i \in DOMAIN lines : IsRecord(lines[i])}
Indexed == {Signature(lines[i].payload) : i \in Listed}
\* The chain signature of the last record before line n.
ChainBefore(n) ==
  LET before == {i \in Listed : i < n}
  IN  IF before = {} THEN <<>> ELSE lines[CHOOSE i \in before : \A j \in before : j <= i].chain
LastChain == ChainBefore(Len(lines) + 1)

FreshStore == [pc |-> "idle", payload |-> NoPayload, index |-> {}, last |-> <<>>]

TypeOK ==
  /\ \A i \in DOMAIN lines : lines[i].torn \in BOOLEAN /\
       (IsRecord(lines[i]) => lines[i].payload \in Payloads)
  /\ unended \in BOOLEAN /\ (unended => lines # <<>>)
  /\ holder \in Stores \cup {NoStore}
  /\ \A s \in Stores :
       /\ store[s].pc \in {"idle", "waiting", "loaded", "dead"}
       /\ store[s].pc = "loaded" <=> holder = s
       /\ store[s].index \subseteq Signatures
  /\ acked \subseteq Payloads /\ appends \in 0..MaxAppends

Init ==
  /\ lines = <<>> /\ unended = FALSE /\ holder = NoStore
  /\ store = [s \in Stores |-> FreshStore] /\ acked = {} /\ appends = 0

(* --------------------------------- append --------------------------------- *)

Call(s, p) ==
  /\ store[s].pc = "idle" /\ appends < MaxAppends /\ appends' = appends + 1
  /\ store' = [store EXCEPT ![s].pc = "waiting", ![s].payload = p]
  /\ UNCHANGED <<lines, unended, holder, acked>>

LockFreeBug == TRUE
LockFree == holder = NoStore

\* A store that has read the file before trusts what it remembers.
LoadedBug(s) ==
  IF store[s].last # <<>> THEN store[s] ELSE [store[s] EXCEPT !.index = Indexed, !.last = LastChain]
\* The index is refreshed from disk under the lock, at every append.
Loaded(s) == [store[s] EXCEPT !.index = Indexed, !.last = LastChain]

AcquireAndLoad(s) ==
  /\ store[s].pc = "waiting" /\ LockFree /\ holder' = s
  /\ store' = [store EXCEPT ![s] = [Loaded(s) EXCEPT !.pc = "loaded"]]
  /\ UNCHANGED <<lines, unended, acked, appends>>

\* lock_timeout_seconds pass while another process holds the lock.
TimeOut(s) ==
  /\ store[s].pc = "waiting" /\ holder # NoStore
  /\ store' = [store EXCEPT ![s].pc = "idle", ![s].payload = NoPayload]
  /\ UNCHANGED <<lines, unended, holder, acked, appends>>

\* A form named ...Bug is what a check must notice: here the file opened anew.
GrownBug(line) == <<line>>
\* The file after a line is appended to it: a line that lacks its newline takes
\* up what is written next, and the two are no JSON together.
Grown(line) ==
  IF unended THEN [lines EXCEPT ![Len(lines)] = Torn] ELSE Append(lines, line)

Return(s, rec) ==
  /\ holder' = NoStore
  /\ store' = [store EXCEPT ![s] = [rec EXCEPT !.pc = "idle", !.payload = NoPayload]]

SeenBug(s, p) == FALSE
Seen(s, p) == Signature(p) \in store[s].index

SkipDuplicate(s) ==
  /\ store[s].pc = "loaded" /\ Seen(s, store[s].payload) /\ Return(s, store[s])
  /\ UNCHANGED <<lines, unended, acked, appends>>

Write(s) ==
  LET p == store[s].payload
      rec == Record(p, store[s].last)
  IN  /\ store[s].pc = "loaded" /\ ~Seen(s, p)
      /\ lines' = Grown(rec) /\ unended' = FALSE
      /\ Return(s, [store[s] EXCEPT !.index = @ \cup {Signature(p)}, !.last = rec.chain])
      /\ acked' = acked \cup {p} /\ UNCHANGED appends

\* What a write that does not succeed leaves: nothing, the whole line (fsync
\* failed), a part of it, or all of it but the newline.
HalfWritten(s) ==
  \/ UNCHANGED <<lines, unended>>
  \/ lines' = Grown(Record(store[s].payload, store[s].last)) /\ unended' = FALSE
  \/ /\ MayTear /\ unended' = TRUE
     /\ \/ lines' = Grown(Torn)
        \/ lines' = Grown(Record(store[s].payload, store[s].last))

\* OSError: the indexes stay as they were, the caller may try again.
WriteFails(s) ==
  /\ store[s].pc = "loaded" /\ ~Seen(s, store[s].payload)
  /\ HalfWritten(s) /\ Return(s, store[s])
  /\ UNCHANGED <<acked, appends>>

\* The process dies, before the lock, in the write or right after it.
Die(s) ==
  /\ store[s].pc \in {"idle", "waiting", "loaded"}
  /\ \/ UNCHANGED <<lines, unended>>
     \/ store[s].pc = "loaded" /\ ~Seen(s, store[s].payload) /\ HalfWritten(s)
  /\ holder' = IF holder = s THEN NoStore ELSE holder
  /\ store' = [store EXCEPT ![s] = [FreshStore EXCEPT !.pc = "dead"]]
  /\ UNCHANGED <<acked, appends>>

Restart(s) ==
  /\ store[s].pc = "dead" /\ store' = [store EXCEPT ![s] = FreshStore]
  /\ UNCHANGED <<lines, unended, holder, acked, appends>>

Next ==
  \E s \in Stores :
    \/ \E p \in Payloads : Call(s, p)
    \/ AcquireAndLoad(s) \/ TimeOut(s) \/ SkipDuplicate(s) \/ Write(s)
    \/ WriteFails(s) \/ Die(s) \/ Restart(s)

Spec == Init /\ [][Next]_vars

(* -------------------------------- properties ------------------------------ *)

\* What verify reports: lines it cannot read, and records that are not signed
\* over the one before them.
TornLines == DOMAIN lines \ Listed
Broken ==
  {i \in Listed : lines[i].chain # Append(ChainBefore(i), Signature(lines[i].payload))}

\* Neither list nor the reload of an append ever raises MalformedEvidenceError:
\* whatever processes write, fail and die, the records that can be read form
\* one chain, each signed over the one before it.
ChainIntact == Broken = {}

\* No payload signature is in the log twice: a retry after a failed write, from
\* whichever process, adds nothing that is there already.
NoDuplicates ==
  \A i, j \in Listed : Signature(lines[i].payload) = Signature(lines[j].payload) => i = j

\* Every acknowledged record that is missing from the log was joined to a torn
\* line, and a torn line takes one record with it at most.
Missing == {p \in acked : \A i \in Listed : lines[i].payload # p}
TornTakesOne == Cardinality(Missing) <= Cardinality(TornLines)

\* The file as the promise sees it: the last chain signature lists the signatures of
\* the records, and a torn line is spent once nothing will be added to it.
OpenTail ==
  IF ~unended THEN "ended" ELSE IF IsRecord(lines[Len(lines)]) THEN "record" ELSE "torn"
SpentLines == TornLines \ (IF unended THEN {Len(lines)} ELSE {})
Ledger == INSTANCE EvidenceLedger WITH
  Entries <- Signatures, log <- LastChain, tail <- OpenTail,
  spent <- Cardinality(SpentLines), answered <- {Signature(p) : p \in acked}

\* The stores keep the promise of the ledger: each step of a process, its failures, its
\* death and its restart included, adds one new signature at the end, tears the tail, joins
\* what is written to an open tail, or leaves the log as it is.
Ledgered == Ledger!Spec

===============================================================================
