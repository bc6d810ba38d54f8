------------------------------- MODULE RunLease --------------------------------
(* The lease on a run, as opsswarm/ha_db.py offers it to instances that share  *)
(* PostgreSQL: acquire_run_lease, release_run_lease, check_instance_leases.    *)
(* A lease expires by the clock of the server; its expiry is computed by the   *)
(* clock of the instance, and NOW() is the time at which the transaction       *)
(* began, however long it has waited for the row since.                        *)
EXTENDS Integers, FiniteSets

CONSTANTS
  Instances, NoInstance,
  Ttl,        \* ttl_seconds
  Skew,       \* [Instances -> what the clock of the instance is ahead of the server's]
  MaxClock    \* bound on the clock

ASSUME LeaseConstants ==
  /\ IsFiniteSet(Instances) /\ NoInstance \notin Instances
  /\ Ttl \in Nat \ {0} /\ MaxClock \in Nat /\ Skew \in [Instances -> Int]

VARIABLES
  clock,     \* of the server
  known,     \* there is a row for the run in `runs`
  lease,     \* the row in `run_leases`: [owner, expires], NoLease if there is none
  session,   \* [Instances -> the transaction of the instance]
  holds      \* ghost: [Instances -> expiry of the lease it was told it has, or 0]
leaseVars == <<clock, known, lease, session, holds>>

NoLease == [owner |-> NoInstance, expires |-> 0]
NoSession == [stage |-> "none", op |-> "none", expires |-> 0, began |-> 0]
Called(op, expires) == [stage |-> "begin", op |-> op, expires |-> expires, began |-> 0]
Lease == [owner : Instances \cup {NoInstance}, expires : Int]
Session == [stage : {"none", "begin", "write", "commit", "reply"},
            op : {"none", "acquire", "release"}, expires : Int, began : Nat]

LeaseTypeOK ==
  /\ clock \in Nat /\ known \in BOOLEAN /\ lease \in Lease
  /\ session \in [Instances -> Session]
  /\ holds \in [Instances -> Int]

LeaseInit ==
  /\ clock = 0 /\ known = FALSE /\ lease = NoLease
  /\ session = [i \in Instances |-> NoSession] /\ holds = [i \in Instances |-> 0]

InstanceTime(i) == clock + Skew[i]

\* The row is locked from the write to the end of the transaction.
RowLocked == \E i \in Instances : session[i].stage = "commit"

(* ---------------------------- acquire_run_lease --------------------------- *)

\* The expiry is computed before a connection is waited for.
CallAcquire(i) ==
  /\ session[i].stage = "none"
  /\ session' = [session EXCEPT ![i] = Called("acquire", InstanceTime(i) + Ttl)]
  /\ UNCHANGED <<clock, known, lease, holds>>

\* Whoever asks for the release works on the run no longer.
CallRelease(i) ==
  /\ session[i].stage = "none"
  /\ session' = [session EXCEPT ![i] = Called("release", 0)]
  /\ holds' = [holds EXCEPT ![i] = 0]
  /\ UNCHANGED <<clock, known, lease>>

BeginTransaction(i) ==
  /\ session[i].stage = "begin"
  /\ session' = [session EXCEPT ![i].stage = "write", ![i].began = clock]
  /\ UNCHANGED <<clock, known, lease, holds>>

\* With the clock of the instance in the place of NOW().
ExpiredBug(i) == lease.expires < InstanceTime(i)
Expired(i) == lease.expires < session[i].began

\* The row that the INSERT leaves, or the DELETE of a release.
Drafted(i) ==
  IF session[i].op = "release"
  THEN IF lease.owner = i THEN NoLease ELSE lease
  ELSE IF lease = NoLease \/ lease.owner = i \/ Expired(i)
       THEN [owner |-> i, expires |-> session[i].expires] ELSE lease

\* Waits for whoever has written the row; without the run there is no lease.
WriteLease(i) ==
  /\ session[i].stage = "write" /\ ~RowLocked
  /\ session[i].op = "release" \/ known
  /\ session' = [session EXCEPT ![i].stage = "commit"]
  /\ UNCHANGED <<clock, known, lease, holds>>

\* The SELECT that follows the INSERT, on the row the transaction has locked.
Acquired(i) ==
  /\ session[i].op = "acquire" /\ Drafted(i).owner = i
  /\ Drafted(i).expires > session[i].began

CommitLease(i) ==
  /\ session[i].stage = "commit" /\ lease' = Drafted(i)
  /\ session' = [session EXCEPT ![i] =
       [stage |-> "reply", op |-> session[i].op, began |-> 0,
        expires |-> IF Acquired(i) THEN Drafted(i).expires ELSE 0]]
  /\ UNCHANGED <<clock, known, holds>>

LeaseAnswered(i) ==
  /\ session[i].stage = "reply" /\ session' = [session EXCEPT ![i] = NoSession]
  /\ holds' = [holds EXCEPT ![i] = session[i].expires]
  /\ UNCHANGED <<clock, known, lease>>

\* No connection, an error, or a lost answer to COMMIT: the call returns False.
LeaseFails(i) ==
  /\ session[i].stage # "none" /\ session' = [session EXCEPT ![i] = NoSession]
  /\ holds' = [holds EXCEPT ![i] = 0]
  /\ UNCHANGED <<clock, known, lease>>

(* ------------------------------ environment ------------------------------- *)

RunStored == ~known /\ known' = TRUE /\ UNCHANGED <<clock, lease, session, holds>>

TimePasses ==
  /\ clock < MaxClock /\ clock' = clock + 1 /\ UNCHANGED <<known, lease, session, holds>>

LeaseNext ==
  \/ \E i \in Instances :
       \/ CallAcquire(i) \/ CallRelease(i) \/ BeginTransaction(i) \/ WriteLease(i)
       \/ CommitLease(i) \/ LeaseAnswered(i) \/ LeaseFails(i)
  \/ RunStored \/ TimePasses

LeaseSpec == LeaseInit /\ [][LeaseNext]_leaseVars

(* ------------------------------- properties ------------------------------- *)

\* check_instance_leases.
HasLeases(i) == lease.owner = i /\ lease.expires > clock
Believes(i) == holds[i] # 0 /\ InstanceTime(i) < holds[i]

\* An instance that was told it has the lease, has not asked for its release since and
\* goes by its own clock, is the owner of a row that has not expired, so that no other
\* instance is: through renewals, takeovers, waits for the row, lost answers and clocks
\* that disagree.  Only a clock that is behind the server's may hold on for too long.
HolderHasLease == \A i \in Instances : Believes(i) /\ Skew[i] >= 0 => HasLeases(i)

===============================================================================
