---------------------------- MODULE MemoryProofs ----------------------------
(***************************************************************************)
(* Operational memory and declared endpoints, for any processes, items,    *)
(* contents, hosts, times and operations, whatever an import reads from    *)
(* the files.                                                              *)
(*                                                                         *)
(* The tables are replaced as a whole by copies that can be as old as one  *)
(* likes, loaded one query after the other: no relation between two items, *)
(* and none between a copy and the tables, survives that.  The invariant   *)
(* is therefore one of single items (Vouched): whoever holds one, holds    *)
(* one whose content is vouched for by blessed and proved, which only grow.*)
(***************************************************************************)
EXTENDS OperationalMemory, Endpoints, TLAPS

-----------------------------------------------------------------------------
\* Items, and what vouches for their contents.

Fields == {"status", "trust", "env", "source", "body", "verify", "count", "checks", "verified", "ref", "expires", "hash"}
IsItem(r) == r = [f \in Fields |-> r[f]]

\* A content that a prompt may contain once its item is active.
Blessed(x, body, verify) ==
  \/ /\ <<x, <<body, verify>>, "promoted">> \in blessed
     /\ KindOf[x] = "playbook" => <<x, body>> \in proved
  \/ <<x, <<body, verify>>, "imported">> \in blessed
  \/ x = HostnameFact /\ body = Hostname

Vouched(x, r) ==
  r = Nothing \/ /\ IsItem(r)
                 /\ r.status = "active" => Blessed(x, r.body, r.verify)
                 /\ KindOf[x] = "playbook" /\ r.verified => <<x, r.body>> \in proved

\* A copy of the tables, or what the files hold.
IsState(st) ==
  /\ st = [t |-> st.t, i |-> st.i] /\ st.i = [x \in Items |-> st.i[x]]
  /\ \A x \in Items : st.i[x] = Nothing \/ IsItem(st.i[x])
VouchedState(st) == IsState(st) /\ \A x \in Items : Vouched(x, st.i[x])

VouchedInv ==
  /\ VouchedState(db) /\ IsState(views)
  /\ snap = [p \in Procs |-> snap[p]] /\ \A p \in Procs : VouchedState(snap[p])

\* Whatever tables and files an earlier session left, if they hold records.
MemorySpec ==
  /\ \E st, files : IsState(st) /\ IsState(files) /\ MemoryInit(st, files)
  /\ [][MemoryNext]_memvars

-----------------------------------------------------------------------------
\* Facts about items.

LEMMA ItemUpdated ==
  ASSUME NEW r, IsItem(r), NEW f \in Fields, NEW v
  PROVE  /\ IsItem([r EXCEPT ![f] = v])
         /\ [r EXCEPT ![f] = v][f] = v
         /\ \A g \in Fields \ {f} : [r EXCEPT ![f] = v][g] = r[g]
BY DEF IsItem

\* Computing the hash changes nothing else.
LEMMA HashedItem ==
  ASSUME NEW r, IsItem(r)
  PROVE  /\ IsItem(Hashed(r))
         /\ \A f \in Fields \ {"hash"} : Hashed(r)[f] = r[f]
BY DEF IsItem, Hashed, Fields

\* Items that keep their content, and are neither activated nor verified.
LEMMA StaysVouched ==
  ASSUME NEW x, NEW r, NEW s, r # Nothing, Vouched(x, r), IsItem(s), s.body = r.body, s.verify = r.verify,
         s.status = "active" => r.status = "active",
         s.verified => r.verified
  PROVE  Vouched(x, s)
BY DEF Vouched

LEMMA StateUpdated ==
  ASSUME NEW st, VouchedState(st), NEW x, NEW r, Vouched(x, r)
  PROVE  VouchedState([st EXCEPT !.i[x] = r])
BY DEF VouchedState, IsState, Vouched

LEMMA SameItems ==
  ASSUME NEW st, VouchedState(st), NEW t
  PROVE  VouchedState([st EXCEPT !.t = t])
BY DEF VouchedState, IsState

-----------------------------------------------------------------------------
\* What the operations make of a copy.

LEMMA ExpiredKeepsVouched ==
  ASSUME NEW st, VouchedState(st)
  PROVE  VouchedState(ExpireOperationalItems(st))
<1>1. ASSUME NEW x \in Items PROVE Vouched(x, Expired(st.i[x]))
  <2>1. Vouched(x, st.i[x])
    BY DEF VouchedState
  <2>2. ASSUME st.i[x] # Nothing PROVE Vouched(x, [st.i[x] EXCEPT !.status = "expired"])
    <3>1. IsItem(st.i[x])
      BY <2>1, <2>2 DEF Vouched
    <3> DEFINE s == [st.i[x] EXCEPT !.status = "expired"]
    <3>2. IsItem(s) /\ s.status = "expired" /\ s.body = st.i[x].body /\ s.verify = st.i[x].verify /\ s.verified = st.i[x].verified
      BY <3>1, ItemUpdated DEF Fields
    <3> QED
      BY <2>1, <2>2, <3>2, StaysVouched
  <2> QED
    BY <2>1, <2>2 DEF Expired
<1> QED
  BY <1>1 DEF ExpireOperationalItems, VouchedState, IsState, Vouched

LEMMA BootstrapKeepsVouched ==
  ASSUME NEW st, VouchedState(st)
  PROVE  VouchedState(EnsureRuntimeBootstrap(st))
<1>1. Vouched(HostnameFact, RuntimeProbe)
  <2> DEFINE r == [status |-> "active", trust |-> "verified", env |-> "runtime", source |-> "runtime",
                   body |-> Hostname, verify |-> Nothing, count |-> 1, checks |-> FALSE, verified |-> TRUE, ref |-> TRUE,
                   expires |-> clock + RuntimeTTL, hash |-> <<>>]
  <2>1. IsItem(r) /\ r.body = Hostname
    BY DEF IsItem, Fields
  <2>2. IsItem(Hashed(r)) /\ Hashed(r).body = Hostname
    BY <2>1, HashedItem DEF Fields
  <2>3. KindOf[HostnameFact] # "playbook"
    BY MemoryAssumption
  <2> QED
    BY <2>2, <2>3 DEF RuntimeProbe, Vouched, Blessed
<1> QED
  BY <1>1 DEF EnsureRuntimeBootstrap, VouchedState, IsState, Vouched

\* Legacy records become candidates that nobody verified.
LEMMA LegacyIsVouched ==
  ASSUME NEW st, IsState(st)
  PROVE  VouchedState(PrepareLegacyState(st))
<1>1. ASSUME NEW x \in Items PROVE Vouched(x, PrepareLegacyState(st).i[x])
  <2>1. CASE st.i[x] = Nothing
    BY <2>1 DEF PrepareLegacyState, Vouched
  <2>2. CASE st.i[x] # Nothing
    <3> DEFINE e == IF TargetOf[x] = Runtime THEN TargetEnvironment(st, Runtime) ELSE "unknown"
               r == [st.i[x] EXCEPT !.status = "candidate", !.trust = "untrusted", !.source = "legacy",
                       !.env = e, !.verified = FALSE, !.ref = TRUE, !.expires = clock + CandidateTTL]
    <3>1. IsItem(st.i[x])
      BY <2>2 DEF IsState
    <3>2. IsItem(r) /\ r.status = "candidate" /\ r.verified = FALSE
      BY <3>1 DEF IsItem, Fields
    <3>3. PrepareLegacyState(st).i[x] = Hashed(r)
      BY <2>2, Zenon DEF PrepareLegacyState
    <3> HIDE DEF r
    <3>4. IsItem(Hashed(r)) /\ Hashed(r).status = "candidate" /\ Hashed(r).verified = FALSE
      BY <3>2, HashedItem DEF Fields
    <3> QED
      BY <3>3, <3>4 DEF Vouched
  <2> QED
    BY <2>1, <2>2
<1>2. PrepareLegacyState(st) = [t |-> PrepareLegacyState(st).t, i |-> PrepareLegacyState(st).i]
  BY DEF PrepareLegacyState
<1>3. PrepareLegacyState(st).i = [x \in Items |-> PrepareLegacyState(st).i[x]]
  BY DEF PrepareLegacyState
<1> QED
  BY <1>1, <1>2, <1>3 DEF VouchedState, IsState, Vouched

LEMMA ParsedIsState ==
  ASSUME IsState(views)
  PROVE  IsState(ParseManagedFiles)
<1>1. ASSUME NEW x \in Items PROVE ParseRecord(views.i[x]) = Nothing \/ IsItem(ParseRecord(views.i[x]))
  BY DEF ParseRecord, IsState, IsItem, Fields
<1> QED
  BY <1>1 DEF ParseManagedFiles, IsState

\* What an import takes over are records; its histories vouch for them.
LEMMA ImportedIsState ==
  ASSUME NEW st, IsState(st)
  PROVE  IsState(PrepareImportedState(st))
<1>1. ASSUME NEW r, IsItem(r) PROVE IsItem(CanonicalizeImportedMetadata(r))
  <2>1. IsItem([r EXCEPT !.source = "import", !.trust = IF r.trust = "untrusted" THEN "operator" ELSE r.trust])
    BY <1>1 DEF IsItem, Fields
  <2> QED
    BY <2>1, HashedItem DEF CanonicalizeImportedMetadata
<1> QED
  BY <1>1 DEF PrepareImportedState, IsState

LEMMA BootstrapIsState ==
  ASSUME NEW st, IsState(st)
  PROVE  IsState(EnsureRuntimeBootstrap(st))
<1>1. IsItem(RuntimeProbe)
  BY HashedItem DEF RuntimeProbe, IsItem, Fields
<1> QED
  BY <1>1 DEF EnsureRuntimeBootstrap, IsState

\* What a run can make of an item: its content and review stay, it becomes a
\* candidate that nobody verified, or a candidate with the steps of the run.
Learned(x, old, o, r) ==
  \/ r = Nothing
  \/ IsItem(r) /\ old # Nothing /\ r.body = old.body /\ r.verify = old.verify
     /\ r.status = old.status /\ r.verified = old.verified
  \/ IsItem(r) /\ r.status = "candidate" /\ ~r.verified
  \/ IsItem(r) /\ r.status = "candidate" /\ r.body = o.steps /\ (r.verified => o.verified /\ o.checks /\ ~o.error)

LEMMA ProcedureLearns ==
  ASSUME NEW st, VouchedState(st), NEW x \in Items, NEW o
  PROVE  Learned(x, st.i[x], o, Procedure(st, x, o))
<1> DEFINE failed == IF o.failure # Nothing THEN ApplyPlaybookFailure(st, x) ELSE st.i[x]
           stf == [st EXCEPT !.i[x] = failed]
<1>0. st.i[x] = Nothing \/ IsItem(st.i[x])
  BY DEF VouchedState, Vouched
<1>1. IF st.i[x] = Nothing THEN failed = Nothing
      ELSE /\ IsItem(failed) /\ failed.body = st.i[x].body /\ failed.verify = st.i[x].verify /\ failed.status = st.i[x].status
           /\ failed.verified = st.i[x].verified
  <2> DEFINE more == [st.i[x] EXCEPT !.count = @ + 1]
  <2>1. ASSUME st.i[x] # Nothing
        PROVE  /\ IsItem(Hashed(more)) /\ Hashed(more).body = st.i[x].body /\ Hashed(more).verify = st.i[x].verify
               /\ Hashed(more).status = st.i[x].status /\ Hashed(more).verified = st.i[x].verified
    <3>1. IsItem(more) /\ more.body = st.i[x].body /\ more.verify = st.i[x].verify /\ more.status = st.i[x].status /\ more.verified = st.i[x].verified
      BY <1>0, <2>1, ItemUpdated DEF Fields
    <3> HIDE DEF more
    <3> QED
      BY <3>1, HashedItem DEF Fields
  <2> HIDE DEF more
  <2>2. st.i[x] # Nothing => ApplyPlaybookFailure(st, x) = Hashed(more)
    BY DEF ApplyPlaybookFailure, more
  <2>3. st.i[x] = Nothing => ApplyPlaybookFailure(st, x) = Nothing
    BY DEF ApplyPlaybookFailure
  <2> QED
    BY <1>0, <2>1, <2>2, <2>3
<1>2. ASSUME ~o.error
      PROVE  Learned(x, st.i[x], o, ApplyPlaybook(stf, x, o))
  <2> DEFINE c == Candidate(stf, x, o.steps, "run", CandidateTTL)
             new == Sequence(stf, x, o)
             again == Merged(new, stf.i[x])
  <2>1. IsItem(c) /\ c.status = "candidate" /\ c.body = o.steps
    BY DEF Candidate, IsItem, Fields
  <2>2. \A r \in {new, again} : /\ IsItem(r) /\ r.status = "candidate" /\ r.body = o.steps
                                /\ r.verified => o.verified /\ o.checks
    <3>0. PICK v : v = (o.verified /\ o.checks)
      OBVIOUS
    <3>1. IsItem(new) /\ new.status = "candidate" /\ new.body = o.steps /\ (new.verified => o.verified /\ o.checks)
      <4>1. new = [c EXCEPT !.verify = o.verify, !.checks = o.checks, !.verified = v, !.ref = o.verified]
        BY <3>0 DEF Sequence
      <4> HIDE DEF c, new
      <4>2. IsItem(new) /\ new.status = c.status /\ new.body = c.body /\ new.verified = v
        BY <2>1, <4>1 DEF IsItem, Fields
      <4> QED
        BY <2>1, <3>0, <4>2
    <3> HIDE DEF c, new
    <3>2. /\ IsItem(again) /\ again.status = new.status /\ again.body = new.body
          /\ again.verified = new.verified
      <4>1. PICK e : e = stf.i[x]
        OBVIOUS
      <4>2. PICK k, w : k = (new.checks \/ e.checks) /\ w = IF new.verify = Nothing THEN e.verify ELSE new.verify
        OBVIOUS
      <4>3. again = [new EXCEPT !.count = e.count + 1, !.checks = k, !.verify = w]
        BY <4>1, <4>2 DEF Merged
      <4> HIDE DEF again
      <4> QED
        BY <3>1, <4>3 DEF IsItem, Fields
    <3> HIDE DEF again
    <3> QED
      BY <3>1, <3>2
  <2>3. ApplyPlaybook(stf, x, o) \in {Hashed(new), Hashed(again)}
    BY Zenon DEF ApplyPlaybook
  <2> HIDE DEF new, again
  <2>4. \A r \in {new, again} : /\ IsItem(Hashed(r)) /\ Hashed(r).status = "candidate" /\ Hashed(r).body = o.steps
                                /\ Hashed(r).verified => o.verified /\ o.checks
    BY <2>2, HashedItem DEF Fields
  <2> QED
    BY <1>2, <2>3, <2>4 DEF Learned
<1>3. Procedure(st, x, o) = IF o.steps = Nothing \/ o.error \/ o.sensitive THEN failed ELSE ApplyPlaybook(stf, x, o)
  BY Zenon DEF Procedure
<1>4. Learned(x, st.i[x], o, failed)
  <2> HIDE DEF failed
  <2> QED
    BY <1>0, <1>1 DEF Learned
<1> HIDE DEF failed, stf
<1> QED
  BY <1>2, <1>3, <1>4

LEMMA ItemLearns ==
  ASSUME NEW st, VouchedState(st), NEW x \in Items, NEW o
  PROVE  Learned(x, st.i[x], o, CuratedItem(st, x, o))
<1>0. st.i[x] = Nothing \/ IsItem(st.i[x])
  BY DEF VouchedState, Vouched
<1>1. Learned(x, st.i[x], o, st.i[x])
  BY <1>0 DEF Learned
<1>2. Learned(x, st.i[x], o, UpsertFact(st, x, o.probe))
  <2> DEFINE new == Candidate(st, x, o.probe, "probe", CandidateTTL)
  <2>1. IsItem(new) /\ new.status = "candidate" /\ new.verified = FALSE
    BY DEF Candidate, IsItem, Fields
  <2>2. UpsertFact(st, x, o.probe) = Hashed(new)
    BY DEF UpsertFact
  <2> HIDE DEF new
  <2> QED
    BY <2>1, <2>2, HashedItem DEF Learned, Fields
<1>3. Learned(x, st.i[x], o, ApplyCaution(st, x, o.failure))
  <2> DEFINE new == Candidate(st, x, o.failure, "failure", CautionTTL)
             again == [new EXCEPT !.count = st.i[x].count + 1]
  <2>1. IsItem(new) /\ new.status = "candidate" /\ new.verified = FALSE
    BY DEF Candidate, IsItem, Fields
  <2>2. ApplyCaution(st, x, o.failure) \in {Hashed(new), Hashed(again)}
    BY Zenon DEF ApplyCaution
  <2>3. \A r \in {new, again} : IsItem(r) /\ r.status = "candidate" /\ r.verified = FALSE
    <3> HIDE DEF new
    <3> QED
      BY <2>1, ItemUpdated DEF Fields
  <2> HIDE DEF new, again
  <2>4. \A r \in {new, again} : IsItem(Hashed(r)) /\ Hashed(r).status = "candidate" /\ Hashed(r).verified = FALSE
    BY <2>3, HashedItem DEF Fields
  <2> QED
    BY <2>2, <2>4 DEF Learned
<1> QED
  BY <1>1, <1>2, <1>3, ProcedureLearns DEF CuratedItem

\* What is learned is vouched for, once a verified outcome is on record.
LEMMA LearnedIsVouched ==
  ASSUME NEW x, NEW old, NEW o, NEW r, Vouched(x, old), Learned(x, old, o, r),
         o.verified /\ o.checks /\ ~o.error => <<x, o.steps>> \in proved
  PROVE  Vouched(x, r)
BY DEF Vouched, Learned

-----------------------------------------------------------------------------
\* Steps.

Grow == blessed \subseteq blessed' /\ proved \subseteq proved'

LEMMA VouchersStay ==
  ASSUME Grow, NEW st, VouchedState(st)
  PROVE  VouchedState(st)'
BY DEF Grow, VouchedState, IsState, Vouched, Blessed

LEMMA EmptyIsVouched == VouchedState(Empty)
BY DEF Empty, VouchedState, IsState, Vouched

\* A process goes on with another copy, and the tables may be replaced by one.
LEMMA NewCopy ==
  ASSUME VouchedInv, Grow, IsState(views'), NEW p \in Procs,
         NEW st, VouchedState(st)', snap' = [snap EXCEPT ![p] = st], db' \in {db, st}
  PROVE  VouchedInv'
<1>1. VouchedState(db)'
  <2>1. PICK d : d = db
    OBVIOUS
  <2>2. VouchedState(d)'
    BY <2>1, VouchersStay DEF VouchedInv
  <2>3. db' = d \/ db' = st
    BY <2>1
  <2> QED
    BY <2>2, <2>3
<1>2. ASSUME NEW q \in Procs PROVE VouchedState(snap[q])'
  <2>1. PICK s : s = snap[q]
    OBVIOUS
  <2>2. VouchedState(s)'
    BY <2>1, VouchersStay DEF VouchedInv
  <2>3. snap'[q] = s \/ snap'[q] = st
    BY <2>1 DEF VouchedInv
  <2> QED
    BY <2>2, <2>3
<1>3. snap' = [q \in Procs |-> snap'[q]]
  BY DEF VouchedInv
<1> QED
  BY <1>1, <1>2, <1>3 DEF VouchedInv, IsState

LEMMA NoNewCopy ==
  ASSUME VouchedInv, UNCHANGED <<snap, db, history>>, IsState(views')
  PROVE  VouchedInv'
BY DEF VouchedInv, history, VouchedState, IsState, Vouched, Blessed

LEMMA IdleKeepsVouched ==
  ASSUME VouchedInv, NEW p \in Procs, Idle(p), UNCHANGED <<db, views, history>>
  PROVE  VouchedInv'
<1>1. PICK st : st = Empty
  OBVIOUS
<1>2. Grow /\ IsState(views')
  BY DEF Grow, history, VouchedInv, IsState
<1>3. VouchedState(st)'
  BY <1>1, <1>2, EmptyIsVouched, VouchersStay
<1>4. snap' = [snap EXCEPT ![p] = st] /\ db' \in {db, st}
  BY <1>1 DEF Idle
<1> QED
  BY <1>2, <1>3, <1>4, NewCopy

LEMMA LoadKeepsVouched ==
  ASSUME VouchedInv, NEW p \in Procs, LoadOperationalMemory(p)
  PROVE  VouchedInv'
<1> DEFINE k == Head(todo[p])
<1>1. PICK st : st = [t |-> IF k = "targets" THEN db.t ELSE snap[p].t,
                      i |-> [x \in Items |-> IF KindOf[x] = k THEN db.i[x] ELSE snap[p].i[x]]]
  OBVIOUS
<1>2. Grow /\ IsState(views')
  BY DEF LoadOperationalMemory, Grow, history, VouchedInv, IsState
<1>3. VouchedState(st)
  BY <1>1 DEF VouchedInv, VouchedState, IsState, Vouched
<1>4. snap' = [snap EXCEPT ![p] = st] /\ db' \in {db, st}
  BY <1>1 DEF LoadOperationalMemory
<1> QED
  BY <1>2, <1>3, <1>4, NewCopy, VouchersStay

LEMMA EnsureKeepsVouched ==
  ASSUME VouchedInv, NEW p \in Procs, EnsureFiles(p)
  PROVE  VouchedInv'
<1>0. UNCHANGED <<db, views, history>>
  BY DEF EnsureFiles
<1>g. Grow /\ IsState(views')
  BY <1>0 DEF Grow, history, VouchedInv, IsState
<1>1. PICK from : /\ from \in {snap[p], PrepareLegacyState(ParseManagedFiles)}
                  /\ \/ Idle(p)
                     \/ snap' = [snap EXCEPT ![p] = EnsureRuntimeBootstrap(ExpireOperationalItems(from))]
                     \/ UNCHANGED snap
  BY DEF EnsureFiles
<1>2. VouchedState(from)
  <2>1. VouchedState(snap[p])
    BY DEF VouchedInv
  <2>2. VouchedState(PrepareLegacyState(ParseManagedFiles))
    <3>1. PICK files : files = ParseManagedFiles
      OBVIOUS
    <3>2. IsState(files)
      BY <3>1, ParsedIsState DEF VouchedInv
    <3> QED
      BY <3>1, <3>2, LegacyIsVouched
  <2> QED
    BY <1>1, <2>1, <2>2
<1>3. PICK st : st = EnsureRuntimeBootstrap(ExpireOperationalItems(from))
  OBVIOUS
<1>4. VouchedState(st)
  <2>1. PICK e : e = ExpireOperationalItems(from)
    OBVIOUS
  <2>2. VouchedState(e)
    BY <1>2, <2>1, ExpiredKeepsVouched
  <2> QED
    BY <1>3, <2>1, <2>2, BootstrapKeepsVouched
<1>5. CASE Idle(p)
  BY <1>0, <1>5, IdleKeepsVouched
<1>6. CASE snap' = [snap EXCEPT ![p] = st]
  <2>1. VouchedState(st)'
    BY <1>g, <1>4, VouchersStay
  <2> QED
    BY <1>0, <1>g, <1>6, <2>1, NewCopy
<1>7. CASE UNCHANGED snap
  BY <1>0, <1>g, <1>7, NoNewCopy
<1> QED
  BY <1>1, <1>3, <1>5, <1>6, <1>7

LEMMA WriteKeepsVouched ==
  ASSUME VouchedInv, NEW p \in Procs, Rewrite(p) \/ WriteManagedFile(p)
  PROVE  VouchedInv'
<1>1. CASE Rewrite(p)
  <2>1. PICK st : st = snap[p]
    OBVIOUS
  <2>2. Grow /\ IsState(views')
    BY <1>1 DEF Rewrite, Grow, history, VouchedInv, IsState
  <2>3. VouchedState(st)'
    BY <2>1, <2>2, VouchersStay DEF VouchedInv
  <2>4. snap' = [snap EXCEPT ![p] = st] /\ db' \in {db, st}
    BY <1>1, <2>1 DEF Rewrite, ReplaceOperationalMemory
  <2> QED
    BY <2>2, <2>3, <2>4, NewCopy
<1>2. CASE WriteManagedFile(p)
  <2>1. PICK file : views' = Rendered(file, snap[p], views) /\ (Idle(p) \/ UNCHANGED snap)
    BY <1>2 DEF WriteManagedFile
  <2>2. IsState(views')
    BY <2>1 DEF Rendered, VouchedInv, VouchedState, IsState
  <2>3. UNCHANGED <<db, history>>
    BY <1>2 DEF WriteManagedFile
  <2>4. CASE UNCHANGED snap
    BY <2>2, <2>3, <2>4, NoNewCopy
  <2>5. CASE Idle(p)
    <3>1. PICK st : st = Empty
      OBVIOUS
    <3>2. Grow
      BY <2>3 DEF Grow, history
    <3>3. VouchedState(st)'
      BY <3>1, <3>2, EmptyIsVouched, VouchersStay
    <3> QED
      BY <2>2, <2>3, <2>5, <3>1, <3>2, <3>3, NewCopy DEF Idle
  <2> QED
    BY <2>1, <2>4, <2>5
<1> QED
  BY <1>1, <1>2

\* An operation that changes its copy and replaces the tables with it.
LEMMA ChangeKeepsVouched ==
  ASSUME VouchedInv, NEW p \in Procs, NEW st, Changes(p, st), Grow, VouchedState(st)'
  PROVE  VouchedInv'
BY NewCopy DEF Changes, ReplaceOperationalMemory, VouchedInv, IsState

LEMMA RefusedKeepsVouched ==
  ASSUME VouchedInv, NEW p \in Procs, Refused(p)
  PROVE  VouchedInv'
BY IdleKeepsVouched DEF Refused

\* Operations that touch no item, or remove one, or add a finding, which no run verifies.
LEMMA EditsKeepVouched ==
  ASSUME VouchedInv, NEW p \in Procs,
         RetrievePlan(p) \/ ResolveTarget(p) \/ PersistLessons(p) \/ DeleteMemory(p) \/ SetTargetEnvironment(p)
  PROVE  VouchedInv'
<1>1. PICK s : s = snap[p]
  OBVIOUS
<1>2. VouchedState(s)
  BY <1>1 DEF VouchedInv
<1>3. PICK x : x = job[p].item
  OBVIOUS
<1>4. PICK h : h = job[p].target
  OBVIOUS
<1>c. ASSUME NEW st, VouchedState(st), Changes(p, st), UNCHANGED history
      PROVE  VouchedInv'
  <2>1. Grow
    BY <1>c DEF Grow, history
  <2> QED
    BY <1>c, <2>1, VouchersStay, ChangeKeepsVouched
<1>5. CASE RetrievePlan(p)
  BY <1>5, RefusedKeepsVouched DEF RetrievePlan
<1>6. CASE ResolveTarget(p)
  <2>1. VouchedState([s EXCEPT !.t[h] = [status |-> "candidate", env |-> "unknown", expires |-> 0]])
    BY <1>2 DEF VouchedState, IsState
  <2> QED
    BY <1>1, <1>4, <1>6, <1>c, <2>1, RefusedKeepsVouched DEF ResolveTarget
<1>7. CASE PersistLessons(p)
  <2>1. PICK r : r = UpsertFinding(s, x, job[p].body)
    OBVIOUS
  <2>2. Vouched(x, r)
    <3> DEFINE new == Hashed(Candidate(s, x, job[p].body, "model", CandidateTTL))
               again == [new EXCEPT !.count = s.i[x].count + 1]
    <3>1. IsItem(new) /\ new.status = "candidate" /\ new.verified = FALSE
      <4> DEFINE c == Candidate(s, x, job[p].body, "model", CandidateTTL)
      <4>1. IsItem(c) /\ c.status = "candidate" /\ c.verified = FALSE
        BY DEF Candidate, IsItem, Fields
      <4> HIDE DEF c
      <4>2. IsItem(Hashed(c)) /\ Hashed(c).status = "candidate" /\ Hashed(c).verified = FALSE
        BY <4>1, HashedItem DEF Fields
      <4> QED
        BY <4>2 DEF c
    <3>2. r \in {new, again}
      BY <2>1, Zenon DEF UpsertFinding
    <3> HIDE DEF new
    <3>3. IsItem(again) /\ again.status = "candidate" /\ again.verified = FALSE
      BY <3>1 DEF IsItem, Fields
    <3> QED
      BY <3>1, <3>2, <3>3 DEF Vouched
  <2>3. VouchedState([s EXCEPT !.i[x] = r])
    BY <1>2, <2>2, StateUpdated
  <2>4. Refused(p) \/ (Changes(p, [s EXCEPT !.i[x] = r]) /\ UNCHANGED history)
    BY <1>1, <1>3, <1>7, <2>1 DEF PersistLessons
  <2> QED
    BY <1>c, <2>3, <2>4, RefusedKeepsVouched
<1>8. CASE DeleteMemory(p)
  <2>1. VouchedState([s EXCEPT !.i[x] = Nothing])
    BY <1>2, StateUpdated DEF Vouched
  <2> QED
    BY <1>1, <1>3, <1>8, <1>c, <2>1, RefusedKeepsVouched DEF DeleteMemory
<1>9. CASE SetTargetEnvironment(p)
  <2>1. VouchedState(Bound(s, h))
    <3>1. ASSUME NEW y \in Items, s.i[y] # Nothing
          PROVE  Vouched(y, Hashed([s.i[y] EXCEPT !.env = Environment]))
      <4> DEFINE r == [s.i[y] EXCEPT !.env = Environment]
      <4>1. Vouched(y, s.i[y]) /\ IsItem(s.i[y])
        BY <1>2, <3>1 DEF VouchedState, Vouched
      <4>2. IsItem(r) /\ r.status = s.i[y].status /\ r.body = s.i[y].body /\ r.verify = s.i[y].verify /\ r.verified = s.i[y].verified
        BY <4>1, ItemUpdated DEF Fields
      <4> HIDE DEF r
      <4>3. /\ IsItem(Hashed(r)) /\ Hashed(r).status = s.i[y].status
            /\ Hashed(r).body = s.i[y].body /\ Hashed(r).verify = s.i[y].verify /\ Hashed(r).verified = s.i[y].verified
        BY <4>2, HashedItem DEF Fields
      <4>4. Vouched(y, Hashed(r))
        BY <3>1, <4>1, <4>3, StaysVouched
      <4> QED
        BY <4>4 DEF r
    <3> QED
      BY <1>2, <3>1 DEF Bound, VouchedState, IsState, Vouched
  <2>2. Refused(p) \/ (Changes(p, Bound(s, h)) /\ UNCHANGED history)
    BY <1>1, <1>4, <1>9 DEF SetTargetEnvironment
  <2> QED
    BY <1>c, <2>1, <2>2, RefusedKeepsVouched
<1> QED
  BY <1>5, <1>6, <1>7, <1>8, <1>9

\* A verified run with a check is on record when its steps are.
LEMMA CurateKeepsVouched ==
  ASSUME VouchedInv, NEW p \in Procs, CurateRunOutcome(p)
  PROVE  VouchedInv'
<1>0. PICK c : c = snap[p]
  OBVIOUS
<1>1. PICK s : s = EnsureRuntimeBootstrap(c)
  OBVIOUS
<1>2. PICK o : o = job[p].outcome
  OBVIOUS
<1>3. PICK st : st = Curated(s, o)
  OBVIOUS
<1>4. VouchedState(s)
  BY <1>0, <1>1, BootstrapKeepsVouched DEF VouchedInv
<1>5. \/ Refused(p) \/ UNCHANGED <<snap, db, views, history>>
      \/ /\ Changes(p, st) /\ UNCHANGED <<blessed, revoked>>
         /\ proved' = IF o.verified /\ o.checks /\ ~o.error
                      THEN proved \cup {<<x, o.steps>> : x \in {y \in Items : TargetOf[y] = o.target}}
                      ELSE proved
  BY <1>0, <1>1, <1>2, <1>3 DEF CurateRunOutcome
<1>6. CASE Refused(p) \/ UNCHANGED <<snap, db, views, history>>
  BY <1>6, RefusedKeepsVouched, NoNewCopy DEF VouchedInv, IsState
<1>7. CASE ~(Refused(p) \/ UNCHANGED <<snap, db, views, history>>)
  <2>1. Changes(p, st) /\ Grow
    BY <1>5, <1>7 DEF Grow
  <2>2. VouchedState(s)'
    BY <1>4, <2>1, VouchersStay
  <2>3. ASSUME NEW x \in Items PROVE Vouched(x, st.i[x])'
    <3>1. CASE TargetOf[x] # o.target
      <4>1. st.i[x] = s.i[x]
        BY <1>3, <1>4, <3>1 DEF Curated, VouchedState, IsState
      <4> QED
        BY <2>2, <4>1 DEF VouchedState
    <3>2. CASE TargetOf[x] = o.target
      <4>1. PICK r : r = st.i[x]
        OBVIOUS
      <4>2. r = CuratedItem(s, x, o)
        BY <1>3, <1>4, <3>2, <4>1 DEF Curated, VouchedState, IsState
      <4>3. Learned(x, s.i[x], o, r)
        BY <1>4, <4>2, ItemLearns
      <4>4. o.verified /\ o.checks /\ ~o.error => <<x, o.steps>> \in proved'
        BY <1>5, <1>7, <3>2
      <4>5. Vouched(x, s.i[x])'
        BY <2>2 DEF VouchedState
      <4> QED
        BY <4>1, <4>3, <4>4, <4>5 DEF Vouched, Learned
    <3> QED
      BY <3>1, <3>2
  <2>4. IsState(st)
    <3>1. st = [t |-> st.t, i |-> st.i] /\ st.i = [x \in Items |-> st.i[x]]
      BY <1>3, <1>4 DEF Curated, VouchedState, IsState
    <3>2. \A x \in Items : st.i[x] = Nothing \/ IsItem(st.i[x])
      BY <2>3 DEF Vouched
    <3> QED
      BY <3>1, <3>2 DEF IsState
  <2>5. VouchedState(st)'
    BY <2>3, <2>4 DEF VouchedState, IsState
  <2> QED
    BY <2>1, <2>5, ChangeKeepsVouched
<1> QED
  BY <1>6, <1>7

\* The operator promotes a playbook only if it is verified, and thereby blesses it.
LEMMA TransitionKeepsVouched ==
  ASSUME VouchedInv, NEW p \in Procs, TransitionMemory(p)
  PROVE  VouchedInv'
<1>1. PICK s : s = snap[p]
  OBVIOUS
<1>2. PICK x : x = job[p].item
  OBVIOUS
<1>3. PICK next : next = job[p].next
  OBVIOUS
<1> DEFINE r == s.i[x]
           on == [r EXCEPT !.status = next, !.trust = "operator", !.expires = clock + ActiveTTL]
           off == [r EXCEPT !.status = next]
<1>4. VouchedState(s)
  BY <1>1 DEF VouchedInv
<1>5. CASE Refused(p)
  BY <1>5, RefusedKeepsVouched
<1>6. CASE ~Refused(p)
  <2>1. /\ MayTransition(s, x, next) /\ Changes(p, Transitioned(s, x, next)) /\ UNCHANGED proved
        /\ blessed' = IF next = "active" THEN blessed \cup {<<x, Content(r), "promoted">>} ELSE blessed
    BY <1>1, <1>2, <1>3, <1>6 DEF TransitionMemory
  <2>2. Grow
    BY <2>1 DEF Grow
  <2>3. VouchedState(s)'
    BY <1>4, <2>2, VouchersStay
  <2>4. PICK st : st = Transitioned(s, x, next)
    OBVIOUS
  <2>5. CASE x \notin Items
    <3>1. st = s
      BY <1>4, <2>4, <2>5 DEF Transitioned, VouchedState, IsState
    <3> QED
      BY <2>1, <2>2, <2>3, <2>4, <3>1, ChangeKeepsVouched
  <2>6. CASE x \in Items
    <3>1. r # Nothing /\ Vouched(x, r)' /\ IsItem(r)
      BY <2>1, <2>3, <2>6 DEF MayTransition, VouchedState, Vouched
    <3>2. /\ IsItem(on) /\ on.status = next /\ on.body = r.body /\ on.verify = r.verify /\ on.verified = r.verified
          /\ IsItem(off) /\ off.status = next /\ off.body = r.body /\ off.verify = r.verify /\ off.verified = r.verified
      <4> HIDE DEF r
      <4> QED
        BY <3>1 DEF IsItem, Fields
    <3>3. PICK w : w = IF next = "active" THEN on ELSE off
      OBVIOUS
    <3>4. IsItem(w) /\ w.status = next /\ w.body = r.body /\ w.verify = r.verify /\ w.verified = r.verified
      <4> HIDE DEF on, off, r
      <4> QED
        BY <3>2, <3>3
    <3>5. st = [s EXCEPT !.i[x] = Hashed(w)]
      BY <2>4, <3>3 DEF Transitioned
    <3>6. /\ IsItem(Hashed(w)) /\ Hashed(w).status = next
          /\ Hashed(w).body = r.body /\ Hashed(w).verify = r.verify /\ Hashed(w).verified = r.verified
      BY <3>4, HashedItem DEF Fields
    <3>7. next = "active" =>
            <<x, <<r.body, r.verify>>, "promoted">> \in blessed' /\ (KindOf[x] = "playbook" => r.verified)
      BY <2>1 DEF MayTransition, Content
    <3>8. KindOf[x] = "playbook" /\ r.verified => <<x, r.body>> \in proved'
      BY <3>1 DEF Vouched
    <3>9. PICK n : n = Hashed(w)
      OBVIOUS
    <3>10. Vouched(x, n)'
      BY <3>6, <3>7, <3>8, <3>9 DEF Vouched, Blessed
    <3>11. VouchedState([s EXCEPT !.i[x] = n])'
      BY <2>3, <3>10 DEF VouchedState, IsState, Vouched
    <3> QED
      BY <2>1, <2>2, <2>4, <3>5, <3>9, <3>11, ChangeKeepsVouched
  <2> QED
    BY <2>5, <2>6
<1> QED
  BY <1>5, <1>6

\* An import vouches for what it takes over.
LEMMA ImportKeepsVouched ==
  ASSUME VouchedInv, NEW p \in Procs, Reindex(p)
  PROVE  VouchedInv'
<1>1. PICK st : st = PrepareImportedState(EnsureRuntimeBootstrap(ParseManagedFiles))
  OBVIOUS
<1>2. IsState(st)
  <2>1. PICK files : files = ParseManagedFiles
    OBVIOUS
  <2>2. IsState(files)
    BY <2>1, ParsedIsState DEF VouchedInv
  <2>3. PICK e : e = EnsureRuntimeBootstrap(files)
    OBVIOUS
  <2>4. IsState(e)
    BY <2>2, <2>3, BootstrapIsState
  <2> QED
    BY <1>1, <2>1, <2>3, <2>4, ImportedIsState
<1>3. CASE Refused(p)
  BY <1>3, RefusedKeepsVouched
<1>4. CASE ~Refused(p)
  <2>1. /\ Changes(p, st)
        /\ blessed' = blessed \cup
             {<<x, Content(st.i[x]), "imported">> : x \in {y \in Items : st.i[y] # Nothing /\ st.i[y].status = "active"}}
        /\ proved' = proved \cup {<<x, st.i[x].body>> : x \in Verified(st)}
    BY <1>1, <1>4 DEF Reindex
  <2>2. ASSUME NEW x \in Items PROVE Vouched(x, st.i[x])'
    BY <1>2, <2>1 DEF IsState, Vouched, Blessed, Verified, Content
  <2>3. VouchedState(st)'
    BY <1>2, <2>2 DEF VouchedState, IsState
  <2>4. Grow
    BY <2>1 DEF Grow
  <2> QED
    BY <2>1, <2>3, <2>4, ChangeKeepsVouched
<1> QED
  BY <1>3, <1>4

LEMMA OutsideKeepsVouched ==
  ASSUME VouchedInv,
         \/ \E p \in Procs : Begin(p) \/ Abandon(p)
         \/ \E x \in Items, b \in Bodies : EditView(x, b)
         \/ Tick \/ UNCHANGED memvars
  PROVE  VouchedInv'
<1>1. CASE \E p \in Procs : Abandon(p)
  BY <1>1, IdleKeepsVouched DEF Abandon
<1>2. CASE \E x \in Items, b \in Bodies : EditView(x, b)
  <2>1. PICK x \in Items, b \in Bodies : EditView(x, b)
    BY <1>2
  <2> DEFINE r == views.i[x]
             edited == [r EXCEPT !.body = b, !.status = "active", !.expires = clock + ActiveTTL]
  <2>2. r # Nothing /\ IsItem(r)
    BY <2>1 DEF EditView, VouchedInv, IsState
  <2>3. IsItem(edited)
    <3> HIDE DEF r
    <3> QED
      BY <2>2 DEF IsItem, Fields
  <2>4. views' = [views EXCEPT !.i[x] = edited]
    BY <2>1, <2>2 DEF EditView, VouchedInv, IsState, IsItem, Fields
  <2> HIDE DEF edited
  <2>5. IsState(views')
    BY <2>3, <2>4 DEF VouchedInv, IsState
  <2> QED
    BY <2>1, <2>5, NoNewCopy DEF EditView
<1>3. CASE \/ \E p \in Procs : Begin(p)
           \/ Tick \/ UNCHANGED memvars
  <2>1. UNCHANGED <<db, views, snap, history>>
    BY <1>3 DEF Begin, Tick, memvars, history
  <2> QED
    BY <2>1, NoNewCopy DEF VouchedInv, IsState
<1> QED
  BY <1>1, <1>2, <1>3

LEMMA VouchedStep == VouchedInv /\ [MemoryNext]_memvars => VouchedInv'
<1> SUFFICES ASSUME VouchedInv, [MemoryNext]_memvars PROVE VouchedInv'
  OBVIOUS
<1>1. ASSUME NEW p \in Procs, Works(p) PROVE VouchedInv'
  BY <1>1, LoadKeepsVouched, EnsureKeepsVouched, WriteKeepsVouched, EditsKeepVouched, CurateKeepsVouched,
     TransitionKeepsVouched, ImportKeepsVouched DEF Works
<1> QED
  BY <1>1, OutsideKeepsVouched DEF MemoryNext

LEMMA VouchedInit ==
  ASSUME NEW st, NEW files, IsState(st), IsState(files), MemoryInit(st, files)
  PROVE  VouchedInv
<1>1. ASSUME NEW x \in Items PROVE Vouched(x, st.i[x])
  BY DEF MemoryInit, IsState, Vouched, Blessed, Verified, Content
<1>2. VouchedState(st) /\ VouchedState(Empty)
  BY <1>1, EmptyIsVouched DEF VouchedState
<1> QED
  BY <1>2 DEF MemoryInit, VouchedInv

\* Whatever processes overwrite each other and wherever they die, a prompt gets only
\* what the operator promoted or imported, steps that only look included, or the name
\* of the program's own host; and a promoted playbook has the action steps that a
\* verified run with a check produced or a file that the operator imported calls
\* verified (RetrievePlan, transitionMemory, applyPlaybook, Reindex).
THEOREM RetrievedMeansBlessed == MemorySpec => []RetrievedIsBlessed
<1>1. (\E st, files : IsState(st) /\ IsState(files) /\ MemoryInit(st, files)) => VouchedInv
  BY VouchedInit
<1>2. VouchedInv => RetrievedIsBlessed
  BY DEF VouchedInv, VouchedState, Vouched, Blessed, Content, RetrievedIsBlessed, Retrievable, LiveOperationalItem
<1> QED
  BY <1>1, <1>2, VouchedStep, PTL DEF MemorySpec

-----------------------------------------------------------------------------
\* Declared endpoints.

\* Only a turn that settled a name is forgotten with it.
ForgottenInv ==
  /\ endpoints = [n \in Names |-> endpoints[n]] /\ author = [n \in Names |-> author[n]]
  /\ forgotten \subseteq captures
  /\ ForgottenStaysForgotten

LEMMA ForgottenStep == ForgottenInv /\ [EndpointsNext]_epvars => ForgottenInv'
<1> SUFFICES ASSUME ForgottenInv, [EndpointsNext]_epvars PROVE ForgottenInv'
  OBVIOUS
<1> USE DEF ForgottenInv, ForgottenStaysForgotten
<1>1. ASSUME NEW t \in Turns, Declare(t) \/ VerifyReadback(t) PROVE ForgottenInv'
  BY <1>1 DEF Declare, VerifyReadback
<1>2. ASSUME NEW t \in Turns, CaptureUserEndpoint(t) PROVE ForgottenInv'
  <2> DEFINE m == Declares[t].name
  <2>1. CASE UNCHANGED <<endpoints, captures, author>>
    BY <1>2, <2>1 DEF CaptureUserEndpoint
  <2>2. CASE ~UNCHANGED <<endpoints, captures, author>>
    <3>1. /\ endpoints[m] = NoAddress => <<t, m>> \notin captures
          /\ captures' = captures \cup {<<t, m>>} /\ forgotten' = forgotten
          /\ endpoints' = [endpoints EXCEPT ![m] = Declares[t].address]
          /\ author' = IF endpoints[m] = NoAddress THEN [author EXCEPT ![m] = {t}] ELSE author
      BY <1>2, <2>2 DEF CaptureUserEndpoint
    <3>2. ASSUME NEW n \in Names, NEW u \in Turns, endpoints'[n] # NoAddress, author'[n] = {u}
          PROVE  <<u, n>> \notin forgotten
      <4>1. CASE n = m /\ endpoints[m] = NoAddress
        BY <3>1, <3>2, <4>1
      <4>2. CASE n # m \/ endpoints[m] # NoAddress
        BY <3>1, <3>2, <4>2
      <4> QED
        BY <4>1, <4>2
    <3> QED
      BY <3>1, <3>2
  <2> QED
    BY <2>1, <2>2
<1>3. ASSUME NEW m \in Names, ForgetUserEndpoint(m) PROVE ForgottenInv'
  BY <1>3 DEF ForgetUserEndpoint
<1>4. CASE UNCHANGED epvars
  BY <1>4 DEF epvars
<1> QED
  BY <1>1, <1>2, <1>3, <1>4 DEF EndpointsNext

\* A turn that is resumed after the user forgot a name it had settled does not bring
\* the name back, for any number of turns, names and resumptions
\* (captureUserEndpoint, ForgetUserEndpoint).
THEOREM ForgottenStays == EndpointsSpec => []ForgottenStaysForgotten
<1>1. EndpointsInit => ForgottenInv
  BY DEF EndpointsInit, ForgottenInv, ForgottenStaysForgotten
<1>2. ForgottenInv => ForgottenStaysForgotten
  BY DEF ForgottenInv
<1> QED
  BY <1>1, <1>2, ForgottenStep, PTL DEF EndpointsSpec
=============================================================================
