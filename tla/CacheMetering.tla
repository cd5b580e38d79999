--------------------------- MODULE CacheMetering ---------------------------
(***************************************************************************)
(* The prompt cache the proxy simulates (src/anthropic/cache_metering.rs): *)
(* which prefixes of a request were sent before in the same session, how   *)
(* many tokens of the answer's usage count as read from or written to the  *)
(* cache, and the file that carries the table over a restart.              *)
(*                                                                         *)
(* A prefix is identified by what is fed to the hash: the isolation seed   *)
(* and the signatures in order.  SHA-256 is taken to be injective on them. *)
(***************************************************************************)
EXTENDS Integers, FiniteSets, Sequences, SequencesExt, FiniteSetsExt, Subsequences

CONSTANTS
  Capacity,     \* DEFAULT_CAPACITY: entries the table may hold
  ShortTtl,     \* DEFAULT_TTL_SECS ("5m"), in ticks of the model's clock
  LongTtl,      \* MAX_TTL_SECS ("1h")
  MaxTime,      \* bound of the model: the clock stops here
  NoSession     \* metadata without a session

ASSUME CapacityAssumption == Capacity \in Nat \ {0}
ASSUME TtlAssumption == ShortTtl \in Nat \ {0} /\ LongTtl \in Nat /\ LongTtl >= ShortTtl

VARIABLES
  entries,  \* Inner.entries: prefix -> [expires, hit]
  dirty,    \* Inner.dirty: changed since the last snapshot
  writing,  \* snapshots taken by flush_to_disk and not yet written: at most one
  disk,     \* what the next start can read back from persist_path
  now       \* now_secs()

cacheVars == <<entries, dirty, writing, disk, now>>

NoEntries == [h \in {} |-> [expires |-> 0, hit |-> 0]]

----------------------------------------------------------------------------
(* Segments of a request *)

\* Mutant: the session is ignored.
SeedOfKey(q) == <<"key", q.key>>

\* The seed the hash chain starts with: the session, else the key; the master
\* key 0 without a session has none and nothing of its requests is cached.
IsolationSeed(q) ==
  IF q.session # NoSession THEN <<"sess", q.session>> ELSE <<"key", q.key>>

CacheEnabled(q) == q.session # NoSession \/ q.key # 0

\* A piece of the prompt: its signature, its tokens, whether it is hashed, and
\* whether a segment may be cut behind it.
Piece(sig, tok, hashed, cut) == [sig |-> sig, tok |-> tok, hashed |-> hashed, cut |-> cut]

\* Tools are hashed; system blocks are hashed from the first one that carries
\* cache_control on, because the client puts what changes in front of it.
SkippedBlock(system, i) ==
  /\ \E j \in DOMAIN system : system[j].ttl # "none"
  /\ \A j \in 1..i : system[j].ttl = "none"

BasePieces(q) ==
  LET nt == Len(q.tools)
      n  == nt + Len(q.system)
  IN [i \in 1..n |->
        IF i <= nt THEN Piece(q.tools[i].sig, q.tools[i].tok, TRUE, i = n)
        ELSE Piece(q.system[i - nt].sig, q.system[i - nt].tok,
                   ~SkippedBlock(q.system, i - nt), i = n)]

\* The role, then the blocks.  Every message but the last ends a segment; a
\* block with cache_control ends one wherever it stands.
MessagePieces(msg, isLast) ==
  LET n == Len(msg.blocks)
  IN <<Piece(msg.role, 0, TRUE, n = 0 /\ ~isLast)>> \o
     [i \in 1..n |-> Piece(msg.blocks[i].sig, msg.blocks[i].tok, TRUE,
                           msg.blocks[i].ttl # "none" \/ (i = n /\ ~isLast))]

Pieces(q) ==
  BasePieces(q) \o
  FlattenSeq([i \in 1..Len(q.messages) |->
                MessagePieces(q.messages[i], i = Len(q.messages))])

SumTokens(ps) == Total([i \in DOMAIN ps |-> ps[i].tok])

Hashed(ps) == Pick(ps, {i \in DOMAIN ps : ps[i].hashed})

\* The chain of growing prefixes: one segment per cut behind which the hashed
\* pieces have tokens.
SegmentAt(ps, i, seed) ==
  LET hashed == Hashed(SubSeq(ps, 1, i))
  IN [hash |-> <<seed>> \o [j \in DOMAIN hashed |-> hashed[j].sig], tokens |-> SumTokens(hashed)]

SegmentsOf(ps, seed) ==
  LET segs == [i \in DOMAIN ps |-> SegmentAt(ps, i, seed)]
  IN Pick(segs, {i \in DOMAIN ps : ps[i].cut /\ segs[i].tokens > 0})

ExtractSegments(q) == IF CacheEnabled(q) THEN SegmentsOf(Pieces(q), IsolationSeed(q)) ELSE <<>>

\* One lifetime for the whole request: the longest any cache_control asks for.
DetectMaxTtl(q) ==
  IF \/ \E i \in DOMAIN q.tools : q.tools[i].ttl = "1h"
     \/ \E i \in DOMAIN q.system : q.system[i].ttl = "1h"
     \/ \E i \in DOMAIN q.messages : \E j \in DOMAIN q.messages[i].blocks :
          q.messages[i].blocks[j].ttl = "1h"
  THEN LongTtl
  ELSE ShortTtl

----------------------------------------------------------------------------
(* What a request costs *)

Unexpired(table) == {h \in DOMAIN table : table[h].expires > now}

\* The segments found in the table: lookup.
Hits(segs) == {i \in DOMAIN segs : segs[i].hash \in Unexpired(entries)}

NoPlan == [hashes |-> <<>>, hits |-> {}, read |-> 0, covered |-> 0, total |-> 0, ttl |-> ShortTtl]

\* cache_read is the deepest prefix found, covered the deepest one cut.
PlanOf(segs, hits, total, ttl) ==
  [hashes  |-> [i \in DOMAIN segs |-> segs[i].hash],
   hits    |-> {segs[i].hash : i \in hits},
   read    |-> IF hits = {} THEN 0 ELSE segs[Max(hits)].tokens,
   covered |-> IF segs = <<>> THEN 0 ELSE Last(segs).tokens,
   total   |-> total,
   ttl     |-> ttl]

ComputeCacheUsage(q, segs) ==
  PlanOf(segs, Hits(segs), SumTokens(Pieces(q)), DetectMaxTtl(q))

\* Mutant: what is looked up is recorded, before the upstream has answered.
TouchedAndRecorded(hashes) ==
  [h \in DOMAIN entries \union hashes |->
     IF h \in hashes THEN [expires |-> now + ShortTtl, hit |-> now] ELSE entries[h]]

\* lookup also marks what it found as used.
Touched(hashes) ==
  [h \in DOMAIN entries |->
     IF h \in hashes /\ h \in Unexpired(entries) THEN [entries[h] EXCEPT !.hit = now]
     ELSE entries[h]]

\* f64::round of a quotient.
RoundDiv(a, b) == (2 * a + b) \div (2 * b)

\* The tokens of the whole prompt divided into input, creation and read.
SplitAgainstTotal(plan, total) ==
  IF plan.covered = 0 \/ plan.total = 0 THEN <<total, 0, 0>>
  ELSE LET cached == Min({RoundDiv(total * Min({plan.covered, plan.total}), plan.total), total})
           read   == Min({RoundDiv(cached * plan.read, plan.covered), cached})
       IN <<total - cached, cached - read, read>>

----------------------------------------------------------------------------
(* The table *)

Recorded(hashes, ttl) ==
  [h \in DOMAIN entries \union hashes |->
     IF h \in hashes THEN [expires |-> now + ttl, hit |-> now] ELSE entries[h]]

\* Over capacity the least recently hit entries go; equal times go in the order
\* of the hash map, that is in any.
Victims(table) ==
  {gone \in SUBSET DOMAIN table :
     /\ Cardinality(gone) = Max({0, Cardinality(DOMAIN table) - Capacity})
     /\ \A h \in gone : \A k \in DOMAIN table \ gone : table[h].hit <= table[k].hit}

KeepOnly(table, keep) == [h \in keep |-> table[h]]

\* CacheMeter::record, called by commit_success.  A plan without segments has
\* nothing to commit: compute_cache_usage returned before it made one.
CommitSuccess(plan) ==
  IF plan.hashes = <<>> THEN UNCHANGED <<entries, dirty>>
  ELSE /\ \E gone \in Victims(Recorded(ToSet(plan.hashes), plan.ttl)) :
            entries' = KeepOnly(Recorded(ToSet(plan.hashes), plan.ttl),
                                (DOMAIN entries \union ToSet(plan.hashes)) \ gone)
       /\ dirty' = TRUE

\* The background task: evict_expired, then flush_to_disk up to its snapshot,
\* which clears dirty before anything is written.
Snapshot ==
  /\ writing = {}
  /\ entries' = KeepOnly(entries, Unexpired(entries))
  /\ dirty \/ Unexpired(entries) # DOMAIN entries
  /\ dirty' = FALSE
  /\ writing' = {entries'}
  /\ UNCHANGED <<disk, now>>

\* fs::write, which may fail; the failure is logged only.
WriteSnapshot ==
  /\ writing # {}
  /\ disk' \in writing \union {disk}
  /\ writing' = {}
  /\ UNCHANGED <<entries, dirty, now>>

Tick ==
  /\ now < MaxTime
  /\ now' = now + 1
  /\ UNCHANGED <<entries, dirty, writing, disk>>

\* The process ends and CacheMeter::new reads the file back.  A write under way
\* leaves the old file, the new one, or a truncated one that does not parse.
ReloadCache ==
  /\ disk' \in {disk} \union (IF writing = {} THEN {} ELSE writing \union {NoEntries})
  /\ entries' = KeepOnly(disk', Unexpired(disk'))
  /\ dirty' = FALSE
  /\ writing' = {}
  /\ UNCHANGED now

CacheInit ==
  /\ entries = NoEntries
  /\ disk = NoEntries
  /\ dirty = FALSE
  /\ writing = {}
  /\ now = 0

=============================================================================
