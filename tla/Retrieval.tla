----------------------------- MODULE Retrieval -----------------------------
(* How a grounded turn finds its sources (retrieve.rs): each mounted pack's
   dense and lexical results are fused into one ranking, each pack is judged by
   its own gate, the packs that pass are fused, and the best chunks, one of a
   section, are cited. Cosines and thresholds are in hundredths. *)
EXTENDS Integers, Sequences, FiniteSets, SequencesExt, Ordering

CONSTANTS
  Queries,   \* the mounted packs of a query, in order, each with what its lanes
             \* return: [tier, floor, margin, dense, lexical, cos, key, docs];
             \* key the doc and section of each chunk whose row exists, docs
             \* those whose document's row does
  TierN,     \* Tier::n
  KRrf,      \* DEFAULT_K_RRF
  GateRank   \* the rank the gate's margin is taken at (10)
ASSUME RetrievalAssumption ==
  /\ TierN \in Nat \ {0} /\ KRrf \in Nat \ {0} /\ GateRank \in Nat \ {0}
  /\ \A q \in Queries :
       /\ Len(q) \in Nat /\ DOMAIN q = 1..Len(q)
       /\ \A k \in DOMAIN q : q[k].dense \in Seq(Nat) /\ q[k].lexical \in Seq(Nat)

VARIABLES
  packs,     \* the mounted packs
  phase,
  hits,      \* the candidates of the packs searched, best first
  passing,   \* the packs that pass their gate
  unified,   \* their candidates in one ranking: <<pack, rank in its pack>>
  at,        \* the rank the walk over the unified ranking has reached
  selected,  \* the chunks selected: <<pack, chunk>>
  cited      \* the citations
qvars == <<packs, phase, hits, passing, unified, at, selected, cited>>

PersonalFloor == 30
PersonalMargin == 0

QInit ==
  /\ packs \in Queries /\ phase = "search" /\ hits = <<>> /\ passing = {}
  /\ unified = <<>> /\ at = 1 /\ selected = <<>> /\ cited = <<>>

Rank(lane, ch) == IF Contains(lane, ch) THEN CHOOSE r \in DOMAIN lane : lane[r] = ch ELSE 0
\* rrf: ch's score, the sum of 1 / (KRrf + rank) over the lanes that hold it, as
\* a numerator and a denominator; ch before o, ties by chunk id.
Num(p, ch) == (IF Contains(p.dense, ch) THEN KRrf + Rank(p.lexical, ch) ELSE 0)
              + (IF Contains(p.lexical, ch) THEN KRrf + Rank(p.dense, ch) ELSE 0)
Den(p, ch) == (KRrf + Rank(p.dense, ch)) * (KRrf + Rank(p.lexical, ch))
Before(p, ch, o) ==
  LET a == Num(p, ch) * Den(p, o)
      b == Num(p, o) * Den(p, ch)
  IN a > b \/ (a = b /\ ch < o)
Found(p) == ToSet(p.dense) \cup ToSet(p.lexical)
Fused(p) == Ordered(Found(p), LAMBDA ch, o : Before(p, ch, o))

\* retrieve_pack
Search ==
  /\ phase = "search" /\ Len(hits) < Len(packs)
  /\ hits' = Append(hits, Fused(packs[Len(hits) + 1]))
  /\ UNCHANGED <<packs, phase, passing, unified, at, selected, cited>>

\* pack_passes_gate: the best cosine reaches the floor, and is ahead of the one
\* at GateRank by the margin.
Cosines(p, hit) == SortSeq([r \in DOMAIN hit |-> p.cos[hit[r]]], >)
PassesGate(p, hit, floor, margin) ==
  /\ hit # <<>>
  /\ LET cosines == Cosines(p, hit)
         nth == IF Len(hit) < GateRank THEN Len(hit) ELSE GateRank
     IN /\ cosines[1] >= floor
        /\ Len(hit) > 1 => cosines[1] - cosines[nth] >= margin
Floor(p) == IF p.tier = "personal" THEN PersonalFloor ELSE p.floor
Margin(p) == IF p.tier = "personal" THEN PersonalMargin ELSE p.margin

Passing(k) == PassesGate(packs[k], hits[k], Floor(packs[k]), Margin(packs[k]))

\* cross_pack_rrf: a chunk is in the lane of its own pack alone, so the fused
\* score is 1 / (KRrf + rank there); ties by pack, then by chunk.
\* Mutant: one pack's candidates after the other's.
Unified_Appended(ks) ==
  Ordered(UNION {{<<k, r>> : r \in DOMAIN hits[k]} : k \in ks},
          LAMBDA x, y : x[1] < y[1] \/ (x[1] = y[1] /\ x[2] < y[2]))
Unified(ks) ==
  Ordered(UNION {{<<k, r>> : r \in DOMAIN hits[k]} : k \in ks},
          LAMBDA x, y : x[2] < y[2] \/ (x[2] = y[2] /\ x[1] < y[1]))

\* assemble 1 to 3: each pack by its own gate, before any mixing
Gate ==
  /\ phase = "search" /\ Len(hits) = Len(packs)
  /\ passing' = {k \in DOMAIN packs : Passing(k)}
  /\ unified' = Unified(passing')
  /\ phase' = IF passing' = {} THEN "noEvidence" ELSE "select"
  /\ UNCHANGED <<packs, hits, at, selected, cited>>

Key(e) == <<e[1], packs[e[1]].key[e[2]]>>
HasRow(e) == e[2] \in DOMAIN packs[e[1]].key
Chosen(e) == \E r \in DOMAIN selected : Key(selected[r]) = Key(e)
Full == Len(selected) >= TierN \/ at > Len(unified)

Select ==
  /\ phase = "select" /\ ~Full /\ at' = at + 1
  /\ LET x == unified[at]
         e == <<x[1], hits[x[1]][x[2]]>>
     IN selected' = IF ~HasRow(e) \/ Chosen(e) THEN selected ELSE Append(selected, e)
  /\ UNCHANGED <<packs, phase, hits, passing, unified, cited>>

\* assemble 5: the chunks whose document's row exists are cited.
HasDoc(e) == packs[e[1]].key[e[2]] \in packs[e[1]].docs
Resolve ==
  /\ phase = "select" /\ Full
  /\ LET kept == Ordered({r \in DOMAIN selected : HasDoc(selected[r])}, <)
     IN cited' = [r \in DOMAIN kept |-> selected[kept[r]]]
  /\ phase' = IF cited' = <<>> THEN "noEvidence" ELSE "grounded"
  /\ UNCHANGED <<packs, hits, passing, unified, at, selected>>

QNext == Search \/ Gate \/ Select \/ Resolve
QSpec == QInit /\ [][QNext]_qvars /\ WF_qvars(QNext)

-----------------------------------------------------------------------------
\* A pack that passes its gate is heard: however well the others' chunks rank,
\* its best chunk is cited when there is room for one of each pack (and its
\* document exists).
EachPackHeard ==
  phase = "grounded" /\ Len(packs) <= TierN =>
    \A k \in passing :
      LET best == hits[k][1] IN
      HasRow(<<k, best>>) /\ HasDoc(<<k, best>>)
        => \E r \in DOMAIN cited : cited[r] = <<k, best>>

=============================================================================
