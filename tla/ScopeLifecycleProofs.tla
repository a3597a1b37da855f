------------------------ MODULE ScopeLifecycleProofs ------------------------
(***************************************************************************)
(* Theorems about ScopeLifecycle for any scopes, product lines and         *)
(* workers, however requests overlap except where a property says until.   *)
(***************************************************************************)
EXTENDS ScopeLifecycle, FiniteSetTheorems, SequenceTheorems, TLAPS

-----------------------------------------------------------------------------
(* Numbers.                                                                *)

(* A draw of m numbers gives the m that follow the counter.                *)
LEMMA NumbersAre ==
  ASSUME TypeOK, NEW k \in Series, NEW m \in Nat
  PROVE  /\ Numbers(k, m) \in Seq(Nat)
         /\ Len(Numbers(k, m)) = m
         /\ \A i \in 1..m : Numbers(k, m)[i] = counter[k] + i
<1>1. counter[k] \in Nat
  BY DEF TypeOK
<1>2. \A i \in 1..m : Next1(k) + i - 1 \in Nat /\ Next1(k) + i - 1 = counter[k] + i
  BY <1>1 DEF Next1
<1>3. Numbers(k, m) \in [1..m -> Nat]
  BY <1>2 DEF Numbers
<1>4. Numbers(k, m) \in Seq(Nat)
  BY <1>3
<1>5. Len(Numbers(k, m)) = m
  BY <1>3, <1>4
<1>6. \A i \in 1..m : Numbers(k, m)[i] = counter[k] + i
  BY <1>2 DEF Numbers
<1> QED BY <1>4, <1>5, <1>6

(* Numbers above those drawn before can be appended to them.               *)
LEMMA Extension ==
  ASSUME NEW old \in Seq(Nat), NEW new \in Seq(Nat), NEW c \in Nat, NEW m \in Nat,
         IsInjective(old), \A i \in DOMAIN old : old[i] \in 1..c,
         Len(new) = m, \A i \in 1..m : new[i] = c + i
  PROVE  /\ old \o new \in Seq(Nat)
         /\ IsInjective(old \o new)
         /\ \A i \in DOMAIN (old \o new) : (old \o new)[i] \in 1..(c + m)
<1> DEFINE all == old \o new
           n == Len(old)
<1>1. n \in Nat /\ DOMAIN old = 1..n
  BY LenProperties
<1>2. /\ all \in Seq(Nat) /\ Len(all) = n + m
      /\ \A i \in 1..(n + m) : all[i] = IF i <= n THEN old[i] ELSE new[i - n]
  BY ConcatProperties
<1>3. DOMAIN all = 1..(n + m)
  BY <1>1, <1>2, LenProperties
<1> HIDE DEF all, n
<1>4. ASSUME NEW i \in 1..(n + m)
      PROVE  \/ i \in 1..n /\ all[i] = old[i] /\ old[i] \in 1..c
             \/ i > n /\ all[i] = c + (i - n)
  <2>1. CASE i <= n
    <3>1. i \in DOMAIN old
      BY <1>1, <2>1
    <3>2. all[i] = old[i]
      BY <1>2, <2>1
    <3> QED BY <1>1, <3>1, <3>2
  <2>2. CASE i > n
    <3>1. i - n \in 1..m /\ all[i] = new[i - n]
      BY <1>1, <1>2, <2>2
    <3> QED BY <2>2, <3>1
  <2> QED BY <1>1, <2>1, <2>2
<1>5. ASSUME NEW i \in DOMAIN all PROVE all[i] \in 1..(c + m)
  <2>1. i \in 1..(n + m)
    BY <1>3
  <2> QED BY <1>1, <1>4, <2>1
<1>6. \A i, j \in 1..n : old[i] = old[j] => i = j
  BY <1>1 DEF IsInjective
<1>7. ASSUME NEW i \in DOMAIN all, NEW j \in DOMAIN all, all[i] = all[j] PROVE i = j
  <2>1. i \in 1..(n + m) /\ j \in 1..(n + m)
    BY <1>3
  <2>2. CASE i \in 1..n /\ j \in 1..n
    BY <1>1, <1>4, <1>6, <1>7, <2>1, <2>2
  <2>3. CASE i \notin 1..n \/ j \notin 1..n
    BY <1>1, <1>4, <1>7, <2>1, <2>3
  <2> QED BY <2>2, <2>3
<1> QED BY <1>2, <1>5, <1>7 DEF all, IsInjective

(* A series is led by its counter: its numbers differ and are not above it.*)
Led(k) ==
  /\ IsInjective(issued[k])
  /\ \A i \in DOMAIN issued[k] : issued[k][i] \in 1..counter[k]

(* What a transaction may draw: of each series the numbers that follow.    *)
Following(numbers) ==
  \A k \in DOMAIN numbers : k \in Series /\ \E m \in Nat : numbers[k] = Numbers(k, m)

LEMMA DrawsLead ==
  ASSUME TypeOK, \A k \in Series : Led(k), NEW numbers, Following(numbers), Draws(numbers)
  PROVE  /\ counter' \in [Series -> Nat]
         /\ issued' \in [Series -> Seq(Nat)]
         /\ \A k \in Series : Led(k)'
<1>1. ASSUME NEW k \in Series
      PROVE  counter'[k] \in Nat /\ issued'[k] \in Seq(Nat) /\ Led(k)'
  <2>1. counter[k] \in Nat /\ issued[k] \in Seq(Nat)
    BY DEF TypeOK
  <2>2. Led(k)
    OBVIOUS
  <2>3. CASE k \notin DOMAIN numbers
    <3>1. counter'[k] = counter[k] /\ issued'[k] = issued[k]
      BY <2>3 DEF Draws
    <3> QED BY <2>1, <2>2, <3>1 DEF Led, IsInjective
  <2>4. CASE k \in DOMAIN numbers
    <3>1. PICK m \in Nat : numbers[k] = Numbers(k, m)
      BY <2>4 DEF Following
    <3> DEFINE new == numbers[k]
    <3>2. /\ new \in Seq(Nat) /\ Len(new) = m
          /\ \A i \in 1..m : new[i] = counter[k] + i
      BY <3>1, NumbersAre
    <3>3. issued'[k] = issued[k] \o new
      BY <2>4 DEF Draws
    <3>4. counter'[k] = counter[k] + m
      <4>1. CASE m = 0
        <5>1. new = <<>>
          BY <3>2, <4>1, EmptySeq
        <5> QED BY <2>1, <4>1, <5>1 DEF Draws
      <4>2. CASE m # 0
        <5>1. new # <<>>
          BY <3>2, <4>2, EmptySeq
        <5>2. counter'[k] = new[Len(new)]
          BY <2>4, <5>1 DEF Draws
        <5> QED BY <3>2, <4>2, <5>2
      <4> QED BY <4>1, <4>2
    <3>5. /\ issued[k] \o new \in Seq(Nat) /\ IsInjective(issued[k] \o new)
          /\ \A i \in DOMAIN (issued[k] \o new) : (issued[k] \o new)[i] \in 1..(counter[k] + m)
      <4> HIDE DEF new
      <4> QED BY <2>1, <2>2, <3>2, Extension DEF Led
    <3>6. counter'[k] \in Nat
      BY <2>1, <3>4
    <3>7. Led(k)'
      BY <3>3, <3>4, <3>5 DEF Led
    <3> QED BY <3>3, <3>5, <3>6, <3>7
  <2> QED BY <2>3, <2>4
<1> QED BY <1>1 DEF Draws

-----------------------------------------------------------------------------
(* Campaigns.                                                              *)

\* The generations of scope s that exist.
Generations(s) == {c.generation : c \in {d \in campaigns : d.scope = s}}
Numbered(s) == \E n \in Nat : Generations(s) = 1..n

LEMMA WantedType ==
  ASSUME NEW s \in Scopes
  PROVE  /\ Wanted(s) \subseteq Lines \X (0..4)
         /\ \A c \in Wanted(s) : c[1] \in LinesOf[s] /\ c = <<c[1], c[2]>>
<1>1. LinesOf[s] \subseteq Lines
  BY LineAssumption
<1>2. \A l \in Lines : Parts(l) \subseteq 0..4
  BY DEF Parts, Sprints
<1> QED BY <1>1, <1>2 DEF Wanted

LEMMA CountOfMade ==
  ASSUME NEW s \in Scopes, NEW some \in SUBSET Made(s)
  PROVE  Cardinality(some) \in Nat
<1>1. IsFiniteSet(Lines \X (0..4))
  <2>1. IsFiniteSet(Lines)
    BY LineAssumption
  <2>2. 0 \in Int /\ 4 \in Int
    OBVIOUS
  <2>3. IsFiniteSet(0..4)
    BY <2>2, FS_Interval, Zenon
  <2> QED BY <2>1, <2>3, FS_Product
<1>2. some \subseteq Lines \X (0..4)
  BY WantedType DEF Made
<1>3. IsFiniteSet(some)
  BY <1>1, <1>2, FS_Subset
<1> QED BY <1>3, FS_CardinalityType

(* What a generation draws follows the counters.                           *)
LEMMA CampaignsFollow ==
  ASSUME NEW s \in Scopes
  PROVE  Following(CampaignNumbers(s))
<1> SUFFICES ASSUME NEW k \in DOMAIN CampaignNumbers(s)
             PROVE  k \in Series /\ \E m \in Nat : CampaignNumbers(s)[k] = Numbers(k, m)
  BY DEF Following
<1>1. k \in {CampaignSeriesOf(s, l) : l \in LinesOf[s]}
  BY DEF CampaignNumbers
<1>2. k \in Series
  BY <1>1, BrandAssumption, LineAssumption DEF CampaignSeriesOf, Series, CampaignSeries
<1> DEFINE drawn == {c \in Made(s) : CampaignSeriesOf(s, c[1]) = k}
<1>3. Cardinality(drawn) \in Nat
  BY CountOfMade
<1>4. CampaignNumbers(s)[k] = Numbers(k, Cardinality(drawn))
  BY <1>1 DEF CampaignNumbers
<1> QED BY <1>2, <1>3, <1>4

LEMMA NextGeneration ==
  ASSUME NEW s \in Scopes, NEW n \in Nat, Generations(s) = 1..n
  PROVE  Generation(s) = n + 1
<1>1. Cardinality(1..n) = n
  BY FS_Interval
<1>2. Generation(s) = 1 + Cardinality(Generations(s))
  BY Zenon DEF Generation, Generations
<1> QED BY <1>1, <1>2

LEMMA NewCampaignsType ==
  ASSUME NEW s \in Scopes, Numbered(s)
  PROVE  NewCampaigns(s) \subseteq Campaign
<1>1. Generation(s) \in Nat
  BY NextGeneration DEF Numbered
<1> QED BY <1>1, WantedType DEF NewCampaigns, Made, Campaign

-----------------------------------------------------------------------------
(* The invariant.  An open session writes only statuses of a scope that    *)
(* exists, so only a deletion ends one; and as the generations of a scope  *)
(* are numbered without a gap, a new one is really new.                    *)

Live == Status \ {"absent", "deleted"}

Begun(w) == ~Idle(w) => tx[w].status \subseteq Live /\ scope[tx[w].s].status # "absent"

ScopeInv ==
  /\ TypeOK
  /\ \A k \in Series : Led(k)
  /\ \A w \in Workers : Begun(w)
  /\ CampaignsHaveTheirScope
  /\ \A s \in Scopes : Numbered(s)
  /\ GenerationIsWhole

LEMMA ScopeInit == Init => ScopeInv
<1> SUFFICES ASSUME Init PROVE ScopeInv
  OBVIOUS
<1> USE DEF Init
<1>1. TypeOK
  <2>1. NewScope \in ScopeRow
    BY DEF NewScope, ScopeRow, Status
  <2>2. issued \in [Series -> Seq(Nat)]
    BY EmptySeq
  <2> QED BY <2>1, <2>2 DEF TypeOK
<1>2. \A k \in Series : Led(k)
  BY DEF Led, IsInjective
<1>3. \A w \in Workers : Begun(w)
  BY DEF Begun, Idle
<1>4. \A s \in Scopes : Numbered(s)
  <2>1. \A s \in Scopes : Generations(s) = 1..0
    BY DEF Generations
  <2> QED BY <2>1 DEF Numbered
<1> QED BY <1>1, <1>2, <1>3, <1>4 DEF ScopeInv, CampaignsHaveTheirScope, GenerationIsWhole

(* What a session that opens will write.                                   *)
LEMMA BeginType ==
  ASSUME TypeOK, NEW w \in Workers, NEW s \in Scopes, NEW new \in ScopeRow,
         new.status \in Live, NEW draw \in {"none", "scope", "campaigns"}, Begin(w, s, new, draw)
  PROVE  TypeOK' /\ ((\A v \in Workers : Begun(v)) => (\A v \in Workers : Begun(v)'))
<1> DEFINE t == tx'[w]
<1>1. t = [s |-> s, status |-> Change(new.status, scope[s].status),
           ready |-> Change(new.ready, scope[s].ready),
           complete |-> Change(new.complete, scope[s].complete), draw |-> draw]
  BY DEF Begin, TypeOK
<1>2. t \in Session
  <2>1. /\ Change(new.status, scope[s].status) \subseteq Status
        /\ Change(new.ready, scope[s].ready) \subseteq BOOLEAN
        /\ Change(new.complete, scope[s].complete) \subseteq BOOLEAN
    BY DEF Change, ScopeRow
  <2> QED BY <1>1, <2>1 DEF Session
<1>3. TypeOK'
  <2>1. tx' \in [Workers -> Session \union {NoTx}]
    BY <1>1, <1>2 DEF Begin, TypeOK
  <2>2. overlapped' \in BOOLEAN
    BY DEF Begin, TypeOK
  <2> QED BY <2>1, <2>2 DEF Begin, TypeOK
<1>4. ASSUME \A v \in Workers : Begun(v), NEW v \in Workers PROVE Begun(v)'
  <2>1. CASE v = w
    <3>1. t.status \subseteq Live /\ t.s = s
      BY <1>1 DEF Change
    <3>2. scope'[s].status # "absent"
      BY DEF Begin, Exists
    <3> QED BY <2>1, <3>1, <3>2 DEF Begun
  <2>2. CASE v # w
    <3>1. tx'[v] = tx[v] /\ scope' = scope
      BY <2>2 DEF Begin, TypeOK
    <3> QED BY <1>4, <3>1 DEF Begun, Idle
  <2> QED BY <2>1, <2>2
<1> QED BY <1>3, <1>4

LEMMA WrittenIn ==
  ASSUME NEW S, NEW change \in SUBSET S, NEW current \in S
  PROVE  Written(change, current) \in S /\ (change # {} => Written(change, current) \in change)
BY DEF Written

LEMMA CreateStep ==
  ASSUME ScopeInv, NEW s \in Scopes, NEW complete \in BOOLEAN, CreateScope(s, complete)
  PROVE  ScopeInv'
<1> DEFINE k == <<BrandOf[s]>>
<1>1. k \in Series
  BY BrandAssumption DEF Series, ScopeSeries
<1>2. TypeOK /\ \A j \in Series : Led(j)
  BY DEF ScopeInv
<1>3. Following(Drawn(k, 1)) /\ Draws(Drawn(k, 1))
  BY <1>1 DEF Following, Drawn, CreateScope
<1>4. /\ counter' \in [Series -> Nat] /\ issued' \in [Series -> Seq(Nat)]
      /\ \A j \in Series : Led(j)'
  BY <1>2, <1>3, DrawsLead
<1>5. Numbers(k, 1)[1] \in Nat
  BY <1>1, <1>2, NumbersAre DEF TypeOK
<1>6. scope' \in [Scopes -> ScopeRow] /\ scope'[s].status = "draft"
      /\ \A r \in Scopes \ {s} : scope'[r] = scope[r]
  <2>1. [status |-> "draft", ready |-> FALSE, complete |-> complete,
         number |-> Numbers(k, 1)[1]] \in ScopeRow
    BY <1>5 DEF ScopeRow, Status
  <2> QED BY <1>2, <2>1 DEF CreateScope, TypeOK
<1>7. TypeOK'
  BY <1>2, <1>4, <1>6 DEF TypeOK, CreateScope
<1>8. \A w \in Workers : Begun(w)'
  BY <1>2, <1>6 DEF ScopeInv, Begun, Idle, CreateScope, TypeOK, Session
<1>9. CampaignsHaveTheirScope'
  BY <1>2, <1>6 DEF ScopeInv, CampaignsHaveTheirScope, Exists, CreateScope, TypeOK, Campaign
<1>10. (\A r \in Scopes : Numbered(r)') /\ GenerationIsWhole'
  BY DEF ScopeInv, Numbered, Generations, GenerationIsWhole, CreateScope, Wanted
<1> QED BY <1>4, <1>7, <1>8, <1>9, <1>10 DEF ScopeInv

LEMMA EditStep ==
  ASSUME ScopeInv, NEW w \in Workers, CommitEdit(w)
  PROVE  ScopeInv'
<1> DEFINE t == tx[w]
           k == <<BrandOf[t.s]>>
           numbers == IF t.draw = "scope" THEN Drawn(k, 1) ELSE <<>>
<1>1. TypeOK /\ \A j \in Series : Led(j)
  BY DEF ScopeInv
<1>2. t \in Session /\ t.s \in Scopes /\ t.status \subseteq Live /\ scope[t.s] \in ScopeRow
      /\ scope[t.s].status \in Live
  <2>1. t \in Session
    BY <1>1 DEF CommitEdit, Idle, TypeOK
  <2>2. t.s \in Scopes
    BY <2>1 DEF Session
  <2>3. scope[t.s] \in ScopeRow
    BY <1>1, <2>2 DEF TypeOK
  <2>4. scope[t.s].status \in Live
    BY <2>3 DEF CommitEdit, Exists, Live, ScopeRow
  <2>5. t.status \subseteq Live
    BY DEF CommitEdit, ScopeInv, Begun
  <2> QED BY <2>1, <2>2, <2>3, <2>4, <2>5
<1>3. k \in Series
  BY <1>2, BrandAssumption DEF Series, ScopeSeries
<1>4. Following(numbers) /\ Draws(numbers)
  <2>1. Following(numbers)
    BY <1>3 DEF Following, Drawn
  <2> QED BY <2>1 DEF CommitEdit
<1>5. /\ counter' \in [Series -> Nat] /\ issued' \in [Series -> Seq(Nat)]
      /\ \A j \in Series : Led(j)'
  <2> HIDE DEF numbers
  <2> QED BY <1>1, <1>4, DrawsLead
<1>6. Numbers(k, 1)[1] \in Nat
  BY <1>1, <1>3, NumbersAre DEF TypeOK
<1>7. /\ scope' \in [Scopes -> ScopeRow] /\ scope'[t.s].status \in Live
      /\ \A r \in Scopes \ {t.s} : scope'[r] = scope[r]
  <2> DEFINE row == [status |-> Written(t.status, scope[t.s].status),
                     ready |-> Written(t.ready, scope[t.s].ready),
                     complete |-> Written(t.complete, scope[t.s].complete),
                     number |-> IF t.draw = "scope" THEN Numbers(k, 1)[1]
                                ELSE scope[t.s].number]
  <2>1. scope' = [scope EXCEPT ![t.s] = row]
    BY DEF CommitEdit
  <2>2. row.status \in Live
    BY <1>2, WrittenIn
  <2>3. Live \subseteq Status
    BY DEF Live
  <2>4. row \in ScopeRow
    <3>1. Written(t.ready, scope[t.s].ready) \in BOOLEAN
      BY <1>2, WrittenIn DEF Session, ScopeRow
    <3>2. Written(t.complete, scope[t.s].complete) \in BOOLEAN
      BY <1>2, WrittenIn DEF Session, ScopeRow
    <3> QED BY <1>2, <1>6, <2>2, <2>3, <3>1, <3>2 DEF ScopeRow
  <2> HIDE DEF row
  <2> QED BY <1>1, <1>2, <2>1, <2>2, <2>4 DEF TypeOK
<1>8. TypeOK'
  <2>1. passes' \in [Scopes -> Nat]
    <3>1. passes[t.s] + (IF "readiness_passed" \in t.status THEN 1 ELSE 0) \in Nat
      BY <1>1, <1>2 DEF TypeOK
    <3> QED BY <1>1, <3>1 DEF TypeOK, CommitEdit
  <2>2. tx' \in [Workers -> Session \union {NoTx}]
    BY <1>1 DEF TypeOK, CommitEdit
  <2> QED BY <1>1, <1>5, <1>7, <2>1, <2>2 DEF TypeOK, CommitEdit
<1>9. \A v \in Workers : Begun(v)'
  <2> SUFFICES ASSUME NEW v \in Workers, tx'[v] # NoTx
               PROVE  tx'[v].status \subseteq Live /\ scope'[tx'[v].s].status # "absent"
    BY DEF Begun, Idle
  <2>1. v # w /\ tx'[v] = tx[v]
    BY <1>1 DEF CommitEdit, TypeOK
  <2>2. tx[v].s \in Scopes /\ tx[v].status \subseteq Live /\ scope[tx[v].s].status # "absent"
    BY <2>1, <1>1 DEF ScopeInv, Begun, Idle, TypeOK, Session
  <2> QED BY <1>7, <2>1, <2>2 DEF Live
<1>10. CampaignsHaveTheirScope'
  BY <1>1, <1>7 DEF ScopeInv, CampaignsHaveTheirScope, Exists, Live, CommitEdit, TypeOK, Campaign
<1>11. (\A r \in Scopes : Numbered(r)') /\ GenerationIsWhole'
  BY DEF ScopeInv, Numbered, Generations, GenerationIsWhole, CommitEdit, Wanted
<1> QED BY <1>5, <1>8, <1>9, <1>10, <1>11 DEF ScopeInv

(* A committed generation is the next one of its scope.                   *)
LEMMA GenerationsGrow ==
  ASSUME ScopeInv, NEW w \in Workers, CommitGenerate(w), NEW r \in Scopes,
         NEW n \in Nat, Generations(r) = 1..n
  PROVE  \/ Generations(r)' = 1..n
         \/ r = tx[w].s /\ Generations(r)' = 1..(n + 1)
<1> DEFINE new == NewCampaigns(tx[w].s)
<1>1. campaigns' = campaigns \union new
  BY DEF CommitGenerate
<1>2. \A c \in new : c.scope = tx[w].s /\ c.generation = Generation(tx[w].s)
  BY DEF NewCampaigns
<1>3. r = tx[w].s => Generation(tx[w].s) = n + 1
  BY NextGeneration
<1> HIDE DEF new
<1>4. CASE r # tx[w].s \/ new = {}
  <2>1. {d \in campaigns' : d.scope = r} = {d \in campaigns : d.scope = r}
    BY <1>1, <1>2, <1>4
  <2> QED BY <2>1 DEF Generations
<1>5. CASE r = tx[w].s /\ new # {}
  <2>1. Generations(r)' = Generations(r) \union {n + 1}
    BY <1>1, <1>2, <1>3, <1>5 DEF Generations
  <2>2. Generations(r)' = 1..(n + 1)
    BY <2>1
  <2> QED BY <1>5, <2>2
<1> QED BY <1>4, <1>5

LEMMA GenerateStep ==
  ASSUME ScopeInv, NEW w \in Workers, CommitGenerate(w)
  PROVE  ScopeInv'
<1> DEFINE t == tx[w]
           s == t.s
           new == NewCampaigns(s)
<1>1. TypeOK /\ \A j \in Series : Led(j)
  BY DEF ScopeInv
<1>2. t \in Session /\ s \in Scopes /\ t.status \subseteq Live /\ scope[s].status \in Live
  <2>1. t \in Session
    BY <1>1 DEF CommitGenerate, Idle, TypeOK
  <2>2. s \in Scopes
    BY <2>1 DEF Session
  <2>3. scope[s].status \in Live
    BY <1>1, <2>2 DEF CommitGenerate, Exists, Live, ScopeRow, TypeOK
  <2>4. t.status \subseteq Live
    BY DEF CommitGenerate, ScopeInv, Begun
  <2> QED BY <2>1, <2>2, <2>3, <2>4
<1>3. /\ counter' \in [Series -> Nat] /\ issued' \in [Series -> Seq(Nat)]
      /\ \A j \in Series : Led(j)'
  BY <1>1, <1>2, CampaignsFollow, DrawsLead DEF CommitGenerate
<1>4. /\ scope' \in [Scopes -> ScopeRow] /\ scope'[s].status \in Live
      /\ \A r \in Scopes \ {s} : scope'[r] = scope[r]
  <2>1. Written(t.status, scope[s].status) \in Live
    BY <1>2, WrittenIn
  <2>2. scope' = [scope EXCEPT ![s].status = Written(t.status, scope[s].status)]
    BY DEF CommitGenerate
  <2> QED BY <1>1, <1>2, <2>1, <2>2 DEF TypeOK, ScopeRow, Live
<1>5. PICK n \in Nat : Generations(s) = 1..n
  BY <1>2 DEF ScopeInv, Numbered
<1>6. Generation(s) = n + 1
  BY <1>2, <1>5, NextGeneration
<1>7. campaigns' = campaigns \union new /\ new \subseteq Campaign
  BY <1>2, NewCampaignsType DEF ScopeInv, CommitGenerate
<1>8. \A c \in new : c.scope = s /\ c.generation = n + 1
  BY <1>6 DEF NewCampaigns
<1>9. {<<c.line, c.part>> : c \in new} = Wanted(s)
  <2>1. Made(s) = Wanted(s)
    BY <1>2, WantedType DEF Made, CommitGenerate, HasMakeableLines
  <2>2. \A c \in Wanted(s) : c = <<c[1], c[2]>>
    BY <1>2, WantedType
  <2>3. ASSUME NEW c \in Wanted(s)
        PROVE  \E d \in new : c = <<d.line, d.part>>
    <3>1. [scope |-> s, generation |-> Generation(s), line |-> c[1], part |-> c[2]] \in new
      BY <2>1 DEF NewCampaigns
    <3> QED BY <2>2, <3>1
  <2>4. ASSUME NEW d \in new
        PROVE  <<d.line, d.part>> \in Wanted(s)
    <3>1. PICK c \in Wanted(s) : d = [scope |-> s, generation |-> Generation(s),
                                      line |-> c[1], part |-> c[2]]
      BY <2>1 DEF NewCampaigns
    <3>2. <<d.line, d.part>> = <<c[1], c[2]>>
      BY <3>1
    <3> QED BY <2>2, <3>2
  <2> HIDE DEF new
  <2> QED BY <2>3, <2>4
<1> HIDE DEF new
<1>10. TypeOK'
  <2>1. tx' \in [Workers -> Session \union {NoTx}]
    BY <1>1 DEF TypeOK, CommitGenerate
  <2> QED BY <1>1, <1>3, <1>4, <1>7, <2>1 DEF TypeOK, CommitGenerate
<1>11. \A v \in Workers : Begun(v)'
  <2> SUFFICES ASSUME NEW v \in Workers, tx'[v] # NoTx
               PROVE  tx'[v].status \subseteq Live /\ scope'[tx'[v].s].status # "absent"
    BY DEF Begun, Idle
  <2>1. v # w /\ tx'[v] = tx[v]
    BY <1>1 DEF CommitGenerate, TypeOK
  <2>2. tx[v].s \in Scopes /\ tx[v].status \subseteq Live /\ scope[tx[v].s].status # "absent"
    BY <2>1, <1>1 DEF ScopeInv, Begun, Idle, TypeOK, Session
  <2> QED BY <1>4, <2>1, <2>2 DEF Live
<1>12. CampaignsHaveTheirScope'
  <2> SUFFICES ASSUME NEW c \in campaigns'
               PROVE  scope'[c.scope].status \notin {"absent", "deleted"}
    BY DEF CampaignsHaveTheirScope, Exists
  <2>1. CASE c \in campaigns
    BY <1>1, <1>4, <2>1 DEF ScopeInv, CampaignsHaveTheirScope, Exists, Live, TypeOK, Campaign
  <2>2. CASE c \in new
    BY <1>4, <1>8, <2>2 DEF Live
  <2> QED BY <1>7, <2>1, <2>2
<1>13. ASSUME NEW r \in Scopes PROVE Numbered(r)'
  <2>1. PICK m \in Nat : Generations(r) = 1..m
    BY DEF ScopeInv, Numbered
  <2>2. Generations(r)' \in {1..m, 1..(m + 1)}
    BY <2>1, GenerationsGrow
  <2> QED BY <2>2 DEF Numbered
<1>14. GenerationIsWhole'
  <2> DEFINE Of(all, r, g) == {<<c.line, c.part>> : c \in {d \in all : d.scope = r
                                                             /\ d.generation = g}}
  <2> SUFFICES ASSUME NEW r \in Scopes, NEW g PROVE Of(campaigns', r, g) \in {{}, Wanted(r)}
    BY DEF GenerationIsWhole, Wanted
  <2>1. Of(campaigns, r, g) \in {{}, Wanted(r)}
    <3>1. CASE g \in {c.generation : c \in campaigns}
      BY <3>1 DEF ScopeInv, GenerationIsWhole
    <3>2. CASE g \notin {c.generation : c \in campaigns}
      BY <3>2
    <3> QED BY <3>1, <3>2
  <2>2. CASE r = s /\ g = n + 1
    <3>1. \A c \in campaigns : c.scope = s => c.generation # n + 1
      BY <1>5 DEF Generations
    <3>2. {d \in campaigns' : d.scope = r /\ d.generation = g} = new
      BY <1>7, <1>8, <2>2, <3>1
    <3> QED BY <1>9, <2>2, <3>2
  <2>3. CASE ~(r = s /\ g = n + 1)
    <3>1. {d \in campaigns' : d.scope = r /\ d.generation = g}
            = {d \in campaigns : d.scope = r /\ d.generation = g}
      BY <1>7, <1>8, <2>3
    <3> QED BY <2>1, <3>1
  <2> QED BY <2>2, <2>3
<1> QED BY <1>3, <1>10, <1>11, <1>12, <1>13, <1>14 DEF ScopeInv

LEMMA ScopeStep == ScopeInv /\ [Next]_vars => ScopeInv'
<1> SUFFICES ASSUME ScopeInv, [Next]_vars PROVE ScopeInv'
  OBVIOUS
<1>1. TypeOK /\ \A w \in Workers : Begun(w)
  BY DEF ScopeInv
<1>2. ASSUME NEW s \in Scopes, NEW w \in Workers, NEW new \in ScopeRow, new.status \in Live,
             NEW draw \in {"none", "scope", "campaigns"}, Begin(w, s, new, draw)
      PROVE  ScopeInv'
  <2>1. TypeOK' /\ \A v \in Workers : Begun(v)'
    BY <1>1, <1>2, BeginType
  <2>2. UNCHANGED <<scope, campaigns, counter, issued>>
    BY <1>2 DEF Begin
  <2>3. \A k \in Series : Led(k)'
    BY <2>2 DEF ScopeInv, Led
  <2>4. CampaignsHaveTheirScope'
    BY <2>2 DEF ScopeInv, CampaignsHaveTheirScope, Exists
  <2>5. (\A r \in Scopes : Numbered(r)') /\ GenerationIsWhole'
    BY <2>2 DEF ScopeInv, Numbered, Generations, GenerationIsWhole, Wanted
  <2> QED BY <2>1, <2>3, <2>4, <2>5 DEF ScopeInv
<1>3. ASSUME NEW s \in Scopes, NEW complete \in BOOLEAN, CreateScope(s, complete)
      PROVE  ScopeInv'
  BY <1>3, CreateStep
<1>4. ASSUME NEW s \in Scopes, DeleteScope(s) PROVE ScopeInv'
  <2>1. \A c \in campaigns : c.scope # s
    BY <1>4 DEF DeleteScope, ReferredTo
  <2>2. scope' \in [Scopes -> ScopeRow] /\ scope'[s].status = "deleted"
        /\ \A r \in Scopes \ {s} : scope'[r] = scope[r]
    BY <1>1, <1>4 DEF DeleteScope, TypeOK, ScopeRow, Status
  <2>3. TypeOK'
    BY <1>1, <1>4, <2>2 DEF TypeOK, DeleteScope
  <2>4. \A k \in Series : Led(k)'
    BY <1>4 DEF ScopeInv, Led, DeleteScope
  <2>5. \A w \in Workers : Begun(w)'
    BY <1>1, <1>4, <2>2 DEF Begun, Idle, DeleteScope, TypeOK, Session
  <2>6. CampaignsHaveTheirScope'
    BY <1>1, <1>4, <2>1, <2>2
    DEF ScopeInv, CampaignsHaveTheirScope, Exists, DeleteScope, TypeOK, Campaign
  <2>7. (\A r \in Scopes : Numbered(r)') /\ GenerationIsWhole'
    BY <1>4 DEF ScopeInv, Numbered, Generations, GenerationIsWhole, Wanted, DeleteScope
  <2> QED BY <2>3, <2>4, <2>5, <2>6, <2>7 DEF ScopeInv
<1>5. ASSUME NEW s \in Scopes, NEW w \in Workers,
             \/ BeginSubmit(w, s) \/ BeginApprove(w, s) \/ BeginContent(w, s)
             \/ BeginTimeframe(w, s) \/ BeginGenerate(w, s)
      PROVE  ScopeInv'
  <2>1. Exists(s) /\ scope[s] \in ScopeRow
    BY <1>1, <1>5 DEF TypeOK, BeginSubmit, BeginApprove, BeginContent, BeginTimeframe,
                      BeginGenerate, Begin
  <2>2. scope[s].status \in Live
    BY <2>1 DEF Exists, Live, ScopeRow
  <2>3. CASE BeginSubmit(w, s)
    <3>1. [scope[s] EXCEPT !.status = "submitted"] \in ScopeRow
      BY <2>1 DEF ScopeRow, Status
    <3>2. [scope[s] EXCEPT !.status = "submitted"].status \in Live
      BY <2>1 DEF ScopeRow, Live, Status
    <3> QED BY <1>2, <2>3, <3>1, <3>2 DEF BeginSubmit
  <2>4. CASE BeginApprove(w, s)
    <3> DEFINE new == [scope[s] EXCEPT !.ready = scope[s].complete, !.status = GateStatus(s)]
    <3>1. new \in ScopeRow /\ new.status \in Live
      BY <2>1 DEF ScopeRow, Live, Status, GateStatus
    <3>2. Begin(w, s, new, "none")
      BY <2>4 DEF BeginApprove
    <3> HIDE DEF new
    <3> QED BY <1>2, <3>1, <3>2
  <2>5. CASE BeginContent(w, s)
    <3> DEFINE new == [scope[s] EXCEPT !.complete = ~@]
    <3>1. new \in ScopeRow /\ new.status \in Live
      BY <2>1, <2>2 DEF ScopeRow
    <3>2. Begin(w, s, new, "none")
      BY <2>5 DEF BeginContent
    <3> HIDE DEF new
    <3> QED BY <1>2, <3>1, <3>2
  <2>6. CASE BeginTimeframe(w, s)
    <3> DEFINE new == [scope[s] EXCEPT !.complete = TRUE]
    <3>1. new \in ScopeRow /\ new.status \in Live
      BY <2>1, <2>2 DEF ScopeRow
    <3>2. Begin(w, s, new, "none")
      BY <2>6 DEF BeginTimeframe
    <3> HIDE DEF new
    <3> QED BY <1>2, <3>1, <3>2
  <2>7. CASE BeginGenerate(w, s)
    <3> DEFINE new == [scope[s] EXCEPT !.status = "campaigns_generated"]
    <3>1. new \in ScopeRow /\ new.status \in Live
      BY <2>1 DEF ScopeRow, Live, Status
    <3>2. Begin(w, s, new, "campaigns")
      BY <2>7 DEF BeginGenerate
    <3> HIDE DEF new
    <3> QED BY <1>2, <3>1, <3>2
  <2> QED BY <1>5, <2>3, <2>4, <2>5, <2>6, <2>7
<1>6. ASSUME NEW w \in Workers, CommitEdit(w) PROVE ScopeInv'
  BY <1>6, EditStep
<1>7. ASSUME NEW w \in Workers, CommitGenerate(w) PROVE ScopeInv'
  BY <1>7, GenerateStep
<1>8. ASSUME UNCHANGED <<scope, campaigns, counter, passes, issued, overlapped>>,
             \/ UNCHANGED tx
             \/ \E w \in Workers : tx' = [tx EXCEPT ![w] = NoTx]
      PROVE  ScopeInv'
  <2>1. TypeOK' /\ \A w \in Workers : Begun(w)'
    BY <1>1, <1>8 DEF TypeOK, Begun, Idle
  <2>2. \A k \in Series : Led(k)'
    BY <1>8 DEF ScopeInv, Led
  <2>3. CampaignsHaveTheirScope'
    BY <1>8 DEF ScopeInv, CampaignsHaveTheirScope, Exists
  <2>4. (\A r \in Scopes : Numbered(r)') /\ GenerationIsWhole'
    BY <1>8 DEF ScopeInv, Numbered, Generations, GenerationIsWhole, Wanted
  <2> QED BY <2>1, <2>2, <2>3, <2>4 DEF ScopeInv
<1>9. ASSUME NEW w \in Workers, Abort(w) PROVE ScopeInv'
  BY <1>8, <1>9 DEF Abort
<1>10. ASSUME NEW c \in campaigns, DeleteCampaign(c) PROVE ScopeInv'
  BY <1>8, <1>10 DEF DeleteCampaign, AfterDelete, ReferredTo
<1>11. ASSUME UNCHANGED vars PROVE ScopeInv'
  BY <1>8, <1>11 DEF vars
<1> QED BY <1>3, <1>4, <1>5, <1>6, <1>7, <1>9, <1>10, <1>11 DEF Next

-----------------------------------------------------------------------------
(* Generations are earned.  Until two requests overlap at most one session *)
(* is open, and what it read still holds; a pass that has not been spent   *)
(* shows in the status of the scope.                                       *)

Alone ==
  /\ \A v, w \in Workers : ~Idle(v) /\ ~Idle(w) => v = w
  /\ \A w \in Workers : ~Idle(w) /\ tx[w].draw = "campaigns" /\ Exists(tx[w].s) =>
       /\ scope[tx[w].s].status = "readiness_passed"
       /\ tx[w].status = {"campaigns_generated"}

Unspent(s) == IF scope[s].status = "readiness_passed" THEN 1 ELSE 0
Earned(s) == Cardinality(Generations(s)) + Unspent(s) <= passes[s]

EarnedInv == ~overlapped => Alone /\ \A s \in Scopes : Earned(s)

LEMMA Counted ==
  ASSUME ScopeInv, NEW s \in Scopes
  PROVE  \E n \in Nat : Generations(s) = 1..n /\ Cardinality(Generations(s)) = n
<1>1. PICK n \in Nat : Generations(s) = 1..n
  BY DEF ScopeInv, Numbered
<1>2. Cardinality(1..n) = n
  BY FS_Interval
<1> QED BY <1>1, <1>2

LEMMA EarnedInit == Init => EarnedInv
<1> SUFFICES ASSUME Init PROVE Alone /\ \A s \in Scopes : Earned(s)
  BY DEF EarnedInv
<1>1. Alone
  BY DEF Init, Alone, Idle
<1>2. ASSUME NEW s \in Scopes PROVE Earned(s)
  <2>1. Generations(s) = {}
    BY DEF Init, Generations
  <2>2. Cardinality(Generations(s)) = 0
    BY <2>1, FS_EmptySet
  <2> QED BY <2>2 DEF Init, NewScope, Earned, Unspent
<1> QED BY <1>1, <1>2

LEMMA EarnedStep == ScopeInv /\ EarnedInv /\ [Next]_vars => EarnedInv'
<1> SUFFICES ASSUME ScopeInv, EarnedInv, [Next]_vars, ~overlapped'
             PROVE  (Alone /\ \A r \in Scopes : Earned(r))'
  BY DEF EarnedInv
<1> USE DEF EarnedInv
<1>1. TypeOK
  BY DEF ScopeInv
<1>2. ASSUME NEW s \in Scopes, NEW w \in Workers, NEW new, NEW draw, Begin(w, s, new, draw),
             draw = "campaigns" => /\ MayGenerate(s)
                                   /\ new.status = "campaigns_generated"
      PROVE  (Alone /\ \A r \in Scopes : Earned(r))'
  <2>1. ~overlapped /\ \A v \in Workers : Idle(v)
    BY <1>1, <1>2 DEF Begin, TypeOK
  <2>2. \A v \in Workers \ {w} : tx'[v] = NoTx
    BY <1>1, <1>2, <2>1 DEF Begin, TypeOK, Idle
  <2>3. tx'[w].s = s /\ tx'[w].draw = draw
        /\ tx'[w].status = Change(new.status, scope[s].status)
    BY <1>1, <1>2 DEF Begin, TypeOK
  <2>4. Alone'
    BY <1>2, <2>2, <2>3 DEF Alone, Idle, MayGenerate, Change, Begin
  <2>5. \A r \in Scopes : Earned(r)'
    BY <1>2, <2>1 DEF Earned, Unspent, Generations, Begin
  <2> QED BY <2>4, <2>5
<1>3. ASSUME NEW s \in Scopes, NEW complete \in BOOLEAN, CreateScope(s, complete)
      PROVE  (Alone /\ \A r \in Scopes : Earned(r))'
  <2>1. ~overlapped /\ scope[s].status = "absent" /\ scope'[s].status = "draft"
        /\ \A r \in Scopes \ {s} : scope'[r] = scope[r]
    BY <1>1, <1>3 DEF CreateScope, TypeOK
  <2>2. Alone'
    BY <1>1, <1>3, <2>1 DEF Alone, Idle, Exists, CreateScope, TypeOK, Session, ScopeInv, Begun
  <2>3. ASSUME NEW r \in Scopes PROVE Earned(r)'
    <3>1. Unspent(r)' = Unspent(r)
      BY <2>1 DEF Unspent
    <3>2. Generations(r)' = Generations(r) /\ passes' = passes
      BY <1>3 DEF Generations, CreateScope
    <3>3. Cardinality(Generations(r))' = Cardinality(Generations(r))
      BY <3>2
    <3>4. Earned(r)
      BY <2>1
    <3> QED BY <3>1, <3>2, <3>3, <3>4 DEF Earned
  <2> QED BY <2>2, <2>3
<1>4. ASSUME NEW s \in Scopes, DeleteScope(s)
      PROVE  (Alone /\ \A r \in Scopes : Earned(r))'
  <2>1. ~overlapped /\ scope'[s].status = "deleted"
        /\ \A r \in Scopes \ {s} : scope'[r] = scope[r]
    BY <1>1, <1>4 DEF DeleteScope, TypeOK, ScopeRow
  <2>2. Alone'
    BY <1>1, <1>4, <2>1 DEF Alone, Idle, Exists, DeleteScope, TypeOK, Session
  <2>3. ASSUME NEW r \in Scopes PROVE Earned(r)'
    <3>1. PICK n \in Nat : Cardinality(Generations(r)) = n
      BY Counted
    <3>2. Generations(r)' = Generations(r) /\ passes' = passes
      BY <1>4 DEF Generations, DeleteScope
    <3>3. Unspent(r)' <= Unspent(r) /\ Unspent(r)' \in Nat /\ Unspent(r) \in Nat
      BY <2>1 DEF Unspent
    <3>4. passes[r] \in Nat /\ n + Unspent(r) <= passes[r]
      BY <1>1, <2>1, <3>1 DEF TypeOK, Earned
    <3>5. n + Unspent(r)' <= passes'[r]
      BY <3>2, <3>3, <3>4
    <3> QED BY <3>1, <3>2, <3>5 DEF Earned
  <2> QED BY <2>2, <2>3
<1>5. ASSUME NEW s \in Scopes, NEW w \in Workers,
             \/ BeginSubmit(w, s) \/ BeginApprove(w, s) \/ BeginContent(w, s)
             \/ BeginTimeframe(w, s) \/ BeginGenerate(w, s)
      PROVE  (Alone /\ \A r \in Scopes : Earned(r))'
  <2>1. scope[s] \in ScopeRow
    BY <1>1 DEF TypeOK
  <2>2. CASE BeginGenerate(w, s)
    <3>1. [scope[s] EXCEPT !.status = "campaigns_generated"].status = "campaigns_generated"
      BY <2>1 DEF ScopeRow
    <3> QED BY <1>2, <2>2, <3>1 DEF BeginGenerate
  <2>3. CASE BeginSubmit(w, s)
    <3>1. PICK draw : Begin(w, s, [scope[s] EXCEPT !.status = "submitted"], draw)
                      /\ draw # "campaigns"
      BY <2>3 DEF BeginSubmit
    <3> QED BY <1>2, <3>1
  <2>4. CASE BeginApprove(w, s) \/ BeginContent(w, s) \/ BeginTimeframe(w, s)
    <3>1. PICK new : Begin(w, s, new, "none")
      BY <2>4 DEF BeginApprove, BeginContent, BeginTimeframe
    <3> QED BY <1>2, <3>1
  <2> QED BY <1>5, <2>2, <2>3, <2>4
<1>6. ASSUME NEW w \in Workers, CommitEdit(w)
      PROVE  (Alone /\ \A r \in Scopes : Earned(r))'
  <2>1. ~overlapped /\ tx' = [tx EXCEPT ![w] = NoTx] /\ campaigns' = campaigns
    BY <1>6 DEF CommitEdit
  <2>2. \A v \in Workers : tx'[v] = NoTx
    BY <1>1, <1>6, <2>1 DEF Alone, Idle, TypeOK, CommitEdit
  <2>3. Alone'
    BY <2>2 DEF Alone, Idle
  <2>4. tx[w] \in Session /\ tx[w].s \in Scopes
    BY <1>1, <1>6 DEF CommitEdit, Idle, TypeOK, Session
  <2>5. ASSUME NEW r \in Scopes PROVE Earned(r)'
    <3>1. PICK n \in Nat : Cardinality(Generations(r)) = n
      BY Counted
    <3>2. Generations(r)' = Generations(r)
      BY <2>1 DEF Generations
    <3>3. passes[r] \in Nat /\ n + Unspent(r) <= passes[r]
      BY <1>1, <2>1, <3>1 DEF TypeOK, Earned
    <3>4. CASE r # tx[w].s
      <4>1. scope'[r] = scope[r] /\ passes'[r] = passes[r]
        BY <1>1, <1>6, <2>4, <3>4 DEF CommitEdit, TypeOK
      <4> QED BY <3>1, <3>2, <3>3, <4>1 DEF Earned, Unspent
    <3>5. CASE r = tx[w].s
      <4>1. scope'[r].status = Written(tx[w].status, scope[r].status)
        BY <1>1, <1>6, <2>4, <3>5 DEF CommitEdit, TypeOK
      <4>2. passes'[r] = passes[r] + IF "readiness_passed" \in tx[w].status THEN 1 ELSE 0
        BY <1>1, <1>6, <2>4, <3>5 DEF CommitEdit, TypeOK
      <4>3. scope'[r].status = "readiness_passed" =>
              "readiness_passed" \in tx[w].status \/ scope[r].status = "readiness_passed"
        BY <4>1 DEF Written
      <4>4. Unspent(r)' <= Unspent(r) + IF "readiness_passed" \in tx[w].status THEN 1 ELSE 0
        BY <4>3 DEF Unspent
      <4>5. Unspent(r)' \in Nat /\ Unspent(r) \in Nat
        BY DEF Unspent
      <4>6. n + Unspent(r)' <= passes'[r]
        BY <3>3, <4>2, <4>4, <4>5
      <4> QED BY <3>1, <3>2, <4>6 DEF Earned
    <3> QED BY <3>4, <3>5
  <2> QED BY <2>3, <2>5
<1>7. ASSUME NEW w \in Workers, CommitGenerate(w)
      PROVE  (Alone /\ \A r \in Scopes : Earned(r))'
  <2>1. ~overlapped /\ tx' = [tx EXCEPT ![w] = NoTx] /\ passes' = passes
    BY <1>7 DEF CommitGenerate
  <2>2. \A v \in Workers : tx'[v] = NoTx
    BY <1>1, <1>7, <2>1 DEF Alone, Idle, TypeOK, CommitGenerate
  <2>3. Alone'
    BY <2>2 DEF Alone, Idle
  <2>4. tx[w] \in Session /\ tx[w].s \in Scopes
    BY <1>1, <1>7 DEF CommitGenerate, Idle, TypeOK, Session
  <2>5. scope[tx[w].s].status = "readiness_passed" /\ tx[w].status = {"campaigns_generated"}
    BY <1>7, <2>1 DEF Alone, CommitGenerate
  <2>6. scope' = [scope EXCEPT ![tx[w].s].status = "campaigns_generated"]
    <3>1. Written({"campaigns_generated"}, "readiness_passed") = "campaigns_generated"
      BY DEF Written
    <3> QED BY <1>7, <2>5, <3>1 DEF CommitGenerate
  <2>7. ASSUME NEW r \in Scopes PROVE Earned(r)'
    <3>1. PICK n \in Nat : Generations(r) = 1..n /\ Cardinality(Generations(r)) = n
      BY Counted
    <3>2. passes[r] \in Nat /\ n + Unspent(r) <= passes[r]
      BY <1>1, <2>1, <3>1 DEF TypeOK, Earned
    <3>3. CASE r # tx[w].s
      <4>1. Generations(r)' = Generations(r)
        BY <1>7, <3>1, <3>3, GenerationsGrow
      <4>2. scope'[r] = scope[r]
        BY <1>1, <2>4, <2>6, <3>3 DEF TypeOK
      <4> QED BY <2>1, <3>1, <3>2, <4>1, <4>2 DEF Earned, Unspent
    <3>4. CASE r = tx[w].s
      <4>1. Unspent(r) = 1 /\ Unspent(r)' = 0
        BY <1>1, <2>4, <2>5, <2>6, <3>4 DEF Unspent, TypeOK, ScopeRow
      <4>2. Generations(r)' \in {1..n, 1..(n + 1)}
        BY <1>7, <3>1, GenerationsGrow
      <4>3. Cardinality(1..n) = n /\ Cardinality(1..(n + 1)) = n + 1
        BY FS_Interval
      <4>4. Cardinality(Generations(r)') \in {n, n + 1}
        BY <4>2, <4>3
      <4>5. Cardinality(Generations(r))' + Unspent(r)' <= passes'[r]
        BY <2>1, <3>2, <4>1, <4>4
      <4> QED BY <4>5 DEF Earned
    <3> QED BY <3>3, <3>4
  <2> QED BY <2>3, <2>7
<1>8. ASSUME UNCHANGED <<scope, campaigns, counter, passes, issued, overlapped>>,
             \/ UNCHANGED tx
             \/ \E w \in Workers : tx' = [tx EXCEPT ![w] = NoTx]
      PROVE  (Alone /\ \A r \in Scopes : Earned(r))'
  <2>1. ~overlapped
    BY <1>8
  <2>2. \A v \in Workers : tx'[v] \in {tx[v], NoTx}
    BY <1>1, <1>8 DEF TypeOK
  <2>3. Alone'
    BY <1>8, <2>1, <2>2 DEF Alone, Idle, Exists
  <2>4. \A r \in Scopes : Earned(r)'
    BY <1>8, <2>1 DEF Earned, Unspent, Generations
  <2> QED BY <2>3, <2>4
<1>9. ASSUME NEW w \in Workers, Abort(w) PROVE (Alone /\ \A r \in Scopes : Earned(r))'
  BY <1>8, <1>9 DEF Abort
<1>10. ASSUME NEW c \in campaigns, DeleteCampaign(c)
       PROVE  (Alone /\ \A r \in Scopes : Earned(r))'
  BY <1>8, <1>10 DEF DeleteCampaign, AfterDelete, ReferredTo
<1>11. ASSUME UNCHANGED vars PROVE (Alone /\ \A r \in Scopes : Earned(r))'
  BY <1>8, <1>11 DEF vars
<1> QED BY <1>3, <1>4, <1>5, <1>6, <1>7, <1>9, <1>10, <1>11 DEF Next

-----------------------------------------------------------------------------
(* The rows and the sessions have their types.                             *)
THEOREM TypeCorrect == Spec => []TypeOK
<1>1. ScopeInv => TypeOK
  BY DEF ScopeInv
<1> QED BY <1>1, ScopeInit, ScopeStep, PTL DEF Spec

(* No display id is ever given twice (next_scope_id, next_campaign_id).    *)
THEOREM NumbersUnique == Spec => []NumbersNeverReused
<1>1. ScopeInv => NumbersNeverReused
  BY DEF ScopeInv, Led, NumbersNeverReused
<1> QED BY <1>1, ScopeInit, ScopeStep, PTL DEF Spec

(* A generation has every campaign its scope's lines call for, or none.    *)
THEOREM GenerationsWhole == Spec => []GenerationIsWhole
<1>1. ScopeInv => GenerationIsWhole
  BY DEF ScopeInv
<1> QED BY <1>1, ScopeInit, ScopeStep, PTL DEF Spec

(* No campaign outlives its scope, however deletion and generation overlap.*)
THEOREM CampaignsKeepScope == Spec => []CampaignsHaveTheirScope
<1>1. ScopeInv => CampaignsHaveTheirScope
  BY DEF ScopeInv
<1> QED BY <1>1, ScopeInit, ScopeStep, PTL DEF Spec

(* While requests do not overlap, no readiness pass is spent twice.        *)
THEOREM GenerationsEarned == Spec => []GenerationsAreEarned
<1>1. ScopeInv /\ EarnedInv => GenerationsAreEarned
  <2> SUFFICES ASSUME ScopeInv, EarnedInv, ~overlapped, NEW s \in Scopes
               PROVE  Cardinality(Generations(s)) <= passes[s]
    BY DEF GenerationsAreEarned, Generations
  <2>1. PICK n \in Nat : Cardinality(Generations(s)) = n
    BY Counted
  <2> QED BY <2>1 DEF EarnedInv, Earned, Unspent, ScopeInv, TypeOK
<1> QED BY <1>1, ScopeInit, ScopeStep, EarnedInit, EarnedStep, PTL DEF Spec
=============================================================================
