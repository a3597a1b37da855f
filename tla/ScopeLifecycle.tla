---------------------------- MODULE ScopeLifecycle --------------------------
(***************************************************************************)
(* Scopes from creation to generated campaigns, and the public ids that    *)
(* number both (app/api/routes/deals.py, app/services/deal_service.py,     *)
(* app/services/id_service.py, app/services/campaign_generation_service.py *)
(* and the deletion of scopes and campaigns in app/api).                   *)
(*                                                                         *)
(* A request on a scope is one transaction: it reads the row (Begin) and   *)
(* at commit writes the columns it changed, with what it inserted.  The    *)
(* row itself is never locked.  A number is drawn under FOR UPDATE, so the *)
(* counter row stays locked until the transaction ends: drawing at the     *)
(* commit gives the same numbers.  next_id also skips numbers in use; no   *)
(* number is ever above its counter, so that loop never turns.  A missing  *)
(* counter row is a counter at 0.  The deletion of a scope is one step:    *)
(* the foreign keys decide on the committed rows.                          *)
(*                                                                         *)
(* Permissions are left out: some user may always ask.                     *)
(***************************************************************************)
EXTENDS Integers, Sequences, FiniteSets, Functions

CONSTANTS
  Scopes, Workers, NoTx,
  Brands,     \* the codes client names abbreviate to, NoCode included
  NoCode,     \* "SCOPE", the code of a name without letters
  BrandOf,    \* BrandOf[s]: the code of the client of scope s
  Lines,      \* product lines
  LinesOf,    \* LinesOf[s]: the lines of scope s
  KindOf,     \* KindOf[l]: what the line sells, one of Kinds
  CodeOf,     \* CodeOf[l]: the product code in the ids of its campaigns
  MaxNumber,  \* 99: the last number of a campaign series
  MaxPasses,  \* bound: readiness passes of one scope
  MaxScopes   \* bound: numbers drawn from one series of scopes

\* demand_module_mode of a demand line; a response line with and without a
\* lead volume; every other product type is like "single".
Kinds == {"create_only", "create_reach", "create_reach_capture", "single", "no_volume"}

\* A series of numbers: the scopes of a brand, or its campaigns of one product
\* code.  All dates are of one year.
ScopeSeries == {<<b>> : b \in Brands}
CampaignSeries == {<<b, CodeOf[l]>> : b \in Brands, l \in Lines}
Series == ScopeSeries \union CampaignSeries

Status == {"absent", "draft", "submitted", "readiness_failed", "readiness_passed",
           "campaigns_generated", "deleted"}

\* number completes the brand's code to the display id; complete: would the
\* readiness gate find every text and both dates?
ScopeRow == [status : Status, ready : BOOLEAN, complete : BOOLEAN, number : Nat]

\* What a request will write: in status, ready and complete the new value of
\* a column it changes, nothing for one it leaves alone; and the numbers it will
\* draw, if any.
Session == [s : Scopes, status : SUBSET Status, ready : SUBSET BOOLEAN,
            complete : SUBSET BOOLEAN, draw : {"none", "scope", "campaigns"}]

\* part is the sprint of a demand campaign, 0 for the others.
Campaign == [scope : Scopes, generation : Nat, line : Lines, part : 0..4]

ASSUME BrandAssumption == NoCode \in Brands /\ BrandOf \in [Scopes -> Brands]
ASSUME LineAssumption ==
  /\ IsFiniteSet(Lines)
  /\ LinesOf \in [Scopes -> SUBSET Lines] /\ KindOf \in [Lines -> Kinds]
ASSUME NumberAssumption == MaxNumber \in Nat
ASSUME NoTxAssumption == NoTx \notin Session

VARIABLES
  scope,       \* scope[s]: the row of scopes
  campaigns,   \* the rows of campaigns; a generated one has its stages
  counter,     \* counter[k]: last_value of the series in public_id_counters
  tx,          \* tx[w]: the open transaction of worker w, or NoTx
  passes,      \* history: how often scope s has passed the readiness gate
  issued,      \* history: the numbers of series k given to committed rows
  overlapped   \* history: have two requests on a scope ever been open at once?

vars == <<scope, campaigns, counter, tx, passes, issued, overlapped>>

TypeOK ==
  /\ scope \in [Scopes -> ScopeRow]
  /\ campaigns \subseteq Campaign
  /\ counter \in [Series -> Nat]
  /\ tx \in [Workers -> Session \union {NoTx}]
  /\ passes \in [Scopes -> Nat]
  /\ issued \in [Series -> Seq(Nat)]
  /\ overlapped \in BOOLEAN

NewScope == [status |-> "absent", ready |-> FALSE, complete |-> FALSE, number |-> 0]

Init ==
  /\ scope = [s \in Scopes |-> NewScope]
  /\ campaigns = {}
  /\ counter = [k \in Series |-> 0]
  /\ tx = [w \in Workers |-> NoTx]
  /\ passes = [s \in Scopes |-> 0]
  /\ issued = [k \in Series |-> <<>>]
  /\ overlapped = FALSE

Exists(s) == scope[s].status \notin {"absent", "deleted"}
Idle(w) == tx[w] = NoTx

-----------------------------------------------------------------------------
(* Drawing m numbers of series k.                                          *)

(* Mutant: the number follows the rows that exist, not a counter.          *)
NextByRows(k) == 1 + Cardinality({s \in Scopes : Exists(s) /\ <<BrandOf[s]>> = k})

Next1(k) == counter[k] + 1

Numbers(k, m) == [i \in 1..m |-> Next1(k) + i - 1]

Drawn(k, m) == [j \in {k} |-> Numbers(j, m)]

\* The draws of a transaction: a function from its series to their numbers.
Draws(numbers) ==
  /\ counter' = [k \in Series |-> IF k \in DOMAIN numbers /\ numbers[k] # <<>>
                                  THEN numbers[k][Len(numbers[k])] ELSE counter[k]]
  /\ issued' = [k \in Series |-> IF k \in DOMAIN numbers THEN issued[k] \o numbers[k]
                                 ELSE issued[k]]

-----------------------------------------------------------------------------
(* The campaigns a line calls for, and those generate_for_scope can make.  *)

Sprints(l) ==
  IF KindOf[l] \in {"create_only", "create_reach", "create_reach_capture"} THEN 1..4 ELSE {}

Parts(l) ==
  Sprints(l) \union IF KindOf[l] \in {"create_only", "create_reach"} THEN {} ELSE {0}

Wanted(s) == UNION {{l} \X Parts(l) : l \in LinesOf[s]}

(* Mutant: a response line without a lead volume is skipped.               *)
SkipsBadLines(s) == LinesOf[s] # {}

\* _campaign_product_code raises on a response line without a lead volume.
HasMakeableLines(s) == LinesOf[s] # {} /\ \A l \in LinesOf[s] : KindOf[l] # "no_volume"

Made(s) == {c \in Wanted(s) : KindOf[c[1]] # "no_volume"}

\* The campaigns' numbers follow the brand of the scope's display id.
CampaignSeriesOf(s, l) == <<BrandOf[s], CodeOf[l]>>

CampaignNumbers(s) ==
  [k \in {CampaignSeriesOf(s, l) : l \in LinesOf[s]} |->
     Numbers(k, Cardinality({c \in Made(s) : CampaignSeriesOf(s, c[1]) = k}))]

Generation(s) == 1 + Cardinality({c.generation : c \in {d \in campaigns : d.scope = s}})

NewCampaigns(s) ==
  {[scope |-> s, generation |-> Generation(s), line |-> c[1], part |-> c[2]] : c \in Made(s)}

\* next_campaign_id raises when the series is exhausted.
Overflows(s) ==
  \E k \in DOMAIN CampaignNumbers(s) :
    \E i \in DOMAIN CampaignNumbers(s)[k] : CampaignNumbers(s)[k][i] > MaxNumber

-----------------------------------------------------------------------------
(* POST /scopes: the row and its first number.                             *)
CreateScope(s, complete) ==
  LET k == <<BrandOf[s]>>
  IN  /\ scope[s].status = "absent"
      /\ scope' = [scope EXCEPT ![s] = [status |-> "draft", ready |-> FALSE,
                     complete |-> complete, number |-> Numbers(k, 1)[1]]]
      /\ Draws(Drawn(k, 1))
      /\ UNCHANGED <<campaigns, tx, passes, overlapped>>

(* A column is part of the UPDATE only when the session changed it.        *)
Change(new, seen) == {new} \ {seen}

Written(change, current) ==
  IF change = {} THEN current ELSE CHOOSE v \in change : TRUE

(* A request loads its scope and works out what it will write.             *)
Begin(w, s, new, draw) ==
  /\ Idle(w)
  /\ Exists(s)
  /\ tx' = [tx EXCEPT ![w] =
       [s |-> s, status |-> Change(new.status, scope[s].status),
        ready |-> Change(new.ready, scope[s].ready),
        complete |-> Change(new.complete, scope[s].complete),
        draw |-> draw]]
  /\ overlapped' = (overlapped \/ \E v \in Workers : ~Idle(v))
  /\ UNCHANGED <<scope, campaigns, counter, passes, issued>>

(* POST /scopes/{id}/submit: whatever the status was, it is submitted now, *)
(* and what the gate said stays; a display id without a four-letter code   *)
(* is replaced by a new one each time.                                     *)
BeginSubmit(w, s) ==
  /\ BrandOf[s] = NoCode => counter[<<NoCode>>] < MaxScopes
  /\ Begin(w, s, [scope[s] EXCEPT !.status = "submitted"],
           IF BrandOf[s] = NoCode THEN "scope" ELSE "none")

(* Mutant: the status between the approval and the gate is stored.         *)
GateStatusSkipped(s) == IF scope[s].complete THEN "readiness_passed" ELSE "ops_approved"

GateStatus(s) == IF scope[s].complete THEN "readiness_passed" ELSE "readiness_failed"

(* POST /scopes/{id}/ops-approve, from any status; _readiness_gate_passed. *)
BeginApprove(w, s) ==
  /\ passes[s] < MaxPasses
  /\ Begin(w, s, [scope[s] EXCEPT !.ready = scope[s].complete,
                                   !.status = GateStatus(s)], "none")

(* PATCH /scopes/{id}/content may take away a text the gate looks for, or  *)
(* give the last one missing; PATCH /scopes/{id}/timeframe sets dates and  *)
(* never clears one.  Edits that change nothing are left out.              *)
BeginContent(w, s) ==
  Begin(w, s, [scope[s] EXCEPT !.complete = ~@], "none")

BeginTimeframe(w, s) ==
  /\ ~scope[s].complete
  /\ Begin(w, s, [scope[s] EXCEPT !.complete = TRUE], "none")

(* Mutant: the status the scope has is not looked at.                      *)
MayGenerateAgain(s) == scope[s].status \in {"readiness_passed", "campaigns_generated"}

MayGenerate(s) == scope[s].status = "readiness_passed"

(* POST /scopes/{id}/generate-campaigns                                    *)
BeginGenerate(w, s) ==
  /\ MayGenerate(s)
  /\ Begin(w, s, [scope[s] EXCEPT !.status = "campaigns_generated"], "campaigns")

(* The commit of an edit, an approval or a submission.  On a scope deleted *)
(* since, the UPDATE finds no row and the request fails.                   *)
CommitEdit(w) ==
  LET t == tx[w]
      row == scope[t.s]
      k == <<BrandOf[t.s]>>
      renumber == t.draw = "scope"
  IN  /\ ~Idle(w)
      /\ t.draw # "campaigns"
      /\ Exists(t.s)
      /\ scope' = [scope EXCEPT ![t.s] =
           [status |-> Written(t.status, row.status),
            ready |-> Written(t.ready, row.ready),
            complete |-> Written(t.complete, row.complete),
            number |-> IF renumber THEN Numbers(k, 1)[1] ELSE row.number]]
      /\ Draws(IF renumber THEN Drawn(k, 1) ELSE <<>>)
      /\ passes' = [passes EXCEPT ![t.s] =
           @ + IF "readiness_passed" \in t.status THEN 1 ELSE 0]
      /\ tx' = [tx EXCEPT ![w] = NoTx]
      /\ UNCHANGED <<campaigns, overlapped>>

(* The commit of a generation: every campaign of every line, or none.  The *)
(* foreign key of the campaigns refuses a scope deleted since.             *)
CommitGenerate(w) ==
  LET t == tx[w]
  IN  /\ ~Idle(w)
      /\ t.draw = "campaigns"
      /\ Exists(t.s)
      /\ HasMakeableLines(t.s)
      /\ ~Overflows(t.s)
      /\ scope' = [scope EXCEPT ![t.s].status = Written(t.status, @)]
      /\ campaigns' = campaigns \union NewCampaigns(t.s)
      /\ Draws(CampaignNumbers(t.s))
      /\ tx' = [tx EXCEPT ![w] = NoTx]
      /\ UNCHANGED <<passes, overlapped>>

(* A refused generation is rolled back; so is any request that fails, a    *)
(* deadlock victim for one.                                                *)
Abort(w) ==
  /\ ~Idle(w)
  /\ tx' = [tx EXCEPT ![w] = NoTx]
  /\ UNCHANGED <<scope, campaigns, counter, passes, issued, overlapped>>

(* Mutant: no foreign key holds a row that others refer to.                *)
ReferredToNever(c) == FALSE

(* reconcile_campaign gave each generated campaign its stages, their       *)
(* campaign_id is a foreign key, and no deletion removes a stage.          *)
ReferredTo(c) == c \in campaigns

(* DELETE /campaigns/{id}: what is left when it returns.  The last DELETE  *)
(* statement fails while a stage refers to the campaign: a rollback.       *)
AfterDelete(c) == IF ReferredTo(c) THEN campaigns ELSE campaigns \ {c}

DeleteCampaign(c) ==
  /\ c \in campaigns
  /\ campaigns' = AfterDelete(c)
  /\ UNCHANGED <<scope, counter, tx, passes, issued, overlapped>>

(* DELETE /scopes/{id} deletes the scope's campaigns first: it succeeds    *)
(* only while there is none that is referred to.                           *)
DeleteScope(s) ==
  /\ Exists(s)
  /\ \A c \in campaigns : c.scope = s => ~ReferredTo(c)
  /\ scope' = [scope EXCEPT ![s].status = "deleted"]
  /\ UNCHANGED <<campaigns, counter, tx, passes, issued, overlapped>>

Next ==
  \/ \E s \in Scopes :
       \/ \E complete \in BOOLEAN : CreateScope(s, complete)
       \/ DeleteScope(s)
       \/ \E w \in Workers :
            \/ BeginSubmit(w, s)
            \/ BeginApprove(w, s)
            \/ BeginContent(w, s)
            \/ BeginTimeframe(w, s)
            \/ BeginGenerate(w, s)
  \/ \E w \in Workers : CommitEdit(w) \/ CommitGenerate(w) \/ Abort(w)
  \/ \E c \in campaigns : DeleteCampaign(c)

Spec == Init /\ [][Next]_vars

-----------------------------------------------------------------------------
(* No two rows are ever given the same display id, not even after a        *)
(* deletion freed it and however requests overlap (next_scope_id,          *)
(* next_campaign_id).                                                      *)
NumbersNeverReused == \A k \in Series : IsInjective(issued[k])

(* A generation is whole: a scope has all the campaigns its lines call     *)
(* for, or none of that generation, whatever failed on the way             *)
(* (generate_campaigns rolls back on a bad line and on the 100th number).  *)
GenerationIsWhole ==
  \A s \in Scopes, g \in {c.generation : c \in campaigns} :
    LET made == {<<c.line, c.part>> : c \in {d \in campaigns : d.scope = s
                                                               /\ d.generation = g}}
    IN  made \in {{}, Wanted(s)}

(* Each generation is earned by a readiness pass of its own, through any   *)
(* sequence of submissions, approvals and edits, until two requests        *)
(* overlap (the guard of generate_campaigns and the status it leaves).     *)
GenerationsAreEarned ==
  ~overlapped =>
    \A s \in Scopes :
      Cardinality({c.generation : c \in {d \in campaigns : d.scope = s}}) <= passes[s]

(* A generated campaign never outlives its scope, even when the deletion   *)
(* of the scope and its generation were open at the same time.             *)
CampaignsHaveTheirScope == \A c \in campaigns : Exists(c.scope)

-----------------------------------------------------------------------------
(* docs/authorization.md:56 lists "Campaign delete" among the controls,    *)
(* and the endpoint answers "deleted": a deleted campaign is gone.         *)
DeletionRemoves == \A c \in campaigns : c \notin AfterDelete(c)
=============================================================================
