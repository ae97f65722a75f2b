------------------------------ MODULE Entities ------------------------------
(***************************************************************************)
(* entities.js, and the writers it shares address_meta with: what an       *)
(* address is and what it calls itself.  The deriver reads the busiest     *)
(* addresses in two rounds of requests and writes whole rows; the TVL pass *)
(* asks unnamed holders for their name and finds implementations, in a     *)
(* column or two each (tvl.js, probeIdentities and probeAttribution); its  *)
(* discovery makes rows, its recheck corrects them.                        *)
(*                                                                         *)
(* Which word a contract says is not told apart, only that it says one.    *)
(* "contract" stands for the kinds that rest on the bytecode alone and     *)
(* rank below a proxy.                                                     *)
(***************************************************************************)
EXTENDS Integers, FiniteSets, Sequences
LOCAL INSTANCE SequencesExt

CONSTANTS
  Address,
  Words,       \* what a contract may be asked to say of itself: "symbol" and others
  MayBe,       \* what each address may be: records [code, says, impl, slot]
  Top,         \* the busiest addresses, getTop(ENTITY_TOP_N)
  Miners,      \* addresses that may be found to have produced blocks
  ByBalance,   \* the holders worth naming that no protocol has, the largest balance first
  PerPass,     \* IDENTITY_PER_PASS
  MaxAttempts, \* IDENTITY_MAX_ATTEMPTS
  MaxFails,    \* bound: answers the deriver misses, passes failing or dying
  MaxUpgrades  \* bound: addresses becoming something else

Codes == {"none", "delegated", "multisig", "contract"}
None == "none"

EntitiesAssumption ==
  /\ "symbol" \in Words
  /\ \A a \in Address : \A f \in MayBe[a] :
       f.code \in Codes /\ f.says \subseteq Words /\ f.impl \in BOOLEAN /\ f.slot \in BOOLEAN
  /\ Top \subseteq Address /\ Miners \subseteq Address /\ ByBalance \in Seq(Address)
  /\ PerPass \in Nat \ {0} /\ MaxAttempts \in Nat /\ MaxFails \in Nat /\ MaxUpgrades \in Nat

VARIABLES
  facts,    \* the chain: what each address is
  meta,     \* address_meta: rows by address
  stage,    \* the deriver: where refresh() is
  miners,   \* the deriver: the sampled block producers among its targets
  codes,    \* the deriver: bytecode by address, where it was answered
  extra,    \* the deriver: the words answered and whether implementation() was
  asking,   \* the TVL pass: holders still to ask for their name
  learned,  \* history: the words any writer has read and recorded
  corrected,\* history: rows the recheck changed, not derived since
  fails, upgrades

deriver == <<stage, miners, codes, extra>>
history == <<learned, corrected>>
vars == <<facts, meta, deriver, asking, history, fails, upgrades>>

Rows == DOMAIN meta
With(a, row) == [b \in Rows \cup {a} |-> IF b = a THEN row ELSE meta[b]]

\* A row no column of which is known.  is is the pair is_contract, code_size: the
\* probes insert a contract without a size ("guessed"); "small" is one of 23 bytes,
\* the size of a delegation, "contract" one whose code is its own.
Blank == [is |-> "guessed", says |-> {}, impl |-> FALSE, kind |-> None, mined |-> FALSE,
          settled |-> FALSE, attempts |-> 0]
RowOf(a) == IF a \in Rows THEN meta[a] ELSE Blank

IsContractCode(code) == code \in {"multisig", "contract"}
Is(code) == IF IsContractCode(code) THEN "contract" ELSE "wallet"

\* classify: the most specific first.
Classify(mined, code, says, impl) ==
  IF mined THEN "validator"
  ELSE IF ~IsContractCode(code) THEN "wallet"
  ELSE IF "symbol" \in says THEN "token"
  ELSE IF code = "multisig" THEN "multisig"
  ELSE IF impl THEN "proxy"
  ELSE "contract"

----------------------------------------------------------------------------
(* The table may hold rows of delegated accounts, from before a delegated    *)
(* account was known to be none (every bytecode counted).                    *)

Init ==
  /\ facts \in {f \in [Address -> UNION {MayBe[a] : a \in Address}] : \A a \in Address : f[a] \in MayBe[a]}
  /\ \E old \in SUBSET {a \in Address : facts[a].code = "delegated"} :
       /\ meta = [a \in old |->
            [Blank EXCEPT !.is = "small", !.kind = Classify(FALSE, "contract", facts[a].says, FALSE),
                          !.says = facts[a].says]]
       /\ learned = [a \in Address |-> IF a \in old THEN facts[a].says ELSE {}]
  /\ stage = "idle" /\ miners = {} /\ codes = <<>> /\ extra = <<>> /\ asking = <<>>
  /\ corrected = {}
  /\ fails = 0 /\ upgrades = 0

Answers(asked, answered) ==
  /\ answered \subseteq asked
  /\ answered # asked => fails < MaxFails
  /\ fails' = IF answered = asked THEN fails ELSE fails + 1

----------------------------------------------------------------------------
(* The deriver.                                                             *)

\* sampleValidators, best-effort: no sample is a sample without producers.
Samples == SUBSET Miners

\* Phase 1 of deriveBatch: bytecode of every target.
ReadCodes ==
  /\ stage = "idle"
  /\ \E sampled \in Samples :
       \E answered \in SUBSET (Top \cup sampled) :
         /\ Answers(Top \cup sampled, answered)
         /\ miners' = sampled
         /\ codes' = [a \in answered |-> facts[a].code]
  /\ stage' = "extra"
  /\ UNCHANGED <<facts, meta, extra, asking, history, upgrades>>

\* Phase 2: three calls to every target that was a contract.  A call that failed
\* leaves what a contract without the method leaves.
Calls == {a \in DOMAIN codes : IsContractCode(codes[a])} \X (Words \cup {"implementation"})
ReadExtra ==
  /\ stage = "extra"
  /\ \E answered \in SUBSET Calls :
       /\ Answers(Calls, answered)
       /\ extra' = [a \in DOMAIN codes |->
            [says |-> {w \in facts[a].says : <<a, w>> \in answered},
             impl |-> facts[a].impl /\ <<a, "implementation">> \in answered]]
  /\ stage' = "write"
  /\ UNCHANGED <<facts, meta, miners, codes, asking, history, upgrades>>

\* upsertAddressMeta: a whole row, but for the names, which do not become unknown
\* again, the blocks, and the columns of the probes.
Upsert_Assigns(a) ==
  [RowOf(a) EXCEPT !.is = Is(codes[a]), !.says = extra[a].says, !.impl = extra[a].impl,
     !.kind = Classify(a \in miners, codes[a], extra[a].says, extra[a].impl),
     !.mined = @ \/ a \in miners]
Upsert(a) ==
  [RowOf(a) EXCEPT !.is = Is(codes[a]), !.says = @ \cup extra[a].says, !.impl = extra[a].impl,
     !.kind = Classify(a \in miners, codes[a], extra[a].says, extra[a].impl),
     !.mined = @ \/ a \in miners]

\* One commit per row; the process may die between two.
Derive ==
  /\ stage = "write"
  /\ \E written \in SUBSET DOMAIN codes :
       /\ Answers(DOMAIN codes, written)
       /\ meta' = [a \in Rows \cup written |-> IF a \in written THEN Upsert(a) ELSE meta[a]]
       /\ learned' = [a \in Address |-> learned[a] \cup IF a \in written THEN extra[a].says ELSE {}]
       /\ corrected' = corrected \ written
  /\ stage' = "idle" /\ miners' = {} /\ codes' = <<>> /\ extra' = <<>>
  /\ UNCHANGED <<facts, asking, upgrades>>

\* Every endpoint refuses a batch, or the process dies before it has written.
DeriverFails ==
  /\ stage # "idle" /\ fails < MaxFails
  /\ fails' = fails + 1
  /\ stage' = "idle" /\ miners' = {} /\ codes' = <<>> /\ extra' = <<>>
  /\ UNCHANGED <<facts, meta, asking, history, upgrades>>

----------------------------------------------------------------------------
(* The TVL pass, as far as it writes the same rows.                         *)

\* The unsettled holders by balance, as many as one pass asks.
Unsettled == SelectSeq(ByBalance, LAMBDA a : ~RowOf(a).settled)
BeginProbe ==
  /\ asking = <<>> /\ Unsettled # <<>>
  /\ asking' = SubSeq(Unsettled, 1, IF PerPass < Len(Unsettled) THEN PerPass ELSE Len(Unsettled))
  /\ UNCHANGED <<facts, meta, deriver, history, fails, upgrades>>

\* setAddressIdentity: some reply came, be it empty.
SetIdentity(a, said) == [RowOf(a) EXCEPT !.says = @ \cup said, !.settled = TRUE]

\* noteIdentityAttempt: silence settles the question once it has repeated.  The
\* first attempt on an address without a row inserts one and settles nothing.
NoteIdentityAttempt_OnNewRows(a) == [RowOf(a) EXCEPT !.attempts = IF a \in Rows THEN @ ELSE 1]
NoteIdentityAttempt(a) ==
  [RowOf(a) EXCEPT !.attempts = @ + 1,
     !.settled = @ \/ (a \in Rows /\ RowOf(a).attempts + 1 >= MaxAttempts)]

\* probeIdentities, one address: a reply may be missing because the contract has
\* no such method or because the endpoint refused, as often as it likes.
Probe(a) ==
  /\ asking # <<>> /\ a = Head(asking)
  /\ \E replies \in SUBSET Words :
       LET said == replies \cap facts[a].says
       IN  IF replies # {}
           THEN /\ meta' = With(a, SetIdentity(a, said))
                /\ learned' = [learned EXCEPT ![a] = @ \cup said]
           ELSE /\ meta' = With(a, NoteIdentityAttempt(a))
                /\ UNCHANGED learned
  /\ asking' = Tail(asking)
  /\ UNCHANGED <<facts, deriver, corrected, fails, upgrades>>

ProbeFails ==
  /\ asking # <<>> /\ fails < MaxFails
  /\ fails' = fails + 1
  /\ asking' = <<>>
  /\ UNCHANGED <<facts, meta, deriver, history, upgrades>>

\* setAttribution of a holder no rule fits: the implementation slot, if it was
\* answered.
Attribute(a) ==
  /\ a \in ToSet(ByBalance)
  /\ \E found \in {FALSE, facts[a].slot} :
       meta' = With(a, [RowOf(a) EXCEPT !.impl = @ \/ found])
  /\ UNCHANGED <<facts, deriver, asking, history, fails, upgrades>>

\* markContract: a first row, never over one that is there.
Discover(a) ==
  /\ a \notin Rows
  /\ meta' = With(a, [Blank EXCEPT !.is = Is(facts[a].code)])
  /\ UNCHANGED <<facts, deriver, asking, history, fails, upgrades>>

\* recheckDelegations and markEoa: a row of 23 bytes.  The kind is left as it was.
Recheck(a) ==
  /\ a \in Rows /\ meta[a].is = "small" /\ facts[a].code \in {"delegated", "none"}
  /\ meta' = [meta EXCEPT ![a].is = "wallet"]
  /\ corrected' = corrected \cup {a}
  /\ UNCHANGED <<facts, deriver, asking, learned, fails, upgrades>>

\* A proxy is upgraded, an account delegates or stops, a contract is deployed.
Upgrade(a, f) ==
  /\ upgrades < MaxUpgrades /\ facts[a] # f
  /\ upgrades' = upgrades + 1
  /\ facts' = [facts EXCEPT ![a] = f]
  /\ UNCHANGED <<meta, deriver, asking, history, fails>>

DerivePass == ReadCodes \/ ReadExtra \/ Derive
ProbePass == BeginProbe \/ \E a \in Address : Probe(a)
Others ==
  \E a \in Address : Attribute(a) \/ Discover(a) \/ Recheck(a) \/ \E f \in MayBe[a] : Upgrade(a, f)

Next == DerivePass \/ DeriverFails \/ ProbePass \/ ProbeFails \/ Others

Spec == Init /\ [][Next]_vars

----------------------------------------------------------------------------
(* Properties.                                                              *)

\* explain: every classification has its evidence in the row it is shown with,
\* whichever writer touched the row last.
KindHasItsEvidence ==
  \A a \in Rows :
    /\ meta[a].kind = "validator" => meta[a].mined
    /\ meta[a].kind = "token" => "symbol" \in meta[a].says
    /\ meta[a].kind = "proxy" => meta[a].impl
    /\ meta[a].kind = "wallet" => meta[a].is = "wallet"
    /\ meta[a].kind \in {"token", "multisig", "proxy", "contract"} =>
         meta[a].is \in {"contract", "small"} \/ a \in corrected

\* upsertAddressMeta and setIdentity: a name that was read is kept, though a
\* later reading by the other writer learns nothing.
NameIsKept == \A a \in Rows : meta[a].says = learned[a]

\* probeIdentities: every holder worth naming is asked until it is settled; the
\* silent ones at the head of the queue do not keep the budget for ever.
EveryHolderIsSettled == \A a \in ToSet(ByBalance) : <>[](RowOf(a).settled)

\* deriveBatch: what is busy is classified in the end as the chain has it, after
\* missing answers, deaths and upgrades.
EveryTopAddressIsClassified ==
  \A a \in Top \ Miners :
    <>[](RowOf(a).kind = Classify(FALSE, facts[a].code, facts[a].says, facts[a].impl))
=============================================================================
