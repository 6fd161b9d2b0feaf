------------------------ MODULE CredentialCacheProofs -----------------------
(***************************************************************************)
(* The safety of the reusable tokens, for any number of commands, logins   *)
(* and revokes, any configurations, lifetimes and margins: CacheInv is     *)
(* inductive, and every safety property of CredentialCache follows.        *)
(***************************************************************************)
EXTENDS CredentialCache, TLAPS

USE PolicyAssumption, MarginAssumption, LifetimeAssumption, BoundAssumption, IssuersAssumption

-----------------------------------------------------------------------------
(***************************************************************************)
(* Types.                                                                  *)
(***************************************************************************)
LEMMA IdleType == Idle \in Process
BY DEF Idle, Process, PC, Tokens

LEMMA LoseType ==
    ASSUME untracked \in [Tokens -> Reason], NEW tokens, NEW reason \in Reason,
           Lose(tokens, reason)
    PROVE  untracked' \in [Tokens -> Reason]
BY DEF Lose

LEMMA PublishType ==
    ASSUME cached \in [Slots -> {0} \union Tokens], doubtful \subseteq Tokens,
           NEW s \in Slots, NEW t \in Tokens, NEW ok, Publish(s, t, ok)
    PROVE  cached' \in [Slots -> {0} \union Tokens] /\ doubtful' \subseteq Tokens
BY DEF Publish

LEMMA DeleteTokenType ==
    ASSUME fate \in [Tokens -> Fate], NEW t, NEW answer,
           NEW by \in {"revoked", "discarded"}, DeleteToken(t, answer, by)
    PROVE  /\ fate' \in [Tokens -> Fate] /\ UNCHANGED <<minted, token>>
BY DEF DeleteToken, Fate

LEMMA MintType ==
    ASSUME StoreTypeOK, NEW authority \in Authorities, NEW policy \in Policies \union {"base"},
           NEW parent \in {0} \union Tokens, NEW guard \in Nat, NEW lifetime \in Lifetimes,
           Mint(authority, policy, parent, guard, lifetime)
    PROVE  /\ minted' = minted + 1 /\ minted' \in Tokens
           /\ token' \in [1..minted' -> Token]
           /\ \A t \in 1..minted: token'[t] = token[t]
           /\ token'[minted'] = [authority |-> authority, policy |-> policy, parent |-> parent,
                                 expires |-> clock + lifetime, guard |-> guard]
           /\ fate' \in [Tokens -> Fate]
           /\ fate'[minted'] = "working"
           /\ \A t \in 1..minted: fate'[t] = fate[t]
<1> USE DEF StoreTypeOK, Tokens, Mint
<1>1. minted' = minted + 1 /\ minted' \in Tokens OBVIOUS
<1> DEFINE new == [authority |-> authority, policy |-> policy, parent |-> parent,
                   expires |-> clock + lifetime, guard |-> guard]
<1>2. new \in Token BY DEF Token
<1>3. token' = [t \in 1..minted' |-> IF t \in 1..minted THEN token[t] ELSE new] OBVIOUS
<1> HIDE DEF new
<1>4. token' \in [1..minted' -> Token] BY <1>1, <1>2, <1>3
<1>5. \A t \in 1..minted: token'[t] = token[t] BY <1>1, <1>3
<1>6. token'[minted'] = new BY <1>1, <1>3
<1>7. /\ fate' \in [Tokens -> Fate] /\ fate'[minted'] = "working"
      /\ \A t \in 1..minted: fate'[t] = fate[t]
  BY <1>1 DEF Fate
<1> QED BY <1>1, <1>4, <1>5, <1>6, <1>7 DEF new

\* A command's state is replaced by another one, and no other command's is.
LEMMA BecomesFrame ==
    ASSUME IssuanceTypeOK, NEW p \in Issuers, NEW state \in Process, Becomes(p, state)
    PROVE  /\ IssuanceTypeOK' /\ proc'[p] = state
           /\ \A q \in Issuers \ {p}: proc'[q] = proc[q]
BY DEF IssuanceTypeOK, Becomes

OthersKept(p) == \A q \in Issuers \ {p}: proc'[q] = proc[q]

\* The steps that both kinds of commands take.
LEMMA GiveUpType ==
    ASSUME IssuanceTypeOK, NEW p \in Issuers, GiveUp(p) PROVE IssuanceTypeOK' /\ OthersKept(p)
<1>1. [proc[p] EXCEPT !.pc = "discard", !.result = 0] \in Process
  BY DEF IssuanceTypeOK, Process, PC
<1> QED BY <1>1, BecomesFrame DEF GiveUp, OthersKept

LEMMA RetainType ==
    ASSUME IssuanceTypeOK, NEW p \in Issuers, NEW t \in {0} \union Tokens, Retain(p, t)
    PROVE  IssuanceTypeOK' /\ OthersKept(p)
<1>1. [proc[p] EXCEPT !.pc = "discard", !.result = t] \in Process
  BY DEF IssuanceTypeOK, Process, PC
<1> QED BY <1>1, BecomesFrame DEF Retain, OthersKept

LEMMA EndType ==
    ASSUME IssuanceTypeOK, NEW p \in Issuers, Becomes(p, Idle)
    PROVE  IssuanceTypeOK' /\ OthersKept(p)
BY IdleType, BecomesFrame DEF OthersKept

LEMMA ReceiveType ==
    ASSUME TypeOK, NEW p \in Issuers, NEW lifetime \in Lifetimes, NEW usable \in BOOLEAN,
           minted' \in Tokens, Receive(p, lifetime, usable)
    PROVE  IssuanceTypeOK' /\ OthersKept(p)
<1> DEFINE next(pc, at) == [proc[p] EXCEPT !.pc = pc, !.held = minted', !.at = at]
<1>0. proc[p] \in Process /\ clock \in Nat BY DEF TypeOK, StoreTypeOK, IssuanceTypeOK
<1>1. ASSUME NEW pc \in {"persist", "discard"}, NEW at \in {0, clock}
      PROVE  next(pc, at) \in Process
  <2>1. pc \in PC /\ at \in Nat BY <1>0 DEF PC
  <2> QED BY <1>0, <2>1 DEF Process
<1>2. \E pc \in {"persist", "discard"}, at \in {0, clock}: Becomes(p, next(pc, at))
  BY DEF Receive, Becomes
<1> QED BY <1>1, <1>2, BecomesFrame DEF TypeOK, OthersKept

LEMMA CommonType ==
    ASSUME TypeOK, CommandsConsistent, NEW p \in Issuers,
           TakeGuard(p) \/ Discard(p) \/ Return(p) \/ Killed(p)
    PROVE  StoreTypeOK' /\ IssuanceTypeOK' /\ OthersKept(p)
<1>0. IssuanceTypeOK /\ StoreTypeOK /\ proc[p] \in Process BY DEF TypeOK, IssuanceTypeOK
<1>1. UNCHANGED storeVars => StoreTypeOK' BY <1>0 DEF storeVars, githubVars, StoreTypeOK
<1>2. CASE TakeGuard(p)
  <2>1. [proc[p] EXCEPT !.pc = "request", !.guard = epoch] \in Process
    BY <1>0 DEF StoreTypeOK, Process, PC
  <2> QED BY <1>0, <1>1, <1>2, <2>1, EndType, BecomesFrame DEF TakeGuard, OthersKept
<1>3. CASE Discard(p)
  <2>1. Becomes(p, Idle) \/ Becomes(p, [proc[p] EXCEPT !.pc = "return", !.held = 0])
    BY <1>3 DEF Discard, Becomes
  <2>2. [proc[p] EXCEPT !.pc = "return", !.held = 0] \in Process BY <1>0 DEF Process, PC
  <2>3. IssuanceTypeOK' /\ OthersKept(p)
    BY <1>0, <2>1, <2>2, EndType, BecomesFrame DEF OthersKept
  <2>4. proc[p].held \in Tokens
    BY <1>3 DEF Discard, CommandsConsistent, Consistent, HasCandidate, Refers, TypeOK,
                StoreTypeOK, Tokens
  <2>5. /\ fate' \in [Tokens -> Fate] /\ UNCHANGED <<minted, token>>
    BY <1>0, <1>3, <2>4, DeleteTokenType DEF Discard, StoreTypeOK, githubVars
  <2>6. untracked' \in [Tokens -> Reason]
    BY <1>0, <1>3, LoseType DEF Discard, StoreTypeOK, Reason
  <2> QED BY <1>0, <1>3, <2>3, <2>5, <2>6 DEF Discard, StoreTypeOK
<1>4. CASE Return(p) BY <1>0, <1>1, <1>4, EndType DEF Return
<1>5. CASE Killed(p)
  <2>1. untracked' \in [Tokens -> Reason]
    BY <1>0, <1>5, LoseType DEF Killed, StoreTypeOK, Reason
  <2> QED BY <1>0, <1>5, <2>1, EndType DEF Killed, StoreTypeOK, githubVars
<1> QED BY <1>2, <1>3, <1>4, <1>5

\* What an issuing command does keeps every type.
LEMMA AcquireType ==
    ASSUME TypeOK, CommandsConsistent, NEW p \in Acquirers, AcquireStep(p)
    PROVE  StoreTypeOK' /\ IssuanceTypeOK' /\ OthersKept(p)
<1> USE DEF OthersKept
<1>0. /\ p \in Issuers /\ p \notin Logins /\ proc[p] \in Process /\ Consistent(p)
      /\ clock \in Nat /\ epoch \in Nat /\ cached \in [Slots -> {0} \union Tokens]
      /\ "base" \in Slots /\ "scoped" \in Slots
  BY DEF Issuers, TypeOK, IssuanceTypeOK, StoreTypeOK, CommandsConsistent, Slots
<1>1. IssuanceTypeOK /\ StoreTypeOK BY DEF TypeOK
<1>2. UNCHANGED storeVars => StoreTypeOK' BY <1>1 DEF storeVars, githubVars, StoreTypeOK
<1>3. CASE Prepare(p)
  <2>1. PICK a \in Authorities, policy \in Policies:
          Becomes(p, [Idle EXCEPT !.pc = "classify", !.authority = a, !.policy = policy,
                                  !.base = cached["base"], !.at = clock])
    BY <1>3, Zenon DEF Prepare
  <2>2. [Idle EXCEPT !.pc = "classify", !.authority = a, !.policy = policy,
                     !.base = cached["base"], !.at = clock] \in Process
    BY <1>0 DEF Idle, Process, PC
  <2> QED BY <1>0, <1>1, <1>2, <1>3, <2>1, <2>2, BecomesFrame DEF Prepare
<1>4. CASE AcquireBase(p)
  <2>1. PICK a \in Authorities:
          Becomes(p, [Idle EXCEPT !.pc = "return", !.authority = a, !.policy = "base",
                                  !.result = cached["base"]])
    BY <1>4, Zenon DEF AcquireBase
  <2>2. [Idle EXCEPT !.pc = "return", !.authority = a, !.policy = "base",
                     !.result = cached["base"]] \in Process
    BY <1>0 DEF Idle, Process, PC
  <2> QED BY <1>0, <1>1, <1>2, <1>4, <2>1, <2>2, BecomesFrame DEF AcquireBase
<1>5. CASE Classify(p)
  <2> DEFINE kept == [proc[p] EXCEPT !.pc = "return", !.result = cached["scoped"], !.at = 0]
             next(t) == [proc[p] EXCEPT !.pc = "guard", !.at = 0, !.old = t]
  <2>1. kept \in Process /\ next(0) \in Process /\ next(cached["scoped"]) \in Process
    BY <1>0 DEF Process, PC
  <2>2. \/ Becomes(p, kept) \/ Becomes(p, next(0)) \/ Becomes(p, next(cached["scoped"]))
    BY <1>5 DEF Classify, Becomes
  <2> QED BY <1>0, <1>1, <1>2, <1>5, <2>1, <2>2, BecomesFrame DEF Classify
<1>6. CASE BaseUnsafe(p)
  <2>1. [proc[p] EXCEPT !.pc = "return", !.result = proc[p].old] \in Process
    BY <1>0 DEF Process, PC
  <2>2. \/ Becomes(p, Idle)
        \/ Becomes(p, [proc[p] EXCEPT !.pc = "return", !.result = proc[p].old])
    BY <1>6 DEF BaseUnsafe, Becomes
  <2> QED BY <1>0, <1>1, <1>2, <1>6, <2>1, <2>2, EndType, BecomesFrame DEF BaseUnsafe
<1>7. CASE Issue(p)
  <2>1. PICK l \in Lifetimes:
          /\ Mint(proc[p].authority, proc[p].policy, proc[p].base, proc[p].guard, l)
          /\ \/ Receive(p, l, TRUE) /\ UNCHANGED untracked
             \/ /\ Becomes(p, Idle)
                /\ untracked' = [untracked EXCEPT ![minted'] = "lost"]
    BY <1>7, Zenon DEF Issue
  <2>2. /\ proc[p].authority \in Authorities /\ proc[p].policy \in Policies \union {"base"}
        /\ proc[p].base \in {0} \union Tokens /\ proc[p].guard \in Nat
    BY <1>0, <1>7 DEF Issue, Consistent, Busy, Process
  <2>3. minted' \in Tokens /\ token' \in [1..minted' -> Token] /\ fate' \in [Tokens -> Fate]
    BY <1>1, <2>1, <2>2, MintType
  <2>4. IssuanceTypeOK' /\ OthersKept(p) BY <1>0, <1>1, <2>1, <2>3, ReceiveType, EndType
  <2>5. untracked' \in [Tokens -> Reason] BY <1>1, <2>1, <2>3 DEF StoreTypeOK, Reason
  <2> QED BY <1>1, <1>7, <2>3, <2>4, <2>5 DEF Issue, StoreTypeOK
<1>8. CASE IssueFails(p)
  <2>1. [proc[p] EXCEPT !.pc = "evict"] \in Process BY <1>0 DEF Process, PC
  <2> QED BY <1>0, <1>1, <1>2, <1>8, <2>1, EndType, BecomesFrame DEF IssueFails
<1>9. CASE Evict(p)
  <2>1. untracked' \in [Tokens -> Reason] BY <1>1, <1>9, LoseType DEF Evict, StoreTypeOK, Reason
  <2>2. cached' \in [Slots -> {0} \union Tokens] BY <1>0, <1>9 DEF Evict, Forget
  <2> QED BY <1>0, <1>1, <1>9, <2>1, <2>2, EndType DEF Evict, StoreTypeOK, githubVars
<1>10. CASE PersistFails(p) BY <1>0, <1>1, <1>2, <1>10, GiveUpType DEF PersistFails
<1>11. CASE CommitScoped(p)
  <2>1. cached["scoped"] \in {0} \union Tokens BY <1>0
  <2>2. CASE Retain(p, cached["scoped"]) /\ UNCHANGED storeVars
    BY <1>0, <1>1, <1>2, <2>1, <2>2, RetainType
  <2>3. CASE ~(Retain(p, cached["scoped"]) /\ UNCHANGED storeVars)
    <3>1. PICK ok \in BOOLEAN:
            /\ Publish("scoped", proc[p].held, ok)
            /\ IF ok THEN Becomes(p, [proc[p] EXCEPT !.pc = "return", !.held = 0,
                                                     !.result = proc[p].held])
                     ELSE GiveUp(p)
      BY <1>11, <2>3, Zenon DEF CommitScoped
    <3>2. Lose({cached["scoped"]} \ {cached'["scoped"]}, "lost")
          /\ UNCHANGED <<clock, epoch, githubVars>>
      BY <1>11, <2>3 DEF CommitScoped
    <3>3. proc[p].held \in Tokens
      BY <1>0, <1>1, <1>11 DEF CommitScoped, Consistent, HasCandidate, Refers, StoreTypeOK, Tokens
    <3>4. [proc[p] EXCEPT !.pc = "return", !.held = 0, !.result = proc[p].held] \in Process
      BY <1>0, <3>3 DEF Process, PC
    <3>5. IssuanceTypeOK' /\ OthersKept(p)
      BY <1>0, <1>1, <3>1, <3>4, GiveUpType, BecomesFrame
    <3>6. cached' \in [Slots -> {0} \union Tokens] /\ doubtful' \subseteq Tokens
      BY <1>0, <1>1, <3>1, <3>3, PublishType DEF StoreTypeOK
    <3>7. untracked' \in [Tokens -> Reason] BY <1>1, <3>2, LoseType DEF StoreTypeOK, Reason
    <3> QED BY <1>1, <3>2, <3>5, <3>6, <3>7 DEF StoreTypeOK, githubVars
  <2> QED BY <2>2, <2>3
<1>12. CASE RenewScoped(p)
  <2>1. cached["scoped"] \in {0} \union Tokens BY <1>0
  <2>2. CASE Retain(p, cached["scoped"]) /\ UNCHANGED storeVars
    BY <1>0, <1>1, <1>2, <2>1, <2>2, RetainType
  <2>3. CASE Replace(p, cached["scoped"])
    <3>1. PICK ok \in BOOLEAN:
            /\ Publish("scoped", proc[p].held, ok)
            /\ IF ok THEN /\ Becomes(p, [proc[p] EXCEPT !.pc = "displace",
                                          !.old = cached["scoped"], !.result = proc[p].held])
                          /\ UNCHANGED untracked
                     ELSE /\ GiveUp(p)
                          /\ Lose({cached["scoped"]} \ {cached'["scoped"]}, "failed renewal")
      BY <2>3, Zenon DEF Replace
    <3>2. UNCHANGED <<clock, epoch, githubVars>> BY <2>3 DEF Replace
    <3>3. proc[p].held \in Tokens
      BY <1>0, <1>1, <1>12 DEF RenewScoped, Consistent, HasCandidate, Refers, StoreTypeOK, Tokens
    <3>4. [proc[p] EXCEPT !.pc = "displace", !.old = cached["scoped"],
                          !.result = proc[p].held] \in Process
      BY <1>0, <3>3 DEF Process, PC
    <3>5. IssuanceTypeOK' /\ OthersKept(p)
      BY <1>0, <1>1, <3>1, <3>4, GiveUpType, BecomesFrame
    <3>6. cached' \in [Slots -> {0} \union Tokens] /\ doubtful' \subseteq Tokens
      BY <1>0, <1>1, <3>1, <3>3, PublishType DEF StoreTypeOK
    <3>7. untracked' \in [Tokens -> Reason] BY <1>1, <3>1, LoseType DEF StoreTypeOK, Reason
    <3> QED BY <1>1, <3>2, <3>5, <3>6, <3>7 DEF StoreTypeOK, githubVars
  <2> QED BY <1>12, <2>2, <2>3 DEF RenewScoped
<1>13. CASE Displace(p)
  <2>1. [proc[p] EXCEPT !.pc = "return", !.held = 0] \in Process BY <1>0 DEF Process, PC
  <2>2. IssuanceTypeOK' /\ OthersKept(p)
    BY <1>0, <1>1, <1>13, <2>1, EndType, BecomesFrame DEF Displace
  <2>3. proc[p].old \in Tokens
    BY <1>0, <1>1, <1>13 DEF Displace, Consistent, Refers, StoreTypeOK, Tokens
  <2>4. fate' \in [Tokens -> Fate] /\ UNCHANGED <<minted, token>>
    BY <1>1, <1>13, <2>3, DeleteTokenType DEF Displace, StoreTypeOK
  <2>5. untracked' \in [Tokens -> Reason]
    BY <1>1, <1>13, LoseType DEF Displace, StoreTypeOK, Reason
  <2> QED BY <1>1, <1>13, <2>2, <2>4, <2>5 DEF Displace, StoreTypeOK
<1> QED BY <1>0, <1>3, <1>4, <1>5, <1>6, <1>7, <1>8, <1>9, <1>10, <1>11, <1>12, <1>13, CommonType
       DEF AcquireStep

LEMMA LoginType ==
    ASSUME TypeOK, CommandsConsistent, NEW p \in Logins, LoginStep(p)
    PROVE  StoreTypeOK' /\ IssuanceTypeOK' /\ OthersKept(p)
<1> USE DEF OthersKept
<1>0. /\ p \in Issuers /\ proc[p] \in Process /\ Consistent(p)
      /\ clock \in Nat /\ epoch \in Nat /\ cached \in [Slots -> {0} \union Tokens]
      /\ "base" \in Slots /\ "scoped" \in Slots
  BY DEF Issuers, TypeOK, IssuanceTypeOK, StoreTypeOK, CommandsConsistent, Slots
<1>1. IssuanceTypeOK /\ StoreTypeOK BY DEF TypeOK
<1>2. UNCHANGED storeVars => StoreTypeOK' BY <1>1 DEF storeVars, githubVars, StoreTypeOK
<1>3. CASE StartLogin(p)
  <2>1. PICK a \in Authorities:
          Becomes(p, [Idle EXCEPT !.pc = "guard", !.authority = a, !.policy = "base"])
    BY <1>3, Zenon DEF StartLogin
  <2>2. [Idle EXCEPT !.pc = "guard", !.authority = a, !.policy = "base"] \in Process
    BY DEF Idle, Process, PC, Tokens
  <2> QED BY <1>0, <1>1, <1>2, <1>3, <2>1, <2>2, BecomesFrame DEF StartLogin
<1>4. CASE Authorize(p)
  <2>1. PICK l \in Lifetimes, usable \in BOOLEAN:
          /\ Mint(proc[p].authority, "base", 0, proc[p].guard, l)
          /\ \/ Receive(p, l, usable) /\ UNCHANGED untracked
             \/ /\ Becomes(p, Idle)
                /\ untracked' = [untracked EXCEPT ![minted'] = "lost"]
    BY <1>4, Zenon DEF Authorize
  <2>2. proc[p].authority \in Authorities /\ proc[p].guard \in Nat
    BY <1>0, <1>4 DEF Authorize, Consistent, Busy, Process
  <2>3. minted' \in Tokens /\ token' \in [1..minted' -> Token] /\ fate' \in [Tokens -> Fate]
    BY <1>1, <2>1, <2>2, MintType
  <2>4. IssuanceTypeOK' /\ OthersKept(p) BY <1>0, <1>1, <2>1, <2>3, ReceiveType, EndType
  <2>5. untracked' \in [Tokens -> Reason] BY <1>1, <2>1, <2>3 DEF StoreTypeOK, Reason
  <2> QED BY <1>1, <1>4, <2>3, <2>4, <2>5 DEF Authorize, StoreTypeOK
<1>5. CASE AuthorizationFails(p) BY <1>0, <1>1, <1>2, <1>5, EndType DEF AuthorizationFails
<1>6. CASE LoginPersistFails(p) BY <1>0, <1>1, <1>2, <1>6, GiveUpType DEF LoginPersistFails
<1>7. CASE CommitBase(p)
  <2>1. cached["base"] \in {0} \union Tokens BY <1>0
  <2>2. CASE Retain(p, cached["base"]) /\ UNCHANGED storeVars
    BY <1>0, <1>1, <1>2, <2>1, <2>2, RetainType
  <2>3. CASE PublishBase(p, cached["base"])
    <3>1. PICK ok \in BOOLEAN:
            /\ Publish("base", proc[p].held, ok)
            /\ IF ok THEN Becomes(p, Idle) ELSE GiveUp(p)
      BY <2>3, Zenon DEF PublishBase
    <3>2. Lose({cached["base"]} \ {cached'["base"]}, "lost")
          /\ UNCHANGED <<clock, epoch, githubVars>>
      BY <2>3 DEF PublishBase
    <3>3. proc[p].held \in Tokens
      BY <1>0, <1>1, <1>7 DEF CommitBase, Consistent, HasCandidate, Refers, StoreTypeOK, Tokens
    <3>4. IssuanceTypeOK' /\ OthersKept(p) BY <1>0, <1>1, <3>1, GiveUpType, EndType
    <3>5. cached' \in [Slots -> {0} \union Tokens] /\ doubtful' \subseteq Tokens
      BY <1>0, <1>1, <3>1, <3>3, PublishType DEF StoreTypeOK
    <3>6. untracked' \in [Tokens -> Reason] BY <1>1, <3>2, LoseType DEF StoreTypeOK, Reason
    <3> QED BY <1>1, <3>2, <3>4, <3>5, <3>6 DEF StoreTypeOK, githubVars
  <2> QED BY <1>7, <2>2, <2>3 DEF CommitBase
<1> QED BY <1>0, <1>3, <1>4, <1>5, <1>6, <1>7, CommonType DEF LoginStep

RevokersKept(v) == \A w \in Revokers \ {v}: rev'[w] = rev[w]

LEMMA RevokeBecomesFrame ==
    ASSUME RevokeTypeOK, NEW v \in Revokers, NEW state \in Revocation, RevokeBecomes(v, state)
    PROVE  RevokeTypeOK' /\ rev'[v] = state /\ RevokersKept(v)
BY DEF RevokeTypeOK, RevokeBecomes, RevokersKept

\* What a revoke does keeps every type.
LEMMA BeginType ==
    ASSUME TypeOK, NEW v \in Revokers, NEW selected \in SUBSET Occupied, NEW all \in BOOLEAN,
           Begin(v, selected, all)
    PROVE  StoreTypeOK' /\ RevokeTypeOK' /\ RevokersKept(v)
<1>0. /\ RevokeTypeOK /\ rev[v] \in Revocation /\ clock \in Nat /\ epoch \in Nat
      /\ cached \in [Slots -> {0} \union Tokens]
  BY DEF TypeOK, RevokeTypeOK, StoreTypeOK
<1> DEFINE snap == [s \in Slots |-> IF s \in selected THEN cached[s] ELSE 0]
           covered == IF all THEN {cached[s]: s \in selected} ELSE {}
<1>1. PICK now \in 0..clock:
        RevokeBecomes(v, [rev[v] EXCEPT
            !.pc = "process", !.now = now, !.todo = selected, !.clean = TRUE, !.snap = snap,
            !.epoch = IF all THEN epoch' ELSE 0, !.covered = covered])
  BY Zenon DEF Begin
<1>2. snap \in [Slots -> {0} \union Tokens] BY <1>0
<1>3. covered \subseteq Tokens BY <1>0 DEF Occupied
<1>4. selected \subseteq Slots /\ now \in Nat /\ epoch' \in Nat BY <1>0 DEF Begin, Occupied
<1> HIDE DEF snap, covered
<1>5. [rev[v] EXCEPT
            !.pc = "process", !.now = now, !.todo = selected, !.clean = TRUE, !.snap = snap,
            !.epoch = IF all THEN epoch' ELSE 0, !.covered = covered] \in Revocation
  BY <1>0, <1>2, <1>3, <1>4 DEF Revocation
<1>6. RevokeTypeOK' /\ RevokersKept(v) BY <1>0, <1>1, <1>5, RevokeBecomesFrame
<1> QED BY <1>4, <1>6 DEF Begin, TypeOK, StoreTypeOK, githubVars

LEMMA RevokeType ==
    ASSUME TypeOK, NEW v \in Revokers, RevokeStep(v)
    PROVE  StoreTypeOK' /\ RevokeTypeOK' /\ RevokersKept(v)
<1>0. /\ RevokeTypeOK /\ StoreTypeOK /\ rev[v] \in Revocation BY DEF TypeOK, RevokeTypeOK
<1>1. UNCHANGED storeVars => StoreTypeOK' BY <1>0 DEF storeVars, githubVars, StoreTypeOK
<1>2. CASE RevokeAll(v) BY <1>2, BeginType DEF RevokeAll
<1>3. CASE RevokeOne(v) BY <1>3, BeginType DEF RevokeOne
<1>4. ASSUME NEW s \in Slots, NEW intent \in {"RemotelyInactive", "NearExpiry", "LocalOnly"},
             Intend(v, s, intent)
      PROVE  RevokeTypeOK' /\ RevokersKept(v)
  <2>1. [rev[v] EXCEPT !.pc = "delete", !.cur = {s}, !.intent = intent] \in Revocation
    BY <1>0 DEF Revocation
  <2> QED BY <1>0, <1>4, <2>1, RevokeBecomesFrame DEF Intend
<1>5. ASSUME NEW s \in Slots, RevokeLocally(v, s)
      PROVE  StoreTypeOK' /\ RevokeTypeOK' /\ RevokersKept(v)
  BY <1>1, <1>4, <1>5 DEF RevokeLocally
<1>6. ASSUME NEW s \in Slots, RevokeRemotely(v, s)
      PROVE  StoreTypeOK' /\ RevokeTypeOK' /\ RevokersKept(v)
  <2>1. [rev[v] EXCEPT !.todo = @ \ {s}, !.clean = FALSE] \in Revocation
    BY <1>0 DEF Revocation
  <2>2. RevokeTypeOK' /\ RevokersKept(v)
    BY <1>0, <1>4, <1>6, <2>1, RevokeBecomesFrame DEF RevokeRemotely
  <2>3. fate' \in [Tokens -> Fate] /\ UNCHANGED <<minted, token>>
    BY <1>0, <1>6, DeleteTokenType DEF RevokeRemotely, StoreTypeOK
  <2> QED BY <1>0, <1>6, <2>2, <2>3 DEF RevokeRemotely, StoreTypeOK
<1>7. ASSUME NEW s \in Slots, RevokeDelete(v, s)
      PROVE  StoreTypeOK' /\ RevokeTypeOK' /\ RevokersKept(v)
  <2>1. PICK deleted \in BOOLEAN, removed \in BOOLEAN:
          /\ IF removed
             THEN /\ Forget(s)
                  /\ Lose(IF rev[v].intent = "RemotelyInactive" THEN {}
                          ELSE {rev[v].snap[s]}, "reported")
             ELSE UNCHANGED <<cached, untracked>>
          /\ RevokeBecomes(v,
                 [rev[v] EXCEPT
                     !.pc = "process", !.cur = {}, !.todo = @ \ {s},
                     !.clean = @ /\ deleted /\ rev[v].intent # "LocalOnly"])
    BY <1>7, Zenon DEF RevokeDelete
  <2>2. (rev[v].clean /\ deleted /\ rev[v].intent # "LocalOnly") \in BOOLEAN OBVIOUS
  <2>3. [rev[v] EXCEPT !.pc = "process", !.cur = {}, !.todo = @ \ {s},
                       !.clean = @ /\ deleted /\ rev[v].intent # "LocalOnly"] \in Revocation
    BY <1>0, <2>2 DEF Revocation
  <2>4. RevokeTypeOK' /\ RevokersKept(v) BY <1>0, <2>1, <2>3, RevokeBecomesFrame
  <2>5. untracked' \in [Tokens -> Reason] BY <1>0, <2>1, LoseType DEF StoreTypeOK, Reason
  <2>6. cached' \in [Slots -> {0} \union Tokens] BY <1>0, <2>1 DEF StoreTypeOK, Forget
  <2> QED BY <1>0, <1>7, <2>4, <2>5, <2>6 DEF RevokeDelete, StoreTypeOK, githubVars
<1>8. NoSnapshot \in [Slots -> {0} \union Tokens] BY DEF NoSnapshot
<1>9. CASE RevokeReport(v)
  <2>1. [rev[v] EXCEPT !.pc = "done", !.now = 0, !.snap = NoSnapshot,
                       !.intent = "RemotelyInactive"] \in Revocation
    BY <1>0, <1>8 DEF Revocation
  <2> QED BY <1>0, <1>1, <1>9, <2>1, RevokeBecomesFrame DEF RevokeReport
<1>10. CASE RevokeKilled(v)
  <2>1. [rev[v] EXCEPT !.pc = "idle", !.now = 0, !.snap = NoSnapshot, !.todo = {}, !.cur = {},
                       !.intent = "RemotelyInactive"] \in Revocation
    BY <1>0, <1>8 DEF Revocation
  <2> QED BY <1>0, <1>1, <1>10, <2>1, RevokeBecomesFrame DEF RevokeKilled
<1> QED BY <1>2, <1>3, <1>5, <1>6, <1>7, <1>9, <1>10 DEF RevokeStep

LEMMA TypeStep == ASSUME CacheInv, [Next]_vars PROVE TypeOK'
<1> USE DEF CacheInv
<1>1. CASE UNCHANGED vars
  BY <1>1 DEF vars, storeVars, githubVars, TypeOK, StoreTypeOK, IssuanceTypeOK, RevokeTypeOK
<1>2. CASE ByEnv
  BY <1>2 DEF ByEnv, Tick, PruneExpired, Forget, githubVars, TypeOK, StoreTypeOK, IssuanceTypeOK,
              RevokeTypeOK
<1>3. ASSUME NEW p \in Acquirers, ByAcquire(p) PROVE TypeOK'
  BY <1>3, AcquireType DEF ByAcquire, TypeOK, RevokeTypeOK
<1>4. ASSUME NEW p \in Logins, ByLogin(p) PROVE TypeOK'
  BY <1>4, LoginType DEF ByLogin, TypeOK, RevokeTypeOK
<1>5. ASSUME NEW v \in Revokers, ByRevoke(v) PROVE TypeOK'
  BY <1>5, RevokeType DEF ByRevoke, TypeOK, IssuanceTypeOK
<1> QED BY <1>1, <1>2, <1>3, <1>4, <1>5 DEF Next

LEMMA InitTypes == Init => TypeOK
<1> SUFFICES ASSUME Init PROVE TypeOK OBVIOUS
<1> USE DEF Init, StoreInit, IssuanceInit, RevokeInit
<1>1. IssuanceTypeOK BY IdleType DEF IssuanceTypeOK
<1>2. RevokeTypeOK BY DEF RevokeTypeOK, Revocation, NoSnapshot
<1>3. minted \in {0} \union Tokens /\ token \in [1..minted -> Token]
  <2>1. CASE minted = 0 /\ token = <<>> BY <2>1
  <2>2. ASSUME NEW a \in Authorities, NEW l \in Lifetimes, minted = 1, token = <<BaseToken(a, l)>>
        PROVE  minted \in Tokens /\ token \in [1..minted -> Token]
    <3>1. BaseToken(a, l) \in Token BY DEF BaseToken, Token
    <3>2. <<BaseToken(a, l)>> \in [1..1 -> Token] BY <3>1
    <3> QED BY <2>2, <3>2 DEF Tokens
  <2> QED BY <2>1, <2>2
<1>4. StoreTypeOK BY <1>3 DEF StoreTypeOK, Fate, Reason, Slots, Tokens
<1> QED BY <1>1, <1>2, <1>4 DEF TypeOK

-----------------------------------------------------------------------------
(***************************************************************************)
(* What a step of a command amounts to: nothing but a change of its own    *)
(* state, a token received, a record published or evicted, or the end of   *)
(* the command's responsibility for a token.                               *)
(***************************************************************************)
CommandStep(p) ==
    \/ p \in Acquirers /\ ByAcquire(p)
    \/ p \in Logins /\ ByLogin(p)

SlotOf(p) == IF p \in Logins THEN "base" ELSE "scoped"

\* The command keeps its candidate, if it has one, but no longer persists it.
Quiet(p) ==
    /\ UNCHANGED storeVars
    /\ \/ proc'[p].pc \notin {"persist", "discard", "displace"}
          /\ proc[p].pc \notin {"persist", "discard", "displace"}
       \/ proc'[p].pc = "discard" /\ proc[p].pc = "persist" /\ proc'[p].held = proc[p].held

Receives(p) ==
    /\ proc[p].pc = "request"
    /\ minted' = minted + 1 /\ minted' \in Tokens
    /\ \A t \in 1..minted: token'[t] = token[t] /\ fate'[t] = fate[t]
    /\ fate'[minted'] = "working"
    /\ UNCHANGED <<clock, epoch, cached, doubtful>>
    /\ \/ proc'[p].pc \in {"persist", "discard"} /\ proc'[p].held = minted' /\ UNCHANGED untracked
       \/ proc'[p].pc = "idle" /\ untracked' = [untracked EXCEPT ![minted'] = "lost"]

\* The token that was in the slot is lost, or is going to be revoked.
Publishes(p) ==
    /\ proc[p].pc = "persist" /\ epoch = proc[p].guard
    /\ UNCHANGED <<clock, epoch, githubVars>>
    /\ \E s \in Slots, ok \in BOOLEAN, reason \in Reason \ {"no"}:
          /\ s = SlotOf(p)
          /\ Publish(s, proc[p].held, ok)
          /\ cached[s] # 0 =>
                \/ ~Compatible(cached[s], proc[p].held, clock)
                \/ p \in Acquirers /\ proc[p].old = cached[s]
          /\ \/ ok /\ proc'[p].pc \in {"return", "idle"}
                /\ Lose({cached[s]} \ {cached'[s]}, reason)
             \/ ~ok /\ proc'[p].pc = "discard" /\ proc'[p].held = proc[p].held
                /\ Lose({cached[s]} \ {cached'[s]}, reason)
             \/ /\ ok /\ p \in Acquirers /\ proc'[p].pc = "displace"
                /\ cached[s] # 0 /\ cached[s] = proc[p].old /\ proc'[p].old = cached[s]
                /\ UNCHANGED untracked

Evicts(p) ==
    /\ proc[p].pc = "evict" /\ proc'[p].pc = "idle"
    /\ UNCHANGED <<clock, epoch, githubVars, doubtful>>
    /\ \/ /\ p \in Acquirers /\ proc[p].base = cached["base"]
          /\ Forget("base") /\ Lose({cached["base"]}, "lost")
       \/ UNCHANGED <<cached, untracked>>

Releases(p) ==
    /\ proc'[p].pc \in {"idle", "return"}
    /\ UNCHANGED <<clock, epoch, cached, doubtful, minted, token>>
    /\ \A t \in Tokens:
          \/ fate'[t] = fate[t]
          \/ /\ t \in Holding(p) /\ proc[p].pc \in {"discard", "displace"}
             /\ fate[t] = "working" /\ fate'[t] = "discarded"
    /\ \A t \in Tokens: untracked'[t] = untracked[t] \/ untracked'[t] # "no"
    /\ \A t \in Holding(p):
          \/ ~Works(t)' \/ untracked'[t] # "no"
          \/ \E s \in Slots: cached[s] = t

CommandEffect(p) == Quiet(p) \/ Receives(p) \/ Publishes(p) \/ Evicts(p) \/ Releases(p)

LEMMA DeleteFate ==
    ASSUME fate \in [Tokens -> Fate], NEW t, NEW answer, NEW by, DeleteToken(t, answer, by),
           minted \in {0} \union Tokens
    PROVE  /\ \A u \in Tokens: \/ fate'[u] = fate[u]
                               \/ u = t /\ fate[u] = "working" /\ fate'[u] = by
           /\ answer = "Ok" => t \in Tokens /\ fate'[t] = by
           /\ answer = "NotFound" => ~Works(t)
           /\ answer \in {"Ok", "NotFound", "Error"}
           /\ UNCHANGED <<minted, token>>
<1>1. CASE answer = "Ok" /\ Works(t) /\ fate' = [fate EXCEPT ![t] = by]
  BY <1>1 DEF Works, Tokens, DeleteToken
<1>2. CASE answer = "NotFound" /\ ~Works(t) /\ UNCHANGED fate BY <1>2 DEF DeleteToken
<1>3. CASE answer = "Error"
           /\ fate' \in {fate, [fate EXCEPT ![t] = IF @ = "working" THEN by ELSE @]}
  BY <1>3 DEF DeleteToken
<1> QED BY <1>1, <1>2, <1>3 DEF DeleteToken

LEMMA LoseEffect ==
    ASSUME untracked \in [Tokens -> Reason], NEW tokens, NEW reason \in Reason \ {"no"},
           Lose(tokens, reason)
    PROVE  /\ \A t \in Tokens: untracked'[t] = untracked[t] \/ untracked'[t] # "no"
           /\ \A t \in Tokens \intersect tokens: fate[t] # "working" \/ untracked'[t] # "no"
BY DEF Lose

LEMMA BecomesIs ==
    ASSUME IssuanceTypeOK, NEW p \in Issuers, NEW state, Becomes(p, state)
    PROVE  proc'[p] = state
BY DEF IssuanceTypeOK, Becomes

LEMMA DiscardReleases ==
    ASSUME TypeOK, CommandsConsistent, NEW p \in Issuers, Discard(p)
    PROVE  Releases(p)
<1> PICK h: h = proc[p].held OBVIOUS
<1> DEFINE revoked == [proc[p] EXCEPT !.pc = "return", !.held = 0]
<1>0. /\ IssuanceTypeOK /\ proc[p] \in Process /\ fate \in [Tokens -> Fate]
      /\ untracked \in [Tokens -> Reason] /\ minted \in {0} \union Tokens
      /\ proc[p].pc = "discard" /\ h \in Tokens /\ Holding(p) = {h}
  BY DEF TypeOK, IssuanceTypeOK, StoreTypeOK, Discard, Holding, CommandsConsistent, Consistent,
         HasCandidate, Refers, Tokens
<1>1. UNCHANGED <<clock, epoch, cached, doubtful>> BY DEF Discard
<1>2. CASE /\ DeleteToken(h, "Ok", "discarded")
           /\ Becomes(p, IF proc[p].result = 0 THEN Idle ELSE revoked)
           /\ UNCHANGED untracked
  <2>1. proc'[p] = IF proc[p].result = 0 THEN Idle ELSE revoked BY <1>0, <1>2, BecomesIs
  <2>2. proc'[p].pc \in {"idle", "return"} BY <1>0, <2>1 DEF Idle, Process
  <2>3. /\ \A u \in Tokens: fate'[u] = fate[u]
                            \/ (u = h /\ fate[u] = "working" /\ fate'[u] = "discarded")
        /\ fate'[h] = "discarded" /\ UNCHANGED <<minted, token>>
    BY <1>0, <1>2, DeleteFate
  <2>4. ~Works(h)' BY <2>3 DEF Works
  <2> QED BY <1>0, <1>1, <1>2, <2>2, <2>3, <2>4 DEF Releases
<1>3. ASSUME NEW answer \in {"NotFound", "Error"}, DeleteToken(h, answer, "discarded"),
             Lose({h}, "reported"), Becomes(p, Idle)
      PROVE  Releases(p)
  <2>1. proc'[p].pc = "idle" BY <1>0, <1>3, BecomesIs DEF Idle
  <2>2. /\ \A u \in Tokens: fate'[u] = fate[u]
                            \/ (u = h /\ fate[u] = "working" /\ fate'[u] = "discarded")
        /\ UNCHANGED <<minted, token>>
    BY <1>0, <1>3, DeleteFate
  <2>3. /\ \A u \in Tokens: untracked'[u] = untracked[u] \/ untracked'[u] # "no"
        /\ fate[h] # "working" \/ untracked'[h] # "no"
    BY <1>0, <1>3, LoseEffect DEF Reason
  <2>4. ~Works(h)' \/ untracked'[h] # "no" BY <1>0, <2>2, <2>3 DEF Works
  <2> QED BY <1>0, <1>1, <2>1, <2>2, <2>3, <2>4 DEF Releases
<1>4. CASE Lose({h}, "reported") /\ Becomes(p, Idle) /\ UNCHANGED githubVars
  <2>1. proc'[p].pc = "idle" BY <1>0, <1>4, BecomesIs DEF Idle
  <2>2. /\ \A u \in Tokens: untracked'[u] = untracked[u] \/ untracked'[u] # "no"
        /\ fate[h] # "working" \/ untracked'[h] # "no"
    BY <1>0, <1>4, LoseEffect DEF Reason
  <2>3. ~Works(h)' \/ untracked'[h] # "no" BY <1>4, <2>2 DEF Works, githubVars
  <2> QED BY <1>0, <1>1, <1>4, <2>1, <2>2, <2>3 DEF Releases, githubVars
<1> QED BY <1>2, <1>3, <1>4 DEF Discard

LEMMA DisplaceReleases ==
    ASSUME TypeOK, CommandsConsistent, NEW p \in Issuers, Displace(p)
    PROVE  Releases(p)
<1> PICK o: o = proc[p].old OBVIOUS
<1> DEFINE revoked == [proc[p] EXCEPT !.pc = "return", !.held = 0]
<1>0. /\ IssuanceTypeOK /\ proc[p] \in Process /\ fate \in [Tokens -> Fate]
      /\ untracked \in [Tokens -> Reason] /\ minted \in {0} \union Tokens
      /\ proc[p].pc = "displace" /\ o \in Tokens /\ Holding(p) = {o}
  BY DEF TypeOK, IssuanceTypeOK, StoreTypeOK, Displace, Holding, CommandsConsistent, Consistent,
         HasCandidate, Refers, Tokens
<1>1. UNCHANGED <<clock, epoch, cached, doubtful>> BY DEF Displace
<1>2. CASE /\ DeleteToken(o, "Ok", "discarded") /\ Becomes(p, revoked) /\ UNCHANGED untracked
  <2>1. proc'[p].pc = "return"
    <3>1. proc'[p] = revoked BY <1>0, <1>2, BecomesIs
    <3>2. revoked.pc = "return" BY <1>0 DEF Process
    <3> QED BY <3>1, <3>2
  <2>2. /\ \A u \in Tokens: fate'[u] = fate[u]
                            \/ (u = o /\ fate[u] = "working" /\ fate'[u] = "discarded")
        /\ fate'[o] = "discarded" /\ UNCHANGED <<minted, token>>
    BY <1>0, <1>2, DeleteFate
  <2>3. ~Works(o)' BY <2>2 DEF Works
  <2> QED BY <1>0, <1>1, <1>2, <2>1, <2>2, <2>3 DEF Releases
<1>3. ASSUME NEW answer \in {"NotFound", "Error"}, DeleteToken(o, answer, "discarded"),
             Lose({o}, "reported"), Becomes(p, Idle)
      PROVE  Releases(p)
  <2>1. proc'[p].pc = "idle" BY <1>0, <1>3, BecomesIs DEF Idle
  <2>2. /\ \A u \in Tokens: fate'[u] = fate[u]
                            \/ (u = o /\ fate[u] = "working" /\ fate'[u] = "discarded")
        /\ UNCHANGED <<minted, token>>
    BY <1>0, <1>3, DeleteFate
  <2>3. /\ \A u \in Tokens: untracked'[u] = untracked[u] \/ untracked'[u] # "no"
        /\ fate[o] # "working" \/ untracked'[o] # "no"
    BY <1>0, <1>3, LoseEffect DEF Reason
  <2>4. ~Works(o)' \/ untracked'[o] # "no" BY <1>0, <2>2, <2>3 DEF Works
  <2> QED BY <1>0, <1>1, <2>1, <2>2, <2>3, <2>4 DEF Releases
<1> QED BY <1>2, <1>3 DEF Displace

LEMMA KilledReleases ==
    ASSUME TypeOK, CommandsConsistent, NEW p \in Issuers, Killed(p)
    PROVE  Releases(p)
<1>0. IssuanceTypeOK /\ untracked \in [Tokens -> Reason] BY DEF TypeOK, StoreTypeOK
<1>1. proc'[p].pc = "idle" BY <1>0, BecomesIs DEF Killed, Idle
<1>2. Holding(p) \subseteq Tokens
  BY DEF TypeOK, StoreTypeOK, Holding, CommandsConsistent, Consistent, HasCandidate, Refers, Tokens
<1> DEFINE lost == Holding(p) \ {cached[s]: s \in Slots}
<1>3. Lose(lost, "lost") /\ UNCHANGED <<clock, epoch, cached, githubVars, doubtful>> BY DEF Killed
<1>4. /\ \A t \in Tokens: untracked'[t] = untracked[t] \/ untracked'[t] # "no"
      /\ \A t \in Tokens \intersect lost: fate[t] # "working" \/ untracked'[t] # "no"
  <2> HIDE DEF lost
  <2> QED BY <1>0, <1>3, LoseEffect DEF Reason
<1>5. ASSUME NEW t \in Holding(p)
      PROVE  ~Works(t)' \/ untracked'[t] # "no" \/ \E s \in Slots: cached[s] = t
  BY <1>2, <1>3, <1>4 DEF Works, githubVars
<1> QED BY <1>1, <1>3, <1>4, <1>5 DEF Releases, githubVars

LEMMA CommonEffect ==
    ASSUME TypeOK, CommandsConsistent, NEW p \in Issuers,
           TakeGuard(p) \/ Discard(p) \/ Return(p) \/ Killed(p)
    PROVE  CommandEffect(p)
<1>0. IssuanceTypeOK /\ proc[p] \in Process BY DEF TypeOK, IssuanceTypeOK
<1>1. CASE TakeGuard(p)
  <2>1. \/ proc'[p] = [proc[p] EXCEPT !.pc = "request", !.guard = epoch]
        \/ proc'[p] = Idle
    BY <1>0, <1>1, BecomesIs DEF TakeGuard
  <2>2. [proc[p] EXCEPT !.pc = "request", !.guard = epoch].pc = "request" BY <1>0 DEF Process
  <2>3. Idle.pc = "idle" BY DEF Idle
  <2> QED BY <1>1, <2>1, <2>2, <2>3 DEF TakeGuard, Quiet, CommandEffect
<1>2. CASE Return(p)
  <2>1. proc'[p].pc = "idle" BY <1>0, <1>2, BecomesIs DEF Return, Idle
  <2> QED BY <1>2, <2>1 DEF Return, Quiet, CommandEffect
<1> QED BY <1>1, <1>2, DiscardReleases, KilledReleases DEF CommandEffect

-----------------------------------------------------------------------------
(***************************************************************************)
(* Every step of a command has one of these effects, and keeps the command *)
(* consistent.  Fits says of a process state what Consistent says of the   *)
(* state of p.                                                             *)
(***************************************************************************)
RefersFor(st, t) == t \in 1..minted /\ Provenance(t) = <<st.authority, st.policy, st.base>>

Fits(p, st) ==
    /\ st.pc # "idle" => st.authority \in Authorities
    /\ st.pc # "idle" /\ p \in Logins =>
          st.policy = "base" /\ st.base = 0 /\ st.old = 0
          /\ st.pc \notin {"classify", "evict", "displace"}
    /\ st.pc # "idle" /\ p \in Acquirers /\ st.pc # "return" =>
          st.policy \in Policies /\ st.base \in 1..minted
    /\ st.old # 0 => RefersFor(st, st.old)
    /\ st.result # 0 => RefersFor(st, st.result)
    /\ st.pc = "return" => st.result # 0
    /\ st.pc = "displace" => st.old # 0 /\ st.result # 0
    /\ st.pc \in {"persist", "discard", "displace"} =>
          RefersFor(st, st.held) /\ token[st.held].guard = st.guard

LEMMA ConsistentFits ==
    ASSUME NEW p
    PROVE  /\ Consistent(p) <=> Fits(p, proc[p])
           /\ Consistent(p)' <=> Fits(p, proc[p])'
BY DEF Consistent, Fits, Refers, RefersFor, Expected, Busy, HasCandidate

TokensGrow ==
    /\ minted \in Nat /\ minted' \in {minted, minted + 1}
    /\ \A t \in 1..minted: token'[t] = token[t]

LEMMA FitsStays ==
    ASSUME NEW p, Fits(p, proc'[p]), TokensGrow PROVE Consistent(p)'
<1>0. 1..minted \subseteq 1..minted' BY DEF TokensGrow
<1>1. \A t: RefersFor(proc'[p], t) => Refers(p, t)' /\ token'[t] = token[t]
  BY <1>0 DEF RefersFor, Refers, Expected, Provenance, TokensGrow
<1> QED BY <1>0, <1>1 DEF Fits, Consistent, Busy, HasCandidate

LEMMA StillConsistent ==
    ASSUME NEW p, Consistent(p), proc'[p] = proc[p], TokensGrow PROVE Consistent(p)'
<1>1. Fits(p, proc[p]) BY ConsistentFits
<1> QED BY <1>1, FitsStays

LEMMA IdleFits == ASSUME NEW p PROVE Fits(p, Idle)
BY DEF Fits, Idle

LEMMA CommonConsistent ==
    ASSUME TypeOK, CommandsConsistent, NEW p \in Issuers,
           TakeGuard(p) \/ Discard(p) \/ Return(p) \/ Killed(p)
    PROVE  Consistent(p)'
<1>0. IssuanceTypeOK /\ proc[p] \in Process /\ Fits(p, proc[p]) /\ minted \in Nat
  BY ConsistentFits DEF TypeOK, IssuanceTypeOK, CommandsConsistent, StoreTypeOK, Tokens
<1>1. TokensGrow
  <2>1. UNCHANGED <<minted, token>>
    BY DEF TakeGuard, Return, Killed, Discard, DeleteToken, storeVars, githubVars
  <2> QED BY <1>0, <2>1 DEF TokensGrow
<1>2. CASE Becomes(p, Idle) BY <1>0, <1>1, <1>2, BecomesIs, IdleFits, FitsStays
<1>3. CASE TakeGuard(p) /\ Becomes(p, [proc[p] EXCEPT !.pc = "request", !.guard = epoch])
  <2>1. Fits(p, [proc[p] EXCEPT !.pc = "request", !.guard = epoch])
    BY <1>0, <1>3 DEF Fits, RefersFor, Process, TakeGuard
  <2> QED BY <1>0, <1>1, <1>3, <2>1, BecomesIs, FitsStays
<1>4. CASE /\ Discard(p) /\ proc[p].result # 0
           /\ Becomes(p, [proc[p] EXCEPT !.pc = "return", !.held = 0])
  <2>1. Fits(p, [proc[p] EXCEPT !.pc = "return", !.held = 0])
    BY <1>0, <1>4 DEF Fits, RefersFor, Process, Discard
  <2> QED BY <1>0, <1>1, <1>4, <2>1, BecomesIs, FitsStays
<1>5. CASE TakeGuard(p) BY <1>2, <1>3, <1>5 DEF TakeGuard
<1>6. CASE Discard(p) BY <1>2, <1>4, <1>6, Zenon DEF Discard
<1> QED BY <1>2, <1>5, <1>6 DEF Return, Killed

LEMMA GiveUpEffect ==
    ASSUME TypeOK, CommandsConsistent, NEW p \in Issuers, proc[p].pc = "persist", GiveUp(p)
    PROVE  /\ proc'[p].pc = "discard" /\ proc'[p].held = proc[p].held
           /\ Fits(p, proc'[p])
<1>0. IssuanceTypeOK /\ proc[p] \in Process /\ Fits(p, proc[p])
  BY ConsistentFits DEF TypeOK, IssuanceTypeOK, CommandsConsistent
<1>1. proc'[p] = [proc[p] EXCEPT !.pc = "discard", !.result = 0] BY <1>0, BecomesIs DEF GiveUp
<1> QED BY <1>0, <1>1 DEF Fits, RefersFor, Process

LEMMA RetainEffect ==
    ASSUME TypeOK, CommandsConsistent, NEW p \in Issuers, proc[p].pc = "persist",
           NEW t \in 1..minted, Provenance(t) = Provenance(proc[p].held), Retain(p, t)
    PROVE  /\ proc'[p].pc = "discard" /\ proc'[p].held = proc[p].held
           /\ Fits(p, proc'[p])
<1>0. IssuanceTypeOK /\ proc[p] \in Process /\ Fits(p, proc[p])
  BY ConsistentFits DEF TypeOK, IssuanceTypeOK, CommandsConsistent
<1>1. proc'[p] = [proc[p] EXCEPT !.pc = "discard", !.result = t] BY <1>0, BecomesIs DEF Retain
<1> QED BY <1>0, <1>1 DEF Fits, RefersFor, Process

LEMMA ReceiveEffect ==
    ASSUME TypeOK, CommandsConsistent, NEW p \in Issuers, proc[p].pc = "request",
           NEW lifetime \in Lifetimes, NEW usable \in BOOLEAN,
           NEW policy \in Policies \union {"base"}, NEW parent \in {0} \union Tokens,
           <<policy, parent>> = <<proc[p].policy, proc[p].base>>,
           Mint(proc[p].authority, policy, parent, proc[p].guard, lifetime),
           \/ Receive(p, lifetime, usable) /\ UNCHANGED untracked
           \/ Becomes(p, Idle) /\ untracked' = [untracked EXCEPT ![minted'] = "lost"],
           UNCHANGED <<clock, epoch, cached, doubtful>>
    PROVE  Receives(p) /\ Consistent(p)'
<1>0. /\ IssuanceTypeOK /\ StoreTypeOK /\ proc[p] \in Process /\ Fits(p, proc[p])
      /\ minted \in Nat /\ clock \in Nat
  BY ConsistentFits DEF TypeOK, IssuanceTypeOK, CommandsConsistent, StoreTypeOK, Tokens
<1>1. proc[p].authority \in Authorities /\ proc[p].guard \in Nat BY <1>0 DEF Fits, Process
<1>2. /\ minted' = minted + 1 /\ minted' \in Tokens
      /\ token' \in [1..minted' -> Token]
      /\ \A t \in 1..minted: token'[t] = token[t]
      /\ token'[minted'] = [authority |-> proc[p].authority, policy |-> policy,
                            parent |-> parent, expires |-> clock + lifetime,
                            guard |-> proc[p].guard]
      /\ fate' \in [Tokens -> Fate]
      /\ fate'[minted'] = "working"
      /\ \A t \in 1..minted: fate'[t] = fate[t]
  BY <1>0, <1>1, MintType
<1>3. TokensGrow BY <1>0, <1>2 DEF TokensGrow
<1>4. CASE Becomes(p, Idle) /\ untracked' = [untracked EXCEPT ![minted'] = "lost"]
  <2>1. proc'[p] = Idle BY <1>0, <1>4, BecomesIs
  <2>2. Consistent(p)' BY <1>3, <2>1, IdleFits, FitsStays
  <2>3. Receives(p) BY <1>2, <1>4, <2>1 DEF Receives, Idle
  <2> QED BY <2>2, <2>3
<1>5. CASE Receive(p, lifetime, usable) /\ UNCHANGED untracked
  <2>1. PICK pc \in {"persist", "discard"}, at \in {0, clock}:
          proc'[p] = [proc[p] EXCEPT !.pc = pc, !.held = minted', !.at = at]
    BY <1>0, <1>5, BecomesIs DEF Receive
  <2> DEFINE st == [proc[p] EXCEPT !.pc = pc, !.held = minted', !.at = at]
  <2>2. /\ st.pc = pc /\ st.held = minted' /\ st.guard = proc[p].guard
        /\ st.authority = proc[p].authority /\ st.policy = proc[p].policy
        /\ st.base = proc[p].base /\ st.old = proc[p].old /\ st.result = proc[p].result
    BY <1>0 DEF Process
  <2>3. Receives(p) BY <1>2, <1>5, <2>1, <2>2 DEF Receives
  <2> DEFINE q == proc'[p]
  <2>4. /\ q.pc = pc /\ q.held = minted' /\ q.guard = proc[p].guard
        /\ q.authority = proc[p].authority /\ q.policy = proc[p].policy
        /\ q.base = proc[p].base /\ q.old = proc[p].old /\ q.result = proc[p].result
    BY <2>1, <2>2
  <2> HIDE DEF st, q
  <2>5. 1..minted \subseteq 1..minted' /\ minted' \in 1..minted' BY <1>0, <1>2
  <2>6. \A t: RefersFor(proc[p], t) => Refers(p, t)'
    BY <1>2, <2>4, <2>5 DEF RefersFor, Refers, Expected, Provenance, q
  <2>7. PICK n: n = minted' OBVIOUS
  <2>8. token'[n].guard = q.guard /\ Refers(p, n)'
    BY <1>2, <2>4, <2>5, <2>7 DEF Refers, Expected, Provenance, q
  <2>9. Consistent(p)'
    BY <1>0, <2>1, <2>4, <2>5, <2>6, <2>7, <2>8 DEF Consistent, Busy, HasCandidate, Fits, q
  <2> QED BY <2>3, <2>9
<1> QED BY <1>4, <1>5

LEMMA LoginEffect ==
    ASSUME CacheInv, NEW p \in Logins, LoginStep(p)
    PROVE  CommandEffect(p) /\ Consistent(p)'
<1>0. /\ TypeOK /\ CommandsConsistent /\ p \in Issuers /\ p \notin Acquirers
      /\ IssuanceTypeOK /\ proc[p] \in Process /\ Fits(p, proc[p])
      /\ minted \in Nat /\ cached \in [Slots -> {0} \union Tokens] /\ "base" \in Slots
  BY ConsistentFits DEF CacheInv, TypeOK, IssuanceTypeOK, CommandsConsistent, StoreTypeOK,
                        Tokens, Issuers, Slots
<1>1. UNCHANGED <<minted, token>> => TokensGrow BY <1>0 DEF TokensGrow
<1>2. UNCHANGED storeVars => UNCHANGED <<minted, token>> BY DEF storeVars, githubVars
<1>3. CASE StartLogin(p)
  <2>1. PICK a \in Authorities:
          proc'[p] = [Idle EXCEPT !.pc = "guard", !.authority = a, !.policy = "base"]
    BY <1>0, <1>3, BecomesIs DEF StartLogin
  <2>2. Fits(p, proc'[p]) /\ proc'[p].pc = "guard" BY <1>0, <2>1 DEF Fits, Idle
  <2> QED BY <1>1, <1>2, <1>3, <2>2, FitsStays DEF StartLogin, CommandEffect, Quiet
<1>4. CASE Authorize(p)
  <2>1. PICK l \in Lifetimes, usable \in BOOLEAN:
          /\ Mint(proc[p].authority, "base", 0, proc[p].guard, l)
          /\ \/ Receive(p, l, usable) /\ UNCHANGED untracked
             \/ /\ Becomes(p, Idle)
                /\ untracked' = [untracked EXCEPT ![minted'] = "lost"]
    BY <1>4, Zenon DEF Authorize
  <2>2. proc[p].pc = "request" /\ <<"base", 0>> = <<proc[p].policy, proc[p].base>>
    BY <1>0, <1>4 DEF Authorize, Fits
  <2> QED BY <1>0, <1>4, <2>1, <2>2, ReceiveEffect DEF Authorize, CommandEffect
<1>5. CASE AuthorizationFails(p)
  <2>1. proc'[p] = Idle /\ Idle.pc = "idle"
    BY <1>0, <1>5, BecomesIs DEF AuthorizationFails, Idle
  <2> QED BY <1>1, <1>2, <1>5, <2>1, IdleFits, FitsStays
          DEF AuthorizationFails, CommandEffect, Quiet
<1>6. CASE LoginPersistFails(p)
  BY <1>0, <1>1, <1>2, <1>6, GiveUpEffect, FitsStays DEF LoginPersistFails, CommandEffect, Quiet
<1>7. CASE CommitBase(p)
  <2>1. CASE /\ Winner("base", proc[p].held, clock)
             /\ Retain(p, cached["base"]) /\ UNCHANGED storeVars
    <3>1. /\ cached["base"] \in 1..minted
          /\ Provenance(cached["base"]) = Provenance(proc[p].held)
      BY <1>0, <2>1 DEF Winner, Compatible, CacheInv, NamesMinted, Tokens
    <3>2. proc[p].pc = "persist" BY <1>7 DEF CommitBase
    <3> QED BY <1>0, <1>1, <1>2, <2>1, <3>1, <3>2, RetainEffect, FitsStays DEF CommandEffect, Quiet
  <2>2. CASE ~Winner("base", proc[p].held, clock) /\ PublishBase(p, cached["base"])
    <3>1. PICK ok \in BOOLEAN:
            /\ Publish("base", proc[p].held, ok)
            /\ IF ok THEN Becomes(p, Idle) ELSE GiveUp(p)
      BY <2>2, Zenon DEF PublishBase
    <3>2. Lose({cached["base"]} \ {cached'["base"]}, "lost")
          /\ UNCHANGED <<clock, epoch, githubVars>>
      BY <2>2 DEF PublishBase
    <3>3. proc[p].pc = "persist" /\ epoch = proc[p].guard BY <1>7 DEF CommitBase
    <3>c. cached["base"] # 0 => ~Compatible(cached["base"], proc[p].held, clock)
      BY <2>2 DEF Winner
    <3>4. /\ Fits(p, proc'[p])
          /\ \/ ok /\ proc'[p].pc = "idle"
             \/ ~ok /\ proc'[p].pc = "discard" /\ proc'[p].held = proc[p].held
      <4>1. CASE ok
        <5>1. proc'[p] = Idle /\ Idle.pc = "idle" BY <1>0, <3>1, <4>1, BecomesIs DEF Idle
        <5> QED BY <4>1, <5>1, IdleFits
      <4>2. CASE ~ok BY <1>0, <3>1, <3>3, <4>2, GiveUpEffect
      <4> QED BY <4>1, <4>2
    <3>5. "lost" \in Reason \ {"no"} /\ "base" = SlotOf(p) BY DEF Reason, SlotOf
    <3>6. Publishes(p) BY <1>0, <3>1, <3>2, <3>3, <3>c, <3>4, <3>5 DEF Publishes
    <3>7. Consistent(p)' BY <1>1, <3>2, <3>4, FitsStays DEF githubVars
    <3> QED BY <3>6, <3>7 DEF CommandEffect
  <2> QED BY <1>7, <2>1, <2>2 DEF CommitBase
<1> QED BY <1>0, <1>3, <1>4, <1>5, <1>6, <1>7, CommonEffect, CommonConsistent DEF LoginStep

LEMMA AcquireEffect ==
    ASSUME CacheInv, NEW p \in Acquirers, AcquireStep(p)
    PROVE  CommandEffect(p) /\ Consistent(p)'
<1>0. /\ TypeOK /\ CommandsConsistent /\ p \in Issuers /\ p \notin Logins
      /\ IssuanceTypeOK /\ proc[p] \in Process /\ Fits(p, proc[p])
      /\ minted \in Nat /\ cached \in [Slots -> {0} \union Tokens]
      /\ "base" \in Slots /\ "scoped" \in Slots
  BY ConsistentFits DEF CacheInv, TypeOK, IssuanceTypeOK, CommandsConsistent, StoreTypeOK,
                        Tokens, Issuers, Slots
<1>n. \A s \in Slots: cached[s] # 0 => cached[s] \in 1..minted
  BY <1>0 DEF CacheInv, NamesMinted, Tokens
<1>1. UNCHANGED <<minted, token>> => TokensGrow BY <1>0 DEF TokensGrow
<1>2. UNCHANGED storeVars => UNCHANGED <<minted, token>> BY DEF storeVars, githubVars
\* A step that leaves the store alone, of a command that is not responsible for a token.
<1>q. ASSUME UNCHANGED storeVars, Fits(p, proc'[p]),
             proc'[p].pc \notin {"persist", "discard", "displace"},
             proc[p].pc \notin {"persist", "discard", "displace"}
      PROVE  CommandEffect(p) /\ Consistent(p)'
  BY <1>1, <1>2, <1>q, FitsStays DEF CommandEffect, Quiet
<1>i. /\ Fits(p, Idle) /\ Idle.pc \notin {"persist", "discard", "displace"}
      /\ Becomes(p, Idle) => proc'[p] = Idle
  BY <1>0, IdleFits, BecomesIs DEF Idle
<1>3. CASE Prepare(p)
  <2>1. PICK a \in Authorities, policy \in Policies:
          /\ CurrentBase(a)
          /\ Becomes(p, [Idle EXCEPT !.pc = "classify", !.authority = a, !.policy = policy,
                                     !.base = cached["base"], !.at = clock])
    BY <1>3, Zenon DEF Prepare
  <2>2. proc'[p] = [Idle EXCEPT !.pc = "classify", !.authority = a, !.policy = policy,
                                !.base = cached["base"], !.at = clock]
    BY <1>0, <2>1, BecomesIs
  <2>3. cached["base"] \in 1..minted BY <1>0, <1>n, <2>1 DEF CurrentBase
  <2>4. Fits(p, proc'[p]) /\ proc'[p].pc = "classify" BY <1>0, <2>2, <2>3 DEF Fits, Idle
  <2> QED BY <1>q, <1>3, <2>4 DEF Prepare
<1>4. CASE AcquireBase(p)
  <2>1. PICK a \in Authorities:
          /\ CurrentBase(a)
          /\ Becomes(p, [Idle EXCEPT !.pc = "return", !.authority = a, !.policy = "base",
                                     !.result = cached["base"]])
    BY <1>4, Zenon DEF AcquireBase
  <2>2. proc'[p] = [Idle EXCEPT !.pc = "return", !.authority = a, !.policy = "base",
                                !.result = cached["base"]]
    BY <1>0, <2>1, BecomesIs
  <2>3. cached["base"] \in 1..minted /\ Provenance(cached["base"]) = <<a, "base", 0>>
    BY <1>0, <1>n, <2>1 DEF CurrentBase, Provenance, CacheInv, BaseSlot
  <2>4. Fits(p, proc'[p]) /\ proc'[p].pc = "return"
    BY <1>0, <2>2, <2>3 DEF Fits, Idle, RefersFor
  <2> QED BY <1>q, <1>4, <2>4 DEF AcquireBase
<1>5. CASE Classify(p)
  <2> DEFINE c == cached["scoped"]
             kept == [proc[p] EXCEPT !.pc = "return", !.result = c, !.at = 0]
             next(t) == [proc[p] EXCEPT !.pc = "guard", !.at = 0, !.old = t]
  <2>1. \/ proc'[p] = kept /\ c # 0 /\ Expected(p, c)
        \/ proc'[p] = next(c) /\ c # 0 /\ Expected(p, c)
        \/ proc'[p] = next(0)
    BY <1>0, <1>5, BecomesIs DEF Classify
  <2>2. c # 0 /\ Expected(p, c) => RefersFor(proc[p], c) BY <1>0, <1>n DEF RefersFor, Expected
  <2>3. proc[p].pc = "classify" BY <1>5 DEF Classify
  <2> HIDE DEF c
  <2>4. CASE proc'[p] = kept /\ RefersFor(proc[p], c) /\ c # 0
    <3>1. Fits(p, kept) /\ kept.pc = "return" BY <1>0, <2>3, <2>4 DEF Fits, Process, RefersFor
    <3> QED BY <1>q, <1>5, <2>3, <2>4, <3>1 DEF Classify
  <2>5. CASE proc'[p] = next(c) /\ RefersFor(proc[p], c) /\ c # 0
    <3>1. Fits(p, next(c)) /\ next(c).pc = "guard"
      BY <1>0, <2>3, <2>5 DEF Fits, Process, RefersFor
    <3> QED BY <1>q, <1>5, <2>3, <2>5, <3>1 DEF Classify
  <2>6. CASE proc'[p] = next(0)
    <3>1. Fits(p, next(0)) /\ next(0).pc = "guard" BY <1>0, <2>3 DEF Fits, Process, RefersFor
    <3> QED BY <1>q, <1>5, <2>3, <2>6, <3>1 DEF Classify
  <2> QED BY <2>1, <2>2, <2>4, <2>5, <2>6
<1>6. CASE BaseUnsafe(p)
  <2> DEFINE kept == [proc[p] EXCEPT !.pc = "return", !.result = proc[p].old]
  <2>1. proc'[p] = Idle \/ (proc'[p] = kept /\ proc[p].old # 0)
    BY <1>0, <1>6, BecomesIs DEF BaseUnsafe
  <2>2. proc[p].pc = "request" BY <1>6 DEF BaseUnsafe
  <2>3. proc[p].old # 0 => Fits(p, kept) /\ kept.pc = "return"
    BY <1>0, <2>2 DEF Fits, Process, RefersFor
  <2> QED BY <1>q, <1>i, <1>6, <2>1, <2>2, <2>3 DEF BaseUnsafe
<1>7. CASE Issue(p)
  <2>1. PICK l \in Lifetimes:
          /\ Mint(proc[p].authority, proc[p].policy, proc[p].base, proc[p].guard, l)
          /\ \/ Receive(p, l, TRUE) /\ UNCHANGED untracked
             \/ /\ Becomes(p, Idle)
                /\ untracked' = [untracked EXCEPT ![minted'] = "lost"]
    BY <1>7, Zenon DEF Issue
  <2>2. /\ proc[p].pc = "request" /\ proc[p].policy \in Policies \union {"base"}
        /\ proc[p].base \in {0} \union Tokens /\ TRUE \in BOOLEAN
    BY <1>0, <1>7 DEF Issue, Fits, Process
  <2>3. UNCHANGED <<clock, epoch, cached, doubtful>> BY <1>7 DEF Issue
  <2> QED BY <1>0, <2>1, <2>2, <2>3, ReceiveEffect DEF CommandEffect
<1>8. CASE IssueFails(p)
  <2> DEFINE evict == [proc[p] EXCEPT !.pc = "evict"]
  <2>1. proc'[p] = Idle \/ proc'[p] = evict BY <1>0, <1>8, BecomesIs DEF IssueFails
  <2>2. proc[p].pc = "request" BY <1>8 DEF IssueFails
  <2>3. Fits(p, evict) /\ evict.pc = "evict" BY <1>0, <2>2 DEF Fits, Process, RefersFor
  <2> QED BY <1>q, <1>i, <1>8, <2>1, <2>2, <2>3 DEF IssueFails
<1>9. CASE Evict(p)
  <2>1. proc[p].pc = "evict" /\ proc'[p] = Idle /\ Idle.pc = "idle" BY <1>i, <1>9 DEF Evict, Idle
  <2>2. Evicts(p) BY <1>9, <2>1 DEF Evict, Evicts
  <2> QED BY <1>1, <1>i, <1>9, <2>1, <2>2, FitsStays DEF Evict, CommandEffect, githubVars
<1>10. CASE PersistFails(p)
  BY <1>0, <1>1, <1>2, <1>10, GiveUpEffect, FitsStays DEF PersistFails, CommandEffect, Quiet
<1>r. ASSUME proc[p].pc = "persist", cached["scoped"] # 0,
             Provenance(cached["scoped"]) = Provenance(proc[p].held),
             Retain(p, cached["scoped"]), UNCHANGED storeVars
      PROVE  CommandEffect(p) /\ Consistent(p)'
  BY <1>0, <1>n, <1>1, <1>2, <1>r, RetainEffect, FitsStays DEF CommandEffect, Quiet
<1>s. "scoped" = SlotOf(p) /\ {"lost", "failed renewal"} \subseteq Reason \ {"no"}
  BY <1>0 DEF SlotOf, Reason
<1>11. CASE CommitScoped(p)
  <2>0. proc[p].pc = "persist" /\ epoch = proc[p].guard
    BY <1>11 DEF CommitScoped, IssuanceCurrent
  <2>1. CASE Winner("scoped", proc[p].held, clock)
    BY <1>r, <1>11, <2>0, <2>1 DEF CommitScoped, Winner, Compatible
  <2>2. CASE ~Winner("scoped", proc[p].held, clock)
    <3> DEFINE done == [proc[p] EXCEPT !.pc = "return", !.held = 0, !.result = proc[p].held]
    <3>1. PICK ok \in BOOLEAN:
            /\ Publish("scoped", proc[p].held, ok)
            /\ IF ok THEN Becomes(p, done) ELSE GiveUp(p)
      BY <1>11, <2>2, Zenon DEF CommitScoped
    <3>2. Lose({cached["scoped"]} \ {cached'["scoped"]}, "lost")
          /\ UNCHANGED <<clock, epoch, githubVars>>
      BY <1>11, <2>2 DEF CommitScoped
    <3>3. Fits(p, done) /\ done.pc = "return"
      BY <1>0, <2>0 DEF Fits, Process, RefersFor
    <3>4. /\ Fits(p, proc'[p])
          /\ \/ ok /\ proc'[p].pc = "return"
             \/ ~ok /\ proc'[p].pc = "discard" /\ proc'[p].held = proc[p].held
      <4>1. CASE ok BY <1>0, <3>1, <3>3, <4>1, BecomesIs
      <4>2. CASE ~ok BY <1>0, <2>0, <3>1, <4>2, GiveUpEffect
      <4> QED BY <4>1, <4>2
    <3>c. cached["scoped"] # 0 => ~Compatible(cached["scoped"], proc[p].held, clock)
      BY <2>2 DEF Winner
    <3>5. Publishes(p) BY <1>0, <1>s, <2>0, <3>1, <3>2, <3>c, <3>4 DEF Publishes
    <3>6. Consistent(p)' BY <1>1, <3>2, <3>4, FitsStays DEF githubVars
    <3> QED BY <3>5, <3>6 DEF CommandEffect
  <2> QED BY <2>1, <2>2
<1>12. CASE RenewScoped(p)
  <2>0. proc[p].pc = "persist" /\ epoch = proc[p].guard /\ cached["scoped"] # 0
    BY <1>12 DEF RenewScoped, IssuanceCurrent
  <2>1. CASE cached["scoped"] # proc[p].old
    BY <1>r, <1>12, <2>0, <2>1 DEF RenewScoped, Compatible
  <2>2. CASE cached["scoped"] = proc[p].old /\ Replace(p, cached["scoped"])
    <3> DEFINE done == [proc[p] EXCEPT !.pc = "displace", !.old = cached["scoped"],
                                       !.result = proc[p].held]
               loss == Lose({cached["scoped"]} \ {cached'["scoped"]}, "failed renewal")
    <3>1. PICK ok \in BOOLEAN:
            /\ Publish("scoped", proc[p].held, ok)
            /\ IF ok THEN Becomes(p, done) /\ UNCHANGED untracked
                     ELSE GiveUp(p) /\ loss
      BY <2>2, Zenon DEF Replace
    <3>2. UNCHANGED <<clock, epoch, githubVars>> BY <2>2 DEF Replace
    <3>3. Fits(p, done) /\ done.pc = "displace" /\ done.old = cached["scoped"]
      <4>1. done.held = proc[p].held /\ done.result = proc[p].held /\ proc[p].held # 0
        BY <1>0, <2>0 DEF Fits, Process, RefersFor
      <4> QED BY <1>0, <2>0, <2>2, <4>1 DEF Fits, Process, RefersFor
    <3>4. /\ Fits(p, proc'[p])
          /\ \/ /\ ok /\ UNCHANGED untracked
                /\ proc'[p].pc = "displace" /\ proc'[p].old = cached["scoped"]
             \/ ~ok /\ proc'[p].pc = "discard" /\ proc'[p].held = proc[p].held /\ loss
      <4>1. CASE ok BY <1>0, <3>1, <3>3, <4>1, BecomesIs
      <4>2. CASE ~ok BY <1>0, <2>0, <3>1, <4>2, GiveUpEffect
      <4> QED BY <4>1, <4>2
    <3>5. Publishes(p) BY <1>0, <1>s, <2>0, <2>2, <3>1, <3>2, <3>4 DEF Publishes
    <3>6. Consistent(p)' BY <1>1, <3>2, <3>4, FitsStays DEF githubVars
    <3> QED BY <3>5, <3>6 DEF CommandEffect
  <2> QED BY <1>12, <2>1, <2>2 DEF RenewScoped
<1>13. CASE Displace(p)
  <2> DEFINE revoked == [proc[p] EXCEPT !.pc = "return", !.held = 0]
  <2>1. proc'[p] = Idle \/ proc'[p] = revoked BY <1>0, <1>13, BecomesIs DEF Displace
  <2>2. proc[p].pc = "displace" BY <1>13 DEF Displace
  <2>3. Fits(p, revoked) BY <1>0, <2>2 DEF Fits, Process, RefersFor
  <2>4. UNCHANGED <<minted, token>> BY <1>13 DEF Displace, DeleteToken
  <2>5. Consistent(p)' BY <1>1, <1>i, <2>1, <2>3, <2>4, FitsStays
  <2> QED BY <1>0, <1>13, <2>5, DisplaceReleases DEF CommandEffect
<1> QED BY <1>0, <1>3, <1>4, <1>5, <1>6, <1>7, <1>8, <1>9, <1>10, <1>11, <1>12, <1>13,
           CommonEffect, CommonConsistent DEF AcquireStep

-----------------------------------------------------------------------------
(***************************************************************************)
(* The other steps: the clock, `ghst prune` and `ghst revoke` leave the    *)
(* commands alone.  They end the life of tokens, and forget records only   *)
(* of tokens that are at their end or reported.                            *)
(***************************************************************************)
Backstage ==
    /\ UNCHANGED <<proc, minted, token, doubtful>>
    /\ clock' \in Nat /\ epoch' \in Nat /\ clock' >= clock /\ epoch' >= epoch
    /\ \A t \in Tokens: fate'[t] = fate[t] \/ (fate[t] = "working" /\ fate'[t] = "revoked")
    /\ \A t \in Tokens: untracked'[t] = untracked[t] \/ untracked'[t] # "no"
    /\ \A s \in Slots:
          \/ cached'[s] = cached[s]
          \/ /\ cached'[s] = 0
             /\ Expired(cached[s], clock) \/ \E v \in Revokers: rev[v].snap[s] = cached[s]
             /\ cached[s] \in 1..minted =>
                   \/ fate'[cached[s]] # "working" \/ Expired(cached[s], clock)
                   \/ untracked'[cached[s]] # "no"

LEMMA RevokeBackstage ==
    ASSUME CacheInv, NEW v \in Revokers, ByRevoke(v)
    PROVE  Backstage
<1>0. /\ StoreTypeOK /\ rev[v] \in Revocation /\ RevokeStep(v) /\ UNCHANGED proc
      /\ clock \in Nat /\ epoch \in Nat /\ fate \in [Tokens -> Fate]
      /\ untracked \in [Tokens -> Reason] /\ cached \in [Slots -> {0} \union Tokens]
      /\ minted \in {0} \union Tokens
      /\ minted \in Nat
  BY DEF CacheInv, TypeOK, RevokeTypeOK, ByRevoke, StoreTypeOK, Tokens
<1>1. UNCHANGED storeVars => Backstage BY <1>0 DEF Backstage, storeVars, githubVars
<1>2. CASE \E selected \in SUBSET Occupied, all \in BOOLEAN: Begin(v, selected, all)
  BY <1>0, <1>2 DEF Begin, Backstage, githubVars
<1>3. ASSUME NEW s \in Slots, RevokeRemotely(v, s) PROVE Backstage
  <2>1. PICK answer: DeleteToken(rev[v].snap[s], answer, "revoked") BY <1>3 DEF RevokeRemotely
  <2>2. PICK t: t = rev[v].snap[s] OBVIOUS
  <2>3. /\ \A u \in Tokens: \/ fate'[u] = fate[u]
                            \/ u = t /\ fate[u] = "working" /\ fate'[u] = "revoked"
        /\ UNCHANGED <<minted, token>>
    BY <1>0, <2>1, <2>2, DeleteFate
  <2> QED BY <1>0, <1>3, <2>3 DEF RevokeRemotely, Backstage
<1>4. ASSUME NEW s \in Slots, RevokeDelete(v, s) PROVE Backstage
  <2>1. PICK removed \in BOOLEAN:
          /\ removed => cached[s] = rev[v].snap[s]
          /\ IF removed
             THEN /\ Forget(s)
                  /\ Lose(IF rev[v].intent = "RemotelyInactive" THEN {}
                          ELSE {rev[v].snap[s]}, "reported")
             ELSE UNCHANGED <<cached, untracked>>
    BY <1>4, Zenon DEF RevokeDelete
  <2>2. UNCHANGED <<clock, epoch, githubVars, doubtful>> /\ rev[v].pc = "delete" /\ s \in rev[v].cur
    BY <1>4 DEF RevokeDelete
  <2>3. CASE ~removed BY <1>0, <2>1, <2>2, <2>3 DEF Backstage, githubVars
  <2>4. CASE removed /\ rev[v].intent = "RemotelyInactive"
    <3>1. ~Works(cached[s]) BY <2>1, <2>2, <2>4 DEF CacheInv, DeletersKnow
    <3>2. UNCHANGED untracked BY <1>0, <2>1, <2>4 DEF Lose
    <3> QED BY <1>0, <2>1, <2>2, <2>4, <3>1, <3>2 DEF Backstage, githubVars, Forget, Works
  <2>5. CASE removed /\ rev[v].intent # "RemotelyInactive"
    <3>1. Lose({cached[s]}, "reported") /\ Forget(s) BY <2>1, <2>5
    <3>2. /\ \A t \in Tokens: untracked'[t] = untracked[t] \/ untracked'[t] # "no"
          /\ \A t \in Tokens \intersect {cached[s]}: fate[t] # "working" \/ untracked'[t] # "no"
      BY <1>0, <3>1, LoseEffect DEF Reason
    <3> QED BY <1>0, <2>1, <2>2, <2>5, <3>1, <3>2 DEF Backstage, githubVars, Forget, Tokens
  <2> QED BY <2>3, <2>4, <2>5
<1>5. ASSUME NEW s \in Slots, RevokeLocally(v, s) PROVE Backstage BY <1>1, <1>5 DEF RevokeLocally
<1>6. CASE RevokeReport(v) \/ RevokeKilled(v) BY <1>1, <1>6 DEF RevokeReport, RevokeKilled
<1> QED BY <1>0, <1>2, <1>3, <1>4, <1>5, <1>6 DEF RevokeStep, RevokeAll, RevokeOne, Occupied

LEMMA Effects ==
    ASSUME CacheInv, [Next]_vars
    PROVE  \/ Backstage
           \/ \E p \in Issuers: /\ CommandEffect(p) /\ Consistent(p)' /\ OthersKept(p)
                                /\ UNCHANGED rev
<1>0. clock \in Nat /\ epoch \in Nat /\ TypeOK /\ CommandsConsistent
  BY DEF CacheInv, TypeOK, StoreTypeOK
<1>1. CASE UNCHANGED vars BY <1>0, <1>1 DEF vars, storeVars, githubVars, Backstage
<1>2. CASE Tick /\ UNCHANGED <<proc, rev>> BY <1>0, <1>2 DEF Tick, Backstage, githubVars
<1>3. ASSUME NEW s \in Slots, PruneExpired(s), UNCHANGED <<proc, rev>> PROVE Backstage
  BY <1>0, <1>3 DEF PruneExpired, Forget, Backstage, githubVars, TypeOK, StoreTypeOK
<1>4. CASE ByEnv BY <1>2, <1>3, <1>4 DEF ByEnv
<1>5. ASSUME NEW p \in Acquirers, ByAcquire(p)
      PROVE  /\ CommandEffect(p) /\ Consistent(p)' /\ OthersKept(p) /\ UNCHANGED rev
             /\ p \in Issuers
  BY <1>0, <1>5, AcquireEffect, AcquireType DEF ByAcquire, Issuers
<1>6. ASSUME NEW p \in Logins, ByLogin(p)
      PROVE  /\ CommandEffect(p) /\ Consistent(p)' /\ OthersKept(p) /\ UNCHANGED rev
             /\ p \in Issuers
  BY <1>0, <1>6, LoginEffect, LoginType DEF ByLogin, Issuers
<1> QED BY <1>1, <1>4, <1>5, <1>6, RevokeBackstage DEF Next

\* Time and knowledge only move forward: whatever happens, no token comes back
\* to work and none is recorded again.
Grows ==
    /\ TokensGrow
    /\ clock' \in Nat /\ epoch' \in Nat /\ clock' >= clock /\ epoch' >= epoch
    /\ \A t \in 1..minted: fate'[t] = "working" => fate[t] = "working"
    /\ \A t \in 1..minted: untracked[t] # "no" => untracked'[t] # "no"
    /\ doubtful \subseteq doubtful'

LEMMA CommandGrows ==
    ASSUME CacheInv, NEW p \in Issuers, CommandEffect(p) PROVE Grows
<1>0. /\ minted \in Nat /\ 1..minted \subseteq Tokens /\ clock \in Nat /\ epoch \in Nat
      /\ untracked \in [Tokens -> Reason]
  BY DEF CacheInv, TypeOK, StoreTypeOK, Tokens
<1>1. CASE Quiet(p) BY <1>0, <1>1 DEF Quiet, Grows, TokensGrow, storeVars, githubVars
<1>2. CASE Receives(p)
  <2>1. \A t \in 1..minted: untracked'[t] = untracked[t] BY <1>0, <1>2 DEF Receives
  <2> QED BY <1>0, <1>2, <2>1 DEF Receives, Grows, TokensGrow
<1>4. CASE Publishes(p)
  <2>1. \A t \in Tokens: untracked[t] # "no" => untracked'[t] # "no"
    BY <1>0, <1>4 DEF Publishes, Lose
  <2>2. doubtful \subseteq doubtful' BY <1>4 DEF Publishes, Publish
  <2> QED BY <1>0, <1>4, <2>1, <2>2 DEF Publishes, Grows, TokensGrow, githubVars
<1>5. CASE Evicts(p)
  <2>1. \A t \in Tokens: untracked[t] # "no" => untracked'[t] # "no"
    BY <1>0, <1>5 DEF Evicts, Lose
  <2> QED BY <1>0, <1>5, <2>1 DEF Evicts, Grows, TokensGrow, githubVars
<1>6. CASE Releases(p) BY <1>0, <1>6 DEF Releases, Grows, TokensGrow
<1> QED BY <1>1, <1>2, <1>4, <1>5, <1>6 DEF CommandEffect

LEMMA AllGrows == ASSUME CacheInv, [Next]_vars PROVE Grows
<1>0. minted \in Nat /\ 1..minted \subseteq Tokens BY DEF CacheInv, TypeOK, StoreTypeOK, Tokens
<1>1. CASE Backstage BY <1>0, <1>1 DEF Backstage, Grows, TokensGrow
<1> QED BY <1>1, Effects, CommandGrows

LEMMA EndsForGood ==
    ASSUME CacheInv, Grows, NEW t \in 1..minted
    PROVE  /\ ~Works(t) => ~Works(t)'
           /\ untracked[t] # "no" => untracked'[t] # "no"
           /\ t \in 1..minted' /\ token'[t] = token[t]
<1>0. /\ minted \in Nat /\ clock \in Nat /\ token[t].expires \in Nat
  BY DEF CacheInv, TypeOK, StoreTypeOK, Tokens, Token
<1> QED BY <1>0 DEF Grows, TokensGrow, Works, Expired

-----------------------------------------------------------------------------
(***************************************************************************)
(* What holds of each revoke: the parts of CacheInv about rev[v].          *)
(***************************************************************************)
RevInv(v) ==
    /\ rev[v].covered \subseteq 1..minted
    /\ \A s \in Slots: rev[v].snap[s] <= minted
    /\ \A s \in Slots:
          rev[v].pc = "delete" /\ s \in rev[v].cur /\ rev[v].intent = "RemotelyInactive"
              => ~Works(rev[v].snap[s])
    /\ rev[v].epoch <= epoch
    /\ \A s \in Slots:
          cached[s] # 0 /\ token[cached[s]].guard < rev[v].epoch => cached[s] \in rev[v].covered
    /\ rev[v].pc = "done" => rev[v].todo = {}
    /\ rev[v].pc # "idle" /\ rev[v].clean =>
          \A t \in rev[v].covered:
              \/ ~Works(t) \/ untracked[t] # "no"
              \/ \E s \in rev[v].todo: rev[v].snap[s] = t

LEMMA RevInvs ==
    /\ CacheInv => \A v \in Revokers: RevInv(v)
    /\ (\A v \in Revokers: RevInv(v)) =>
          DeletersKnow /\ RevokeEpochs /\ RevokeCoversEarlierIssuance /\ CleanRevokeProgress
BY DEF CacheInv, RevInv, NamesMinted, DeletersKnow, RevokeEpochs, RevokeCoversEarlierIssuance,
       CleanRevokeProgress

\* What gets into a slot was issued in the current epoch, and base tokens are all
\* that gets into the slot for them.
NewCached ==
    \A s \in Slots:
        \/ cached'[s] \in {0, cached[s]}
        \/ /\ cached'[s] \in 1..minted /\ token[cached'[s]].guard = epoch
           /\ s = "base" => token[cached'[s]].policy = "base" /\ token[cached'[s]].parent = 0

LEMMA PublishNew ==
    ASSUME CacheInv, NEW p \in Issuers, Publishes(p)
    PROVE  /\ NewCached
           /\ \A s \in Slots: s # SlotOf(p) => cached'[s] = cached[s]
           /\ cached'[SlotOf(p)] \in {cached[SlotOf(p)], proc[p].held}
           /\ SlotOf(p) \in Slots
<1>1. cached \in [Slots -> {0} \union Tokens] /\ SlotOf(p) \in Slots
  BY DEF CacheInv, TypeOK, StoreTypeOK, SlotOf, Slots
<1>2. PICK ok: Publish(SlotOf(p), proc[p].held, ok) BY DEF Publishes
<1>3. /\ \A s \in Slots: s # SlotOf(p) => cached'[s] = cached[s]
      /\ cached'[SlotOf(p)] \in {cached[SlotOf(p)], proc[p].held}
  BY <1>1, <1>2 DEF Publish
<1>4. /\ proc[p].held \in 1..minted /\ token[proc[p].held].guard = epoch
      /\ p \in Logins => token[proc[p].held].policy = "base" /\ token[proc[p].held].parent = 0
  BY DEF Publishes, CacheInv, CommandsConsistent, Consistent, HasCandidate, Busy, Refers,
         Expected, Provenance
<1>5. ASSUME NEW s \in Slots, cached'[s] \notin {0, cached[s]}
      PROVE  s = SlotOf(p) /\ cached'[s] = proc[p].held
  BY <1>3, <1>5
<1>6. SlotOf(p) = "base" => p \in Logins BY DEF SlotOf
<1> QED BY <1>1, <1>3, <1>4, <1>5, <1>6 DEF NewCached

LEMMA AllNewCached == ASSUME CacheInv, [Next]_vars PROVE NewCached
<1>1. CASE Backstage BY <1>1 DEF Backstage, NewCached
<1>2. ASSUME NEW p \in Issuers, CommandEffect(p), ~Publishes(p) PROVE NewCached
  <2>1. cached \in [Slots -> {0} \union Tokens] BY DEF CacheInv, TypeOK, StoreTypeOK
  <2>2. UNCHANGED cached \/ Forget("base")
    BY <1>2 DEF CommandEffect, Quiet, Receives, Evicts, Releases, storeVars
  <2> QED BY <2>1, <2>2 DEF NewCached, Forget
<1> QED BY <1>1, <1>2, Effects, PublishNew

LEMMA RevStill ==
    ASSUME CacheInv, Grows, NewCached, NEW v \in Revokers, rev'[v] = rev[v]
    PROVE  RevInv(v)'
<1>0. /\ RevInv(v) /\ minted \in Nat /\ minted <= minted' /\ 1..minted \subseteq 1..minted'
      /\ epoch \in Nat /\ rev[v] \in Revocation /\ token \in [1..minted -> Token]
      /\ minted' \in Nat
  BY RevInvs DEF CacheInv, TypeOK, StoreTypeOK, RevokeTypeOK, Tokens, Grows, TokensGrow
<1>1. /\ rev[v].covered \subseteq 1..minted' /\ \A s \in Slots: rev[v].snap[s] <= minted'
      /\ rev[v].epoch <= epoch'
  BY <1>0 DEF RevInv, Grows, Revocation, Tokens
<1>2. ASSUME NEW s \in Slots, ~Works(rev[v].snap[s]) PROVE ~Works(rev[v].snap[s])'
  <2>1. PICK t: t = rev[v].snap[s] OBVIOUS
  <2>2. t = 0 \/ t \in 1..minted BY <1>0, <2>1 DEF RevInv, Revocation, Tokens
  <2>3. ~Works(t)' BY <1>0, <1>2, <2>1, <2>2, EndsForGood DEF Works
  <2> QED BY <2>1, <2>3 DEF Works, Expired
<1>3. ASSUME NEW s \in Slots, cached'[s] # 0, token'[cached'[s]].guard < rev[v].epoch
      PROVE  cached'[s] \in rev[v].covered
  <2>1. PICK t: t = cached'[s] OBVIOUS
  <2>2. CASE t = cached[s]
    <3>1. t \in 1..minted BY <1>0, <1>3, <2>1, <2>2 DEF CacheInv, NamesMinted, TypeOK, StoreTypeOK, Tokens
    <3> QED BY <1>0, <1>3, <2>1, <2>2, <3>1, EndsForGood DEF RevInv
  <2>3. CASE t # cached[s]
    <3>1. t \in 1..minted /\ token[t].guard = epoch BY <1>3, <2>1, <2>3 DEF NewCached
    <3>2. token'[t].guard = epoch BY <3>1, EndsForGood
    <3> QED BY <1>0, <1>3, <2>1, <3>2 DEF RevInv, Revocation
  <2> QED BY <2>2, <2>3
<1>4. ASSUME NEW t \in rev[v].covered, ~Works(t) \/ untracked[t] # "no"
      PROVE  ~Works(t)' \/ untracked'[t] # "no"
  BY <1>0, <1>4, EndsForGood DEF RevInv
<1> QED BY <1>0, <1>1, <1>2, <1>3, <1>4 DEF RevInv

LEMMA RevokeIs ==
    ASSUME TypeOK, NEW v \in Revokers, NEW state, RevokeBecomes(v, state) PROVE rev'[v] = state
BY DEF TypeOK, RevokeTypeOK, RevokeBecomes

LEMMA RevokeMoves ==
    ASSUME CacheInv, TypeOK', Grows, NewCached, NEW v \in Revokers, RevokeStep(v)
    PROVE  RevInv(v)'
<1>0. /\ TypeOK /\ RevInv(v) /\ rev[v] \in Revocation /\ rev'[v] \in Revocation
      /\ minted \in Nat /\ minted' \in Nat /\ epoch \in Nat /\ epoch' \in Nat
      /\ cached \in [Slots -> {0} \union Tokens] /\ token \in [1..minted -> Token]
      /\ token' \in [1..minted' -> Token]
  BY RevInvs DEF CacheInv, TypeOK, StoreTypeOK, RevokeTypeOK, Tokens
<1>n. \A s \in Slots: cached[s] <= minted BY DEF CacheInv, NamesMinted
\* A step that leaves the cache alone and does not change what a report covers.
<1>c. ASSUME UNCHANGED <<epoch, cached, untracked, minted, token>>,
             rev'[v].epoch = rev[v].epoch, rev'[v].covered = rev[v].covered
      PROVE  /\ rev'[v].covered \subseteq 1..minted' /\ rev'[v].epoch <= epoch'
             /\ \A s \in Slots:
                   cached'[s] # 0 /\ token'[cached'[s]].guard < rev'[v].epoch
                       => cached'[s] \in rev'[v].covered
             /\ \A t \in rev[v].covered: ~Works(t) \/ untracked[t] # "no"
                                            => ~Works(t)' \/ untracked'[t] # "no"
  <2>1. \A t \in rev[v].covered: ~Works(t) => ~Works(t)' BY <1>0, EndsForGood DEF RevInv
  <2> QED BY <1>0, <1>c, <2>1 DEF RevInv
<1>1. ASSUME NEW selected \in SUBSET Occupied, NEW all \in BOOLEAN, Begin(v, selected, all),
             all => selected = Occupied
      PROVE  RevInv(v)'
  <2> DEFINE snap == [s \in Slots |-> IF s \in selected THEN cached[s] ELSE 0]
             covered == IF all THEN {cached[s]: s \in selected} ELSE {}
  <2>1. PICK now \in 0..clock:
          RevokeBecomes(v, [rev[v] EXCEPT
            !.pc = "process", !.now = now, !.todo = selected, !.clean = TRUE, !.snap = snap,
            !.epoch = IF all THEN epoch' ELSE 0, !.covered = covered])
    BY <1>1, Zenon DEF Begin
  <2>2. UNCHANGED <<clock, cached, githubVars, untracked>> BY <1>1 DEF Begin
  <2>3. \A s \in Slots: snap[s] <= minted BY <1>0, <1>n
  <2>4. covered \subseteq 1..minted BY <1>0, <1>n DEF Occupied, Tokens
  <2>5. \A t \in covered: \E s \in selected: snap[s] = t BY DEF Occupied
  <2>6. all => \A s \in Slots: cached[s] # 0 => cached[s] \in covered BY <1>1 DEF Occupied
  <2> HIDE DEF snap, covered
  <2>7. /\ rev'[v].pc = "process" /\ rev'[v].todo = selected /\ rev'[v].snap = snap
        /\ rev'[v].epoch = (IF all THEN epoch' ELSE 0) /\ rev'[v].covered = covered
    <3>1. PICK e: e = IF all THEN epoch' ELSE 0 OBVIOUS
    <3>2. rev'[v] = [rev[v] EXCEPT
            !.pc = "process", !.now = now, !.todo = selected, !.clean = TRUE, !.snap = snap,
            !.epoch = e, !.covered = covered]
      BY <1>0, <2>1, <3>1, RevokeIs
    <3> QED BY <1>0, <3>1, <3>2 DEF Revocation
  <2>8. minted' = minted /\ token' = token /\ cached' = cached BY <2>2 DEF githubVars
  <2>9. ASSUME NEW s \in Slots, cached'[s] # 0, token'[cached'[s]].guard < rev'[v].epoch
        PROVE  cached'[s] \in rev'[v].covered
    <3>1. cached[s] \in 1..minted BY <1>0, <1>n, <2>8, <2>9 DEF Tokens
    <3>2. token[cached[s]].guard \in Nat BY <1>0, <3>1 DEF Token
    <3>3. all BY <2>7, <2>8, <2>9, <3>2
    <3> QED BY <2>6, <2>7, <2>8, <2>9, <3>3
  <2>10. rev'[v].epoch <= epoch' BY <1>0, <2>7
  <2> QED BY <2>3, <2>4, <2>5, <2>7, <2>8, <2>9, <2>10 DEF RevInv
<1>2. ASSUME NEW s \in Slots, RevokeLocally(v, s) PROVE RevInv(v)'
  <2>1. PICK intent \in {"LocalOnly", "NearExpiry"}: Intend(v, s, intent)
    BY <1>2 DEF RevokeLocally
  <2>2. UNCHANGED <<epoch, cached, untracked, minted, token>>
    BY <1>2 DEF RevokeLocally, storeVars, githubVars
  <2>3. rev'[v] = [rev[v] EXCEPT !.pc = "delete", !.cur = {s}, !.intent = intent]
    BY <1>0, <2>1, RevokeIs DEF Intend
  <2>4. /\ rev'[v].pc = "delete" /\ rev'[v].intent # "RemotelyInactive"
        /\ rev'[v].covered = rev[v].covered /\ rev'[v].epoch = rev[v].epoch
        /\ rev'[v].todo = rev[v].todo /\ rev'[v].snap = rev[v].snap
        /\ rev'[v].clean = rev[v].clean
    BY <1>0, <2>3 DEF Revocation
  <2>5. rev[v].pc = "process" BY <1>2 DEF RevokeLocally, Processing
  <2> QED BY <1>0, <1>c, <2>2, <2>4, <2>5 DEF RevInv
<1>3. ASSUME NEW s \in Slots, RevokeRemotely(v, s) PROVE RevInv(v)'
  <2>1. PICK t: t = rev[v].snap[s] OBVIOUS
  <2>2. rev[v].pc = "process" BY <1>3 DEF RevokeRemotely, Processing
  <2>3. UNCHANGED <<epoch, cached, untracked, minted, token>>
    BY <1>3 DEF RevokeRemotely, DeleteToken
  <2>4. ASSUME NEW answer \in {"Ok", "NotFound"}, DeleteToken(t, answer, "revoked"),
               Intend(v, s, "RemotelyInactive")
        PROVE  RevInv(v)'
    <3>1. ~Works(t)'
      <4>1. /\ answer = "Ok" => fate'[t] = "revoked"
            /\ answer = "NotFound" => ~Works(t)
        BY <1>0, <2>4, DeleteFate DEF TypeOK, StoreTypeOK
      <4>2. CASE answer = "Ok" BY <4>1, <4>2 DEF Works
      <4>3. CASE answer = "NotFound"
        <5>1. UNCHANGED <<fate, clock>> BY <1>3, <2>4, <4>3 DEF DeleteToken, RevokeRemotely
        <5> QED BY <2>3, <4>1, <4>3, <5>1 DEF Works, Expired
      <4> QED BY <4>2, <4>3
    <3>2. rev'[v] = [rev[v] EXCEPT !.pc = "delete", !.cur = {s}, !.intent = "RemotelyInactive"]
      BY <1>0, <2>4, RevokeIs DEF Intend
    <3>3. /\ rev'[v].pc = "delete" /\ rev'[v].cur = {s}
          /\ rev'[v].covered = rev[v].covered /\ rev'[v].epoch = rev[v].epoch
          /\ rev'[v].todo = rev[v].todo /\ rev'[v].snap = rev[v].snap
          /\ rev'[v].clean = rev[v].clean
      BY <1>0, <3>2 DEF Revocation
    <3>4. rev'[v].snap[s] = t BY <2>1, <3>3
    <3>5. ~Works(rev[v].snap[s])' BY <3>1, <3>4 DEF Works, Expired
    <3> QED BY <1>0, <1>c, <2>2, <2>3, <3>3, <3>5 DEF RevInv
  <2>5. CASE RevokeBecomes(v, [rev[v] EXCEPT !.todo = @ \ {s}, !.clean = FALSE])
    <3>1. rev'[v] = [rev[v] EXCEPT !.todo = @ \ {s}, !.clean = FALSE]
      BY <1>0, <2>5, RevokeIs
    <3>2. /\ rev'[v].pc = "process" /\ ~rev'[v].clean
          /\ rev'[v].covered = rev[v].covered /\ rev'[v].epoch = rev[v].epoch
          /\ rev'[v].snap = rev[v].snap
      BY <1>0, <2>2, <3>1 DEF Revocation
    <3> QED BY <1>0, <1>c, <2>3, <3>2 DEF RevInv
  <2> QED BY <1>3, <2>1, <2>4, <2>5, Zenon DEF RevokeRemotely
<1>4. ASSUME NEW s \in Slots, RevokeDelete(v, s) PROVE RevInv(v)'
  <2>1. PICK deleted \in BOOLEAN, removed \in BOOLEAN:
          /\ deleted => removed
          /\ IF removed
             THEN /\ Forget(s)
                  /\ Lose(IF rev[v].intent = "RemotelyInactive" THEN {}
                          ELSE {rev[v].snap[s]}, "reported")
             ELSE UNCHANGED <<cached, untracked>>
          /\ RevokeBecomes(v,
                 [rev[v] EXCEPT
                     !.pc = "process", !.cur = {}, !.todo = @ \ {s},
                     !.clean = @ /\ deleted /\ rev[v].intent # "LocalOnly"])
    BY <1>4, Zenon DEF RevokeDelete
  <2>2. UNCHANGED <<clock, epoch, githubVars>> /\ rev[v].pc = "delete" /\ s \in rev[v].cur
    BY <1>4 DEF RevokeDelete
  <2>3. /\ rev'[v].pc = "process" /\ rev'[v].todo = rev[v].todo \ {s}
        /\ rev'[v].covered = rev[v].covered /\ rev'[v].epoch = rev[v].epoch
        /\ rev'[v].snap = rev[v].snap
        /\ rev'[v].clean => rev[v].clean /\ deleted /\ removed
    <3>1. rev'[v] = [rev[v] EXCEPT !.pc = "process", !.cur = {}, !.todo = @ \ {s},
                                   !.clean = @ /\ deleted /\ rev[v].intent # "LocalOnly"]
      BY <1>0, <2>1, RevokeIs
    <3> QED BY <1>0, <2>1, <3>1 DEF Revocation
  <2>4. minted' = minted /\ token' = token /\ epoch' = epoch /\ fate' = fate
    BY <2>2 DEF githubVars
  <2>5. \A r \in Slots: cached'[r] \in {0, cached[r]} BY <1>0, <2>1 DEF Forget
  <2>6. \A t \in 1..minted: ~Works(t) \/ untracked[t] # "no"
                                => ~Works(t)' \/ untracked'[t] # "no"
    BY EndsForGood
  <2>7. PICK u: u = rev[v].snap[s] OBVIOUS
  <2>8. removed => ~Works(u)' \/ untracked'[u] # "no"
    <3>1. CASE removed /\ rev[v].intent = "RemotelyInactive"
      <4>1. ~Works(u) BY <1>0, <2>2, <2>7, <3>1 DEF RevInv
      <4> QED BY <2>2, <2>4, <4>1 DEF Works, Expired
    <3>2. CASE removed /\ rev[v].intent # "RemotelyInactive"
      <4>1. Lose({u}, "reported") BY <2>1, <2>7, <3>2
      <4>2. u \in Tokens => fate[u] # "working" \/ untracked'[u] # "no"
        BY <1>0, <4>1, LoseEffect DEF TypeOK, StoreTypeOK, Reason
      <4>3. u \notin Tokens => ~Works(u)' BY <1>0, <2>4 DEF Works, Tokens, TypeOK, StoreTypeOK
      <4> QED BY <2>4, <4>2, <4>3 DEF Works
    <3> QED BY <3>1, <3>2
  <2>9. ASSUME NEW t \in rev[v].covered, rev'[v].clean
        PROVE  \/ ~Works(t)' \/ untracked'[t] # "no"
               \/ \E r \in rev'[v].todo: rev'[v].snap[r] = t
    <3>1. \/ ~Works(t) \/ untracked[t] # "no"
          \/ \E r \in rev[v].todo: rev[v].snap[r] = t
      BY <1>0, <2>2, <2>3, <2>9 DEF RevInv
    <3>2. t \in 1..minted BY <1>0 DEF RevInv
    <3>3. CASE \E r \in rev[v].todo: r # s /\ rev[v].snap[r] = t BY <2>3, <3>3
    <3>4. CASE rev[v].snap[s] = t BY <2>3, <2>7, <2>8, <2>9, <3>4
    <3> QED BY <2>6, <3>1, <3>2, <3>3, <3>4
  <2>10. /\ rev'[v].covered \subseteq 1..minted' /\ rev'[v].epoch <= epoch'
         /\ \A r \in Slots: rev'[v].snap[r] <= minted'
         /\ \A r \in Slots:
               cached'[r] # 0 /\ token'[cached'[r]].guard < rev'[v].epoch
                  => cached'[r] \in rev'[v].covered
    BY <1>0, <2>3, <2>4, <2>5 DEF RevInv
  <2> QED BY <2>3, <2>9, <2>10 DEF RevInv
<1>5. CASE RevokeReport(v)
  <2>1. rev'[v] = [rev[v] EXCEPT !.pc = "done", !.now = 0, !.snap = NoSnapshot,
                                 !.intent = "RemotelyInactive"]
    BY <1>0, <1>5, RevokeIs DEF RevokeReport
  <2>2. /\ rev'[v].pc = "done" /\ rev'[v].covered = rev[v].covered
        /\ rev'[v].epoch = rev[v].epoch /\ rev'[v].clean = rev[v].clean
        /\ rev'[v].todo = rev[v].todo /\ rev'[v].snap = NoSnapshot
    BY <1>0, <2>1 DEF Revocation
  <2>3. UNCHANGED <<epoch, cached, untracked, minted, token>> /\ rev[v].pc = "process"
        /\ rev[v].todo = {}
    BY <1>5 DEF RevokeReport, storeVars, githubVars
  <2>4. \A s \in Slots: NoSnapshot[s] <= minted' BY <1>0 DEF NoSnapshot
  <2> QED BY <1>0, <1>c, <2>2, <2>3, <2>4 DEF RevInv
<1>6. CASE RevokeKilled(v)
  <2>1. rev'[v] = [rev[v] EXCEPT !.pc = "idle", !.now = 0, !.snap = NoSnapshot, !.todo = {},
                                 !.cur = {}, !.intent = "RemotelyInactive"]
    BY <1>0, <1>6, RevokeIs DEF RevokeKilled
  <2>2. /\ rev'[v].pc = "idle" /\ rev'[v].covered = rev[v].covered
        /\ rev'[v].epoch = rev[v].epoch /\ rev'[v].snap = NoSnapshot
    BY <1>0, <2>1 DEF Revocation
  <2>3. UNCHANGED <<epoch, cached, untracked, minted, token>>
    BY <1>6 DEF RevokeKilled, storeVars, githubVars
  <2>4. \A s \in Slots: NoSnapshot[s] <= minted' BY <1>0 DEF NoSnapshot
  <2> QED BY <1>0, <1>c, <2>2, <2>3, <2>4 DEF RevInv
<1>7. CASE RevokeAll(v) BY <1>1, <1>7 DEF RevokeAll
<1>8. CASE RevokeOne(v) BY <1>1, <1>8 DEF RevokeOne
<1> QED BY <1>2, <1>3, <1>4, <1>5, <1>6, <1>7, <1>8 DEF RevokeStep

-----------------------------------------------------------------------------
(***************************************************************************)
(* What holds of the cache and the commands.                               *)
(***************************************************************************)
LEMMA HoldingIs ==
    ASSUME NEW p
    PROVE  /\ proc[p].pc \in {"persist", "discard"} => Holding(p) = {proc[p].held}
           /\ proc[p].pc = "displace" => Holding(p) = {proc[p].old}
           /\ proc[p].pc \notin {"persist", "discard", "displace"} => Holding(p) = {}
           /\ proc'[p].pc \in {"persist", "discard"} => Holding(p)' = {proc'[p].held}
           /\ proc'[p].pc = "displace" => Holding(p)' = {proc'[p].old}
           /\ proc'[p].pc \notin {"persist", "discard", "displace"} => Holding(p)' = {}
BY DEF Holding

LEMMA HoldsMinted == ASSUME CacheInv, NEW p \in Issuers PROVE Holding(p) \subseteq 1..minted
<1>1. Consistent(p) BY DEF CacheInv, CommandsConsistent
<1> QED BY <1>1, HoldingIs DEF Consistent, HasCandidate, Refers

\* The part of OwnCandidate about one command.
Own(p) ==
    /\ proc[p].pc = "persist" =>
          /\ fate[proc[p].held] \in {"working", "revoked"}
          /\ ~Cached(proc[p].held)
          /\ \A q \in Issuers: q # p => proc[p].held \notin Holding(q)
    /\ proc[p].pc = "discard" => ~Cached(proc[p].held) \/ proc[p].held \in doubtful
    /\ proc[p].pc = "displace" => ~Cached(proc[p].old)

LEMMA OwnAll == CacheInv => \A p \in Issuers: Own(p)
BY DEF CacheInv, OwnCandidate, Own

\* A command that is not the one that moves keeps its own, as long as no other
\* command publishes or holds it, and nothing but a revoke ends it.
LEMMA OwnStays ==
    ASSUME NEW q \in Issuers, Own(q), proc'[q] = proc[q], doubtful \subseteq doubtful',
           proc[q].pc = "persist" =>
              /\ fate'[proc[q].held] \in {fate[proc[q].held], "revoked"}
              /\ \A r \in Issuers: r # q => proc[q].held \notin Holding(r)',
           \A t \in Holding(q): (\E s \in Slots: cached'[s] = t) => Cached(t)
    PROVE  Own(q)'
<1>1. CASE proc[q].pc = "persist"
  <2>1. ~\E s \in Slots: cached'[s] = proc[q].held BY <1>1, HoldingIs DEF Own
  <2> QED BY <1>1, <2>1 DEF Own, Cached
<1>2. CASE proc[q].pc = "discard"
  <2>1. ~Cached(proc[q].held) => ~\E s \in Slots: cached'[s] = proc[q].held BY <1>2, HoldingIs
  <2> QED BY <1>2, <2>1 DEF Own, Cached
<1>3. CASE proc[q].pc = "displace"
  <2>1. ~\E s \in Slots: cached'[s] = proc[q].old BY <1>3, HoldingIs DEF Own
  <2> QED BY <1>3, <2>1 DEF Own, Cached
<1> QED BY <1>1, <1>2, <1>3 DEF Own

LEMMA BackstageCommands ==
    ASSUME CacheInv, Backstage, Grows
    PROVE  (\A p \in Issuers: Own(p)') /\ CachedTokensWork' /\ WorkingTokensAccounted'
<1>0. /\ minted \in Nat /\ 1..minted \subseteq Tokens /\ cached \in [Slots -> {0} \union Tokens]
      /\ minted' = minted /\ token' = token /\ proc' = proc /\ doubtful' = doubtful
      /\ \A s \in Slots: cached[s] <= minted
      /\ \A s \in Slots: cached'[s] \in {0, cached[s]}
  BY DEF CacheInv, TypeOK, StoreTypeOK, Tokens, Backstage, NamesMinted
<1>1. ASSUME NEW p \in Issuers PROVE Own(p)'
  <2>1. \A t \in Holding(p): (\E s \in Slots: cached'[s] = t) => Cached(t)
    BY <1>0, HoldsMinted DEF Cached
  <2>2. \A r \in Issuers: Holding(r)' = Holding(r) BY <1>0 DEF Holding
  <2>3. proc[p].pc = "persist" => proc[p].held \in Tokens BY <1>0, HoldsMinted, HoldingIs
  <2>4. proc[p].pc = "persist" =>
            /\ fate'[proc[p].held] \in {fate[proc[p].held], "revoked"}
            /\ \A r \in Issuers: r # p => proc[p].held \notin Holding(r)'
    BY <2>2, <2>3, OwnAll DEF Backstage, Own
  <2> QED BY <1>0, <2>1, <2>4, OwnAll, OwnStays
<1>2. CachedTokensWork' BY <1>0 DEF CacheInv, CachedTokensWork, Backstage
<1>3. ASSUME NEW t \in 1..minted', Works(t)', untracked'[t] = "no"
      PROVE  (\E s \in Slots: cached'[s] = t) \/ \E p \in Issuers: t \in Holding(p)'
  <2>1. t \in 1..minted /\ Works(t) /\ untracked[t] = "no" BY <1>0, <1>3, EndsForGood
  <2>2. CASE \E p \in Issuers: t \in Holding(p) BY <1>0, <2>2 DEF Holding
  <2>3. ASSUME NEW s \in Slots, cached[s] = t PROVE cached'[s] = t
    <3>1. ~(fate'[t] # "working" \/ Expired(t, clock) \/ untracked'[t] # "no")
      BY <1>3, <2>1 DEF Works
    <3> QED BY <2>1, <2>3, <3>1 DEF Backstage
  <2> QED BY <2>1, <2>2, <2>3 DEF CacheInv, WorkingTokensAccounted
<1> QED BY <1>1, <1>2, <1>3 DEF WorkingTokensAccounted

\* Nothing but the state of p changes.
LEMMA QuietCommands ==
    ASSUME CacheInv, NEW p \in Issuers, Quiet(p), OthersKept(p)
    PROVE  (\A q \in Issuers: Own(q)') /\ CachedTokensWork' /\ WorkingTokensAccounted'
<1>0. UNCHANGED <<clock, cached, minted, token, fate, untracked, doubtful>>
  BY DEF Quiet, storeVars, githubVars
<1>1. \A q \in Issuers: Holding(q)' = Holding(q)
  <2>1. \A q \in Issuers \ {p}: Holding(q)' = Holding(q) BY DEF OthersKept, Holding
  <2>2. Holding(p)' = Holding(p) BY HoldingIs DEF Quiet
  <2> QED BY <2>1, <2>2
<1>2. ASSUME NEW q \in Issuers \ {p} PROVE Own(q)'
  <2>1. proc'[q] = proc[q] BY DEF OthersKept
  <2> QED BY <1>0, <1>1, <2>1, OwnAll, OwnStays DEF Own, Cached
<1>3. Own(p)' BY <1>0, OwnAll DEF Own, Cached, Quiet
<1>4. CachedTokensWork' BY <1>0 DEF CacheInv, CachedTokensWork
<1>5. WorkingTokensAccounted'
  <2>1. \A t: Works(t)' = Works(t) BY <1>0 DEF Works, Expired
  <2> QED BY <1>0, <1>1, <2>1 DEF CacheInv, WorkingTokensAccounted
<1> QED BY <1>2, <1>3, <1>4, <1>5

\* The new token is the candidate of p, or its loss is recorded.
LEMMA ReceiveCommands ==
    ASSUME CacheInv, NEW p \in Issuers, Receives(p), OthersKept(p), Grows
    PROVE  (\A q \in Issuers: Own(q)') /\ CachedTokensWork' /\ WorkingTokensAccounted'
<1> PICK n: n = minted' OBVIOUS
<1>0. /\ minted \in Nat /\ 1..minted \subseteq Tokens /\ cached \in [Slots -> {0} \union Tokens]
      /\ untracked \in [Tokens -> Reason]
      /\ n = minted + 1 /\ n \in Tokens /\ n \notin 1..minted /\ fate'[n] = "working"
      /\ \A t \in 1..minted: fate'[t] = fate[t]
      /\ UNCHANGED <<clock, cached, doubtful>>
      /\ \A s \in Slots: cached[s] \in {0} \union 1..minted
  BY DEF CacheInv, TypeOK, StoreTypeOK, Tokens, Receives, NamesMinted
<1>1. /\ \A q \in Issuers \ {p}: Holding(q)' = Holding(q) /\ Holding(q) \subseteq 1..minted
      /\ Holding(p) = {} /\ Holding(p)' \subseteq {n}
      /\ proc'[p].pc # "idle" => Holding(p)' = {n}
  <2>1. \A q \in Issuers \ {p}: Holding(q)' = Holding(q) BY DEF OthersKept, Holding
  <2>2. /\ Holding(p) = {} /\ Holding(p)' \subseteq {n}
        /\ proc'[p].pc # "idle" => Holding(p)' = {n}
    BY HoldingIs DEF Receives
  <2> QED BY <2>1, <2>2, HoldsMinted
<1>2. ASSUME NEW q \in Issuers \ {p} PROVE Own(q)'
  <2>1. proc'[q] = proc[q] BY DEF OthersKept
  <2>2. proc[q].pc = "persist" =>
            /\ fate'[proc[q].held] \in {fate[proc[q].held], "revoked"}
            /\ \A r \in Issuers: r # q => proc[q].held \notin Holding(r)'
    <3> SUFFICES ASSUME proc[q].pc = "persist"
                 PROVE  /\ fate'[proc[q].held] \in {fate[proc[q].held], "revoked"}
                        /\ \A r \in Issuers: r # q => proc[q].held \notin Holding(r)'
      OBVIOUS
    <3>1. proc[q].held \in 1..minted BY HoldingIs, HoldsMinted
    <3> QED BY <1>0, <1>1, <3>1, OwnAll DEF Own
  <2> QED BY <1>0, <2>1, <2>2, OwnAll, OwnStays DEF Cached
<1>3. Own(p)'
  <2>1. CASE proc'[p].pc \in {"persist", "discard"} /\ proc'[p].held = n
    <3>1. ~\E s \in Slots: cached'[s] = n BY <1>0
    <3>2. \A q \in Issuers: q # p => n \notin Holding(q)' BY <1>0, <1>1
    <3> QED BY <1>0, <2>1, <3>1, <3>2 DEF Own, Cached
  <2> QED BY <2>1 DEF Receives, Own
<1>4. CachedTokensWork' BY <1>0 DEF CacheInv, CachedTokensWork
<1>5. ASSUME NEW t \in 1..minted', Works(t)', untracked'[t] = "no"
      PROVE  (\E s \in Slots: cached'[s] = t) \/ \E q \in Issuers: t \in Holding(q)'
  <2>1. CASE t \in 1..minted
    <3>1. Works(t) /\ untracked[t] = "no" BY <1>5, <2>1, EndsForGood
    <3> QED BY <1>0, <1>1, <2>1, <3>1 DEF CacheInv, WorkingTokensAccounted
  <2>2. CASE t = n
    <3>1. proc'[p].pc # "idle" BY <1>0, <1>5, <2>2 DEF Receives
    <3> QED BY <1>1, <2>2, <3>1
  <2> QED BY <1>0, <2>1, <2>2
<1> QED BY <1>2, <1>3, <1>4, <1>5 DEF WorkingTokensAccounted

\* The candidate of p gets into its slot; the token that was there is lost, or p is
\* going to revoke it.
LEMMA PublishCommands ==
    ASSUME CacheInv, NEW p \in Issuers, Publishes(p), OthersKept(p), Grows
    PROVE  (\A q \in Issuers: Own(q)') /\ CachedTokensWork' /\ WorkingTokensAccounted'
<1> PICK h: h = proc[p].held OBVIOUS
<1> PICK s: s = SlotOf(p) OBVIOUS
<1>0. /\ minted \in Nat /\ 1..minted \subseteq Tokens /\ cached \in [Slots -> {0} \union Tokens]
      /\ untracked \in [Tokens -> Reason] /\ s \in Slots
      /\ UNCHANGED <<clock, fate, minted, token>> /\ proc[p].pc = "persist"
      /\ doubtful \subseteq doubtful'
  BY PublishNew DEF CacheInv, TypeOK, StoreTypeOK, Tokens, Publishes, githubVars, Grows
<1>1. PICK ok \in BOOLEAN, reason \in Reason \ {"no"}:
        /\ Publish(s, h, ok)
        /\ \/ ok /\ proc'[p].pc \in {"return", "idle"}
              /\ Lose({cached[s]} \ {cached'[s]}, reason)
           \/ ~ok /\ proc'[p].pc = "discard" /\ proc'[p].held = h
              /\ Lose({cached[s]} \ {cached'[s]}, reason)
           \/ /\ ok /\ p \in Acquirers /\ proc'[p].pc = "displace"
              /\ cached[s] # 0 /\ cached[s] = proc[p].old /\ proc'[p].old = cached[s]
              /\ UNCHANGED untracked
  BY DEF Publishes
<1>2. /\ \A r \in Slots: r # s => cached'[r] = cached[r]
      /\ cached'[s] \in {cached[s], h}
      /\ ok => cached'[s] = h
      /\ ~ok => h \in doubtful'
  BY <1>0, <1>1 DEF Publish
<1>3. /\ fate[h] \in {"working", "revoked"} /\ ~Cached(h)
      /\ \A q \in Issuers: q # p => h \notin Holding(q)
      /\ Holding(p) = {h} /\ h \in 1..minted
  BY <1>0, OwnAll, HoldingIs, HoldsMinted DEF Own
<1>4. /\ \A q \in Issuers \ {p}: Holding(q)' = Holding(q)
      /\ Holding(p)' \subseteq {h, cached[s]}
      /\ ~ok => Holding(p)' = {h}
      /\ proc'[p].pc = "displace" => Holding(p)' = {cached[s]}
  <2>1. \A q \in Issuers \ {p}: Holding(q)' = Holding(q) BY DEF OthersKept, Holding
  <2> QED BY <1>1, <2>1, HoldingIs
<1>5. ASSUME NEW q \in Issuers \ {p} PROVE Own(q)'
  <2>1. proc'[q] = proc[q] BY DEF OthersKept
  <2>2. h \notin Holding(q) BY <1>3
  <2>3. \A t \in Holding(q): (\E r \in Slots: cached'[r] = t) => Cached(t)
    BY <1>2, <2>2 DEF Cached
  <2>4. proc[q].pc = "persist" =>
            /\ fate'[proc[q].held] \in {fate[proc[q].held], "revoked"}
            /\ \A r \in Issuers: r # q => proc[q].held \notin Holding(r)'
    <3> SUFFICES ASSUME proc[q].pc = "persist", NEW r \in Issuers, r # q
                 PROVE  proc[q].held \notin Holding(r)'
      BY <1>0
    <3>1. proc[q].held # h /\ proc[q].held # cached[s] /\ proc[q].held \notin Holding(r)
      BY <1>0, <2>2, HoldingIs, OwnAll DEF Own, Cached
    <3> QED BY <1>4, <3>1
  <2> QED BY <1>0, <2>1, <2>3, <2>4, OwnAll, OwnStays
<1>6. Own(p)'
  <2>1. CASE proc'[p].pc \in {"return", "idle"} BY <2>1 DEF Own
  <2>2. CASE ~ok /\ proc'[p].pc = "discard" /\ proc'[p].held = h BY <1>2, <2>2 DEF Own
  <2>3. CASE /\ ok /\ p \in Acquirers /\ proc'[p].pc = "displace"
             /\ cached[s] # 0 /\ cached[s] = proc[p].old /\ proc'[p].old = cached[s]
    <3>1. p \notin Logins /\ s = "scoped" BY <2>3 DEF SlotOf
    <3>2. Consistent(p) BY DEF CacheInv, CommandsConsistent
    <3>3. proc[p].policy \in Policies
      BY <1>0, <2>3, <3>2 DEF Consistent, Busy
    <3>4. token[cached[s]].policy \in Policies
      BY <2>3, <3>2, <3>3 DEF Consistent, Refers, Expected, Provenance
    <3>5. cached["base"] # cached[s] BY <2>3, <3>4 DEF CacheInv, BaseSlot
    <3>6. cached'["base"] = cached["base"] /\ cached'[s] = h
      BY <1>2, <2>3, <3>1 DEF Slots
    <3>7. h # cached[s] BY <1>0, <1>3 DEF Cached
    <3>8. ~\E r \in Slots: cached'[r] = cached[s] BY <3>1, <3>5, <3>6, <3>7 DEF Slots
    <3> QED BY <2>3, <3>8 DEF Own, Cached
  <2> QED BY <1>1, <2>1, <2>2, <2>3
<1>7. CachedTokensWork'
  <2>1. \A r \in Slots: cached'[r] \in {cached[r], h} BY <1>2
  <2> QED BY <1>0, <1>3, <2>1 DEF CacheInv, CachedTokensWork
<1>8. ASSUME NEW t \in 1..minted', Works(t)', untracked'[t] = "no"
      PROVE  (\E r \in Slots: cached'[r] = t) \/ \E q \in Issuers: t \in Holding(q)'
  <2>0. t \in 1..minted /\ Works(t) /\ untracked[t] = "no" BY <1>0, <1>8, EndsForGood
  <2>1. CASE \E q \in Issuers: q # p /\ t \in Holding(q) BY <1>4, <2>1
  <2>2. CASE t = h BY <1>0, <1>2, <1>4, <2>2
  <2>3. CASE \E r \in Slots: r # s /\ cached[r] = t BY <1>2, <2>3
  <2>4. CASE cached[s] = t
    <3>1. CASE cached'[s] = t BY <1>0, <3>1
    <3>2. CASE cached'[s] # t /\ Lose({cached[s]} \ {cached'[s]}, reason)
      <4>1. fate[t] # "working" \/ untracked'[t] # "no"
        BY <1>0, <2>0, <2>4, <3>2, LoseEffect
      <4> QED BY <1>8, <2>0, <4>1 DEF Works
    <3>3. CASE proc'[p].pc = "displace" BY <1>4, <2>4, <3>3
    <3> QED BY <1>1, <3>1, <3>2, <3>3
  <2>5. \/ \E r \in Slots: cached[r] = t
        \/ \E q \in Issuers: t \in Holding(q)
    BY <2>0 DEF CacheInv, WorkingTokensAccounted
  <2> QED BY <1>3, <2>1, <2>2, <2>3, <2>4, <2>5
<1> QED BY <1>5, <1>6, <1>7, <1>8 DEF WorkingTokensAccounted

\* The base token is evicted, and its loss is recorded.
LEMMA EvictCommands ==
    ASSUME CacheInv, NEW p \in Issuers, Evicts(p), OthersKept(p), Grows
    PROVE  (\A q \in Issuers: Own(q)') /\ CachedTokensWork' /\ WorkingTokensAccounted'
<1>0. /\ minted \in Nat /\ 1..minted \subseteq Tokens /\ cached \in [Slots -> {0} \union Tokens]
      /\ untracked \in [Tokens -> Reason] /\ "base" \in Slots
      /\ UNCHANGED <<clock, fate, minted, token, doubtful>>
      /\ proc[p].pc = "evict" /\ proc'[p].pc = "idle"
  BY DEF CacheInv, TypeOK, StoreTypeOK, Tokens, Slots, Evicts, githubVars
<1>1. \A r \in Slots: cached'[r] \in {0, cached[r]} BY <1>0 DEF Evicts, Forget
<1>2. \A q \in Issuers: Holding(q)' = Holding(q)
  <2>1. \A q \in Issuers \ {p}: Holding(q)' = Holding(q) BY DEF OthersKept, Holding
  <2>2. Holding(p)' = Holding(p) BY <1>0, HoldingIs
  <2> QED BY <2>1, <2>2
<1>3. ASSUME NEW q \in Issuers \ {p} PROVE Own(q)'
  <2>1. proc'[q] = proc[q] BY DEF OthersKept
  <2>2. \A t \in Holding(q): (\E r \in Slots: cached'[r] = t) => Cached(t)
    BY <1>0, <1>1, HoldsMinted DEF Cached
  <2> QED BY <1>0, <1>2, <2>1, <2>2, OwnAll, OwnStays DEF Own
<1>4. Own(p)' BY <1>0 DEF Own
<1>5. CachedTokensWork' BY <1>0, <1>1 DEF CacheInv, CachedTokensWork
<1>6. ASSUME NEW t \in 1..minted', Works(t)', untracked'[t] = "no"
      PROVE  (\E r \in Slots: cached'[r] = t) \/ \E q \in Issuers: t \in Holding(q)'
  <2>0. t \in 1..minted /\ Works(t) /\ untracked[t] = "no" BY <1>0, <1>6, EndsForGood
  <2>1. CASE UNCHANGED cached BY <1>2, <2>0, <2>1 DEF CacheInv, WorkingTokensAccounted
  <2>2. CASE Forget("base") /\ Lose({cached["base"]}, "lost")
    <3>1. cached["base"] # t
      <4>1. cached["base"] = t => fate[t] # "working" \/ untracked'[t] # "no"
        BY <1>0, <2>0, <2>2, LoseEffect DEF Reason
      <4> QED BY <1>6, <2>0, <4>1 DEF Works
    <3>2. \A r \in Slots: cached[r] = t => cached'[r] = t BY <1>0, <2>2, <3>1 DEF Forget
    <3> QED BY <1>2, <2>0, <3>2 DEF CacheInv, WorkingTokensAccounted
  <2> QED BY <2>1, <2>2 DEF Evicts
<1> QED BY <1>3, <1>4, <1>5, <1>6 DEF WorkingTokensAccounted

\* p is no longer responsible for its token, which is at its end, reported or cached.
LEMMA ReleaseCommands ==
    ASSUME CacheInv, NEW p \in Issuers, Releases(p), OthersKept(p), Grows
    PROVE  (\A q \in Issuers: Own(q)') /\ CachedTokensWork' /\ WorkingTokensAccounted'
<1>0. /\ minted \in Nat /\ 1..minted \subseteq Tokens /\ cached \in [Slots -> {0} \union Tokens]
      /\ UNCHANGED <<clock, cached, minted, token, doubtful>>
      /\ proc'[p].pc \in {"idle", "return"}
      /\ \A s \in Slots: cached[s] # 0 => cached[s] \in Tokens
  BY DEF CacheInv, TypeOK, StoreTypeOK, Tokens, Releases
<1>1. /\ \A q \in Issuers \ {p}: Holding(q)' = Holding(q)
      /\ Holding(p)' = {}
  BY <1>0, HoldingIs DEF OthersKept, Holding
<1>2. ASSUME NEW q \in Issuers \ {p} PROVE Own(q)'
  <2>1. proc'[q] = proc[q] BY DEF OthersKept
  <2>2. proc[q].pc = "persist" =>
            /\ fate'[proc[q].held] \in {fate[proc[q].held], "revoked"}
            /\ \A r \in Issuers: r # q => proc[q].held \notin Holding(r)'
    <3> SUFFICES ASSUME proc[q].pc = "persist"
                 PROVE  /\ fate'[proc[q].held] \in {fate[proc[q].held], "revoked"}
                        /\ \A r \in Issuers: r # q => proc[q].held \notin Holding(r)'
      OBVIOUS
    <3>1. proc[q].held \in Tokens /\ proc[q].held \notin Holding(p)
      BY <1>0, HoldingIs, HoldsMinted, OwnAll DEF Own
    <3>2. fate'[proc[q].held] = fate[proc[q].held] BY <3>1 DEF Releases
    <3> QED BY <1>1, <3>2, OwnAll DEF Own
  <2> QED BY <1>0, <2>1, <2>2, OwnAll, OwnStays DEF Cached
<1>3. Own(p)' BY <1>0 DEF Own
<1>4. ASSUME NEW s \in Slots, cached[s] # 0
      PROVE  fate'[cached[s]] \in {"working", "revoked"} \/ cached[s] \in doubtful
  <2>1. CASE fate'[cached[s]] = fate[cached[s]] BY <1>4, <2>1 DEF CacheInv, CachedTokensWork
  <2>2. CASE cached[s] \in Holding(p) /\ proc[p].pc \in {"discard", "displace"}
    BY <2>2, HoldingIs, OwnAll DEF Own, Cached
  <2> QED BY <1>0, <1>4, <2>1, <2>2 DEF Releases
<1>5. CachedTokensWork' BY <1>0, <1>4 DEF CachedTokensWork
<1>6. ASSUME NEW t \in 1..minted', Works(t)', untracked'[t] = "no"
      PROVE  (\E r \in Slots: cached'[r] = t) \/ \E q \in Issuers: t \in Holding(q)'
  <2>0. t \in 1..minted /\ Works(t) /\ untracked[t] = "no" BY <1>0, <1>6, EndsForGood
  <2>1. CASE t \in Holding(p) BY <1>0, <1>6, <2>1 DEF Releases
  <2> QED BY <1>0, <1>1, <2>0, <2>1 DEF CacheInv, WorkingTokensAccounted
<1> QED BY <1>2, <1>3, <1>5, <1>6 DEF WorkingTokensAccounted

-----------------------------------------------------------------------------
(***************************************************************************)
(* The invariant, and what follows from it.                                *)
(***************************************************************************)
LEMMA CommandsStep ==
    ASSUME CacheInv, [Next]_vars
    PROVE  OwnCandidate' /\ CachedTokensWork' /\ WorkingTokensAccounted'
<1>1. Grows BY AllGrows
<1>2. (\A q \in Issuers: Own(q)') => OwnCandidate' BY DEF Own, OwnCandidate
<1>3. CASE Backstage BY <1>1, <1>2, <1>3, BackstageCommands
<1>4. ASSUME NEW p \in Issuers, CommandEffect(p), OthersKept(p)
      PROVE  (\A q \in Issuers: Own(q)') /\ CachedTokensWork' /\ WorkingTokensAccounted'
  BY <1>1, <1>4, QuietCommands, ReceiveCommands, PublishCommands, EvictCommands, ReleaseCommands
     DEF CommandEffect
<1> QED BY <1>2, <1>3, <1>4, Effects

LEMMA ConsistentStep == ASSUME CacheInv, [Next]_vars PROVE CommandsConsistent'
<1>1. TokensGrow BY AllGrows DEF Grows
<1>2. ASSUME NEW q \in Issuers, proc'[q] = proc[q] PROVE Consistent(q)'
  BY <1>1, <1>2, StillConsistent DEF CacheInv, CommandsConsistent
<1>3. CASE Backstage BY <1>2, <1>3 DEF Backstage, CommandsConsistent
<1>4. ASSUME NEW p \in Issuers, Consistent(p)', OthersKept(p) PROVE CommandsConsistent'
  BY <1>2, <1>4 DEF OthersKept, CommandsConsistent
<1> QED BY <1>3, <1>4, Effects

LEMMA RevokesStep == ASSUME CacheInv, [Next]_vars PROVE \A v \in Revokers: RevInv(v)'
<1>1. Grows /\ NewCached /\ TypeOK' BY AllGrows, AllNewCached, TypeStep
<1>2. ASSUME NEW v \in Revokers, rev'[v] = rev[v] PROVE RevInv(v)' BY <1>1, <1>2, RevStill
<1>3. ASSUME NEW v \in Revokers, ByRevoke(v) PROVE \A w \in Revokers: RevInv(w)'
  <2>1. RevInv(v)' BY <1>1, <1>3, RevokeMoves DEF ByRevoke
  <2>2. \A w \in Revokers \ {v}: rev'[w] = rev[w]
    BY <1>3, RevokeType DEF ByRevoke, CacheInv, RevokersKept
  <2> QED BY <1>2, <2>1, <2>2
<1>4. CASE UNCHANGED rev BY <1>2, <1>4
<1>5. [Next]_vars => UNCHANGED rev \/ \E v \in Revokers: ByRevoke(v)
  BY DEF Next, vars, ByEnv, ByAcquire, ByLogin
<1> QED BY <1>3, <1>4, <1>5

LEMMA CacheStep == ASSUME CacheInv, [Next]_vars PROVE CacheInv'
<1>0. /\ Grows /\ NewCached /\ minted \in Nat /\ cached \in [Slots -> {0} \union Tokens]
      /\ TypeOK' /\ minted' \in Nat /\ "base" \in Slots
      /\ \A s \in Slots: cached[s] <= minted
  BY AllGrows, AllNewCached, TypeStep DEF CacheInv, TypeOK, StoreTypeOK, Tokens, NamesMinted, Slots
<1>1. \A v \in Revokers: RevInv(v)' BY RevokesStep
<1>2. \A s \in Slots: cached'[s] <= minted' BY <1>0 DEF Grows, TokensGrow, NewCached, Tokens
<1>3. NamesMinted' BY <1>1, <1>2 DEF NamesMinted, RevInv
<1>4. BaseSlot'
  <2>1. SUFFICES ASSUME cached'["base"] # 0
                 PROVE  /\ token'[cached'["base"]].policy = "base"
                        /\ token'[cached'["base"]].parent = 0
    BY DEF BaseSlot
  <2>2. PICK t: t = cached'["base"] OBVIOUS
  <2>3. t \in 1..minted /\ token[t].policy = "base" /\ token[t].parent = 0
    <3>1. CASE t = cached["base"]
      BY <1>0, <2>1, <2>2, <3>1 DEF CacheInv, BaseSlot, Tokens
    <3>2. CASE t # cached["base"] BY <1>0, <2>1, <2>2, <3>2 DEF NewCached
    <3> QED BY <3>1, <3>2
  <2> QED BY <1>0, <2>2, <2>3, EndsForGood
<1>5. DeletersKnow' /\ RevokeEpochs' /\ RevokeCoversEarlierIssuance' /\ CleanRevokeProgress'
  BY <1>1 DEF RevInv, DeletersKnow, RevokeEpochs, RevokeCoversEarlierIssuance,
              CleanRevokeProgress
<1> QED BY <1>0, <1>3, <1>4, <1>5, ConsistentStep, CommandsStep DEF CacheInv

LEMMA InitInv == Init => CacheInv
<1> SUFFICES ASSUME Init PROVE CacheInv OBVIOUS
<1>1. TypeOK BY InitTypes
<1>2. /\ \A p \in Issuers: proc[p] = Idle
      /\ \A v \in Revokers: /\ rev[v].pc = "idle" /\ rev[v].snap = NoSnapshot
                            /\ rev[v].epoch = 0 /\ rev[v].covered = {}
      /\ epoch = 0
  BY DEF Init, IssuanceInit, RevokeInit, StoreInit
<1>3. /\ \A s \in Slots: cached[s] # 0 => cached[s] = 1 /\ s = "base" /\ fate[1] = "working"
      /\ \/ minted = 0 /\ \A s \in Slots: cached[s] = 0
         \/ /\ minted = 1 /\ cached["base"] = 1 /\ "base" \in Slots
            /\ token[1].policy = "base" /\ token[1].parent = 0 /\ token[1].guard = 0
  BY <1>1 DEF Init, StoreInit, BaseToken, TypeOK, StoreTypeOK, Slots, Tokens
<1>4. NamesMinted BY <1>2, <1>3 DEF NamesMinted, NoSnapshot
<1>5. CommandsConsistent BY <1>2, IdleFits, ConsistentFits DEF CommandsConsistent
<1>6. BaseSlot BY <1>3 DEF BaseSlot, Slots
<1>7. OwnCandidate BY <1>2 DEF OwnCandidate, Idle
<1>8. CachedTokensWork BY <1>3 DEF CachedTokensWork
<1>9. WorkingTokensAccounted BY <1>3 DEF WorkingTokensAccounted
<1>10. DeletersKnow /\ RevokeEpochs /\ CleanRevokeProgress
  BY <1>2 DEF DeletersKnow, RevokeEpochs, CleanRevokeProgress
<1>11. RevokeCoversEarlierIssuance BY <1>2, <1>3 DEF RevokeCoversEarlierIssuance
<1> QED BY <1>1, <1>4, <1>5, <1>6, <1>7, <1>8, <1>9, <1>10, <1>11 DEF CacheInv

\* The invariant holds of any number of commands, logins and revokes, and for any
\* sequence of storage operations, GitHub answers and kills between them.
THEOREM CacheInvariant == Spec => []CacheInv
<1>1. Init => CacheInv BY InitInv
<1>2. CacheInv /\ [Next]_vars => CacheInv' BY CacheStep
<1> QED BY <1>1, <1>2, PTL DEF Spec

\* No command forgets a token: one that works and is in no file is held by a
\* command that is still to revoke it, or its loss has a recorded reason.
THEOREM TokensAccounted == Spec => []WorkingTokensAccounted
<1>1. CacheInv => WorkingTokensAccounted BY DEF CacheInv
<1> QED BY <1>1, CacheInvariant, PTL

\* No command revokes the token that it, or another one, left in the cache, unless
\* its own publication was reported as failed.
THEOREM CachedTokensSpared == Spec => []CachedTokensWork
<1>1. CacheInv => CachedTokensWork BY DEF CacheInv
<1> QED BY <1>1, CacheInvariant, PTL

\* What a command returns was issued for its own configuration, from the base
\* token it read.
THEOREM ReturnsFit == Spec => []ReturnedTokenFits
<1>1. CacheInv => ReturnedTokenFits
  BY DEF CacheInv, CommandsConsistent, Consistent, ReturnedTokenFits, Refers, Expected,
         Provenance
<1> QED BY <1>1, CacheInvariant, PTL

\* After `revoke --all` advanced the epoch, nothing that was under way before it
\* gets a token into the cache that the revoke has not inspected.
THEOREM RevokeCovers == Spec => []RevokeCoversEarlierIssuance
<1>1. CacheInv => RevokeCoversEarlierIssuance BY DEF CacheInv
<1> QED BY <1>1, CacheInvariant, PTL

\* A clean `revoke --all` leaves no inspected token at work that it does not report.
THEOREM CleanRevokeEnds == Spec => []CleanRevokeEndsTokens
<1>1. CacheInv => CleanRevokeEndsTokens
  BY DEF CacheInv, CleanRevokeProgress, CleanRevokeEndsTokens
<1> QED BY <1>1, CacheInvariant, PTL

\* The first of concurrent commands to persist wins: only the renewal of exactly
\* this token displaces a record that could still be handed out.
THEOREM RenewalDisplaces == Spec => OnlyRenewalDisplaces
<1>1. ASSUME CacheInv, [Next]_vars, NEW s \in Slots,
             cached[s] # 0, cached'[s] \notin {0, cached[s]}
      PROVE  \/ ~Compatible(cached[s], cached'[s], clock)
             \/ \E p \in Acquirers: proc[p].old = cached[s] /\ proc[p].held = cached'[s]
  <2>1. CASE Backstage BY <1>1, <2>1 DEF Backstage
  <2>2. ASSUME NEW p \in Issuers, CommandEffect(p), ~Publishes(p) PROVE FALSE
    <3>1. cached \in [Slots -> {0} \union Tokens]
      BY <1>1 DEF CacheInv, TypeOK, StoreTypeOK
    <3>2. UNCHANGED cached \/ Forget("base")
      BY <2>2 DEF CommandEffect, Quiet, Receives, Evicts, Releases, storeVars
    <3> QED BY <1>1, <3>1, <3>2 DEF Forget
  <2>3. ASSUME NEW p \in Issuers, Publishes(p)
        PROVE  \/ ~Compatible(cached[s], cached'[s], clock)
               \/ \E q \in Acquirers: proc[q].old = cached[s] /\ proc[q].held = cached'[s]
    <3>1. s = SlotOf(p) /\ cached'[s] = proc[p].held BY <1>1, <2>3, PublishNew
    <3>2. cached[s] # 0 => \/ ~Compatible(cached[s], proc[p].held, clock)
                           \/ p \in Acquirers /\ proc[p].old = cached[s]
      BY <2>3, <3>1 DEF Publishes
    <3> QED BY <1>1, <3>1, <3>2
  <2> QED BY <1>1, <2>1, <2>2, <2>3, Effects
<1>2. CacheInv /\ [Next]_vars =>
        [\A s \in Slots:
            (cached[s] # 0 /\ cached'[s] \notin {0, cached[s]}) =>
              \/ ~Compatible(cached[s], cached'[s], clock)
              \/ \E p \in Acquirers: proc[p].old = cached[s] /\ proc[p].held = cached'[s]]_vars
  BY <1>1
<1> QED BY <1>2, CacheInvariant, PTL DEF Spec, OnlyRenewalDisplaces

\* A record disappears only because of what was known of this very token.
THEOREM InspectedRemoved == Spec => OnlyInspectedRemoved
<1>1. ASSUME CacheInv, [Next]_vars, NEW s \in Slots, cached[s] # 0, cached'[s] = 0
      PROVE  \/ Expired(cached[s], clock)
             \/ \E p \in Acquirers: proc[p].pc = "evict" /\ proc[p].base = cached[s]
             \/ \E v \in Revokers: rev[v].snap[s] = cached[s]
  <2>1. CASE Backstage BY <1>1, <2>1 DEF Backstage
  <2>2. ASSUME NEW p \in Issuers, Publishes(p) PROVE FALSE
    <3>1. proc[p].held # 0
      BY <1>1, <2>2 DEF Publishes, CacheInv, CommandsConsistent, Consistent, HasCandidate, Refers
    <3> QED BY <1>1, <2>2, <3>1, PublishNew
  <2>3. ASSUME NEW p \in Issuers, Evicts(p)
        PROVE  \E q \in Acquirers: proc[q].pc = "evict" /\ proc[q].base = cached[s]
    <3>1. cached \in [Slots -> {0} \union Tokens]
      BY <1>1 DEF CacheInv, TypeOK, StoreTypeOK
    <3> QED BY <1>1, <2>3, <3>1 DEF Evicts, Forget
  <2>4. ASSUME NEW p \in Issuers, CommandEffect(p), ~Publishes(p), ~Evicts(p) PROVE FALSE
    BY <1>1, <2>4 DEF CommandEffect, Quiet, Receives, Releases, storeVars
  <2> QED BY <1>1, <2>1, <2>2, <2>3, <2>4, Effects
<1>2. CacheInv /\ [Next]_vars =>
        [\A s \in Slots:
            (cached[s] # 0 /\ cached'[s] = 0) =>
              \/ Expired(cached[s], clock)
              \/ \E p \in Acquirers: proc[p].pc = "evict" /\ proc[p].base = cached[s]
              \/ \E v \in Revokers: rev[v].snap[s] = cached[s]]_vars
  BY <1>1
<1> QED BY <1>2, CacheInvariant, PTL DEF Spec, OnlyInspectedRemoved
=============================================================================
