--------------------------- MODULE ProfilesProofs ---------------------------
(* Theorems about Profiles, for any listings of the profiles and any number   *)
(* of requests, flows, groups and members.                                    *)
EXTENDS Profiles, FiniteSetTheorems, WellFoundedInduction, TLAPS

\* A set of natural numbers has a least element.
LEMMA LeastNatural ==
  ASSUME NEW S, S \subseteq Nat, S # {}
  PROVE  \E n \in S : \A m \in S : n <= m
<1> DEFINE Less == OpToRel(<, Nat)
<1>1. IsWellFoundedOn(Less, Nat)
  BY NatLessThanWellFounded
<1>2. \A m, n \in Nat : m < n => <<m, n>> \in Less
  BY DEF OpToRel
<1> HIDE DEF Less
<1>3. PICK n \in S : \A m \in S : <<m, n>> \notin Less
  BY <1>1, WFMin
<1>4. \A m \in S : ~(m < n)
  BY <1>2, <1>3
<1>5. \A m \in S : n <= m
  BY <1>4
<1>6. QED
  BY <1>5

-----------------------------------------------------------------------------
(* Registration *)

RegistryInv == RegistryTypeOK /\ AcceptedServesItsClaims

\* register enters keys from the front of the list, each of them free before.
LEMMA EntersFreeKeys ==
  ASSUME RegistryTypeOK, NEW p \in Profiles
  PROVE  /\ claims[p] \in Seq(Keys)
         /\ Entering(p) \in 0 .. Len(claims[p])
         /\ \A i \in 1 .. Entering(p) :
              i \in 1 .. Len(claims[p]) /\ handlers[claims[p][i]] = None
<1>1. claims[p] \in Seq(Keys)
  BY RegistryConstantsAssumption DEF RegistryTypeOK
<1>2. Conflicts(p) \subseteq 1 .. Len(claims[p])
  BY <1>1 DEF Conflicts
<1>3. \A i \in 1 .. Len(claims[p]) : i \notin Conflicts(p) => handlers[claims[p][i]] = None
  BY <1>1 DEF Conflicts
<1>4. CASE Conflicts(p) = {}
  BY <1>1, <1>3, <1>4 DEF Entering
<1>5. CASE Conflicts(p) # {}
  <2> DEFINE n == CHOOSE i \in Conflicts(p) : \A j \in Conflicts(p) : i <= j
  <2>1. \E i \in Conflicts(p) : \A j \in Conflicts(p) : i <= j
    BY <1>2, <1>5, LeastNatural
  <2>2. n \in Conflicts(p) /\ \A j \in Conflicts(p) : n <= j
    BY <2>1
  <2>3. Entering(p) = n - 1
    BY <1>5 DEF Entering
  <2> HIDE DEF n
  <2>4. \A i \in 1 .. n - 1 : i \in 1 .. Len(claims[p]) /\ i \notin Conflicts(p)
    BY <1>1, <1>2, <2>2
  <2>5. n - 1 \in 0 .. Len(claims[p])
    BY <1>1, <1>2, <2>2
  <2>6. QED
    BY <1>1, <1>3, <2>3, <2>4, <2>5
<1>6. QED
  BY <1>4, <1>5

\* Use takes no key from a profile that was accepted before.
LEMMA UseKeeps ==
  ASSUME RegistryInv, NEW p \in Profiles, NEW initOk \in BOOLEAN, Use(p, initOk)
  PROVE  RegistryInv'
<1> USE DEF RegistryInv
<1>1. RegistryTypeOK'
  BY DEF RegistryTypeOK, Use, Entered
<1>2. ASSUME NEW q \in Profiles, used'[q] = "ok", NEW i \in 1 .. Len(claims[q])
      PROVE  handlers'[claims[q][i]] = q
  <2>1. claims[q] \in Seq(Keys) /\ claims[q][i] \in Keys
    BY EntersFreeKeys, <1>2
  <2>2. handlers'[claims[q][i]] = IF \E j \in 1 .. Entering(p) : claims[p][j] = claims[q][i]
                                  THEN p ELSE handlers[claims[q][i]]
    BY <2>1 DEF Use, Entered
  <2>3. CASE q = p
    <3>1. Conflicts(p) = {}
      BY <1>2, <2>3 DEF Use, RegistryTypeOK
    <3>2. Entering(p) = Len(claims[p])
      BY <3>1 DEF Entering
    <3>3. QED
      BY <1>2, <2>2, <2>3, <3>2
  <2>4. CASE q # p
    <3>1. used[q] = "ok"
      BY <1>2, <2>4 DEF Use, RegistryTypeOK
    <3>2. handlers[claims[q][i]] = q
      BY <1>2, <2>1, <3>1 DEF AcceptedServesItsClaims, Range
    <3>3. \A j \in 1 .. Entering(p) : claims[p][j] # claims[q][i]
      BY <3>2, EntersFreeKeys, RegistryConstantsAssumption
    <3>4. QED
      BY <2>2, <3>2, <3>3
  <2>5. QED
    BY <2>3, <2>4
<1>3. AcceptedServesItsClaims'
  <2> SUFFICES ASSUME NEW q \in Profiles, used'[q] = "ok", NEW k \in Range(claims[q])
               PROVE  handlers'[k] = q
    BY DEF AcceptedServesItsClaims, Use
  <2>1. PICK i \in DOMAIN claims[q] : claims[q][i] = k
    BY DEF Range
  <2>2. DOMAIN claims[q] = 1 .. Len(claims[q])
    BY EntersFreeKeys
  <2>3. QED
    BY <1>2, <2>1, <2>2
<1>4. QED
  BY <1>1, <1>3

-----------------------------------------------------------------------------
(* Flows *)

\* Requests are handled only once all profiles are registered, and a request
\* that has not come in has left no trace.
ServingInv ==
    \A r \in Requests :
        /\ pc[r] # "new" => Serving
        /\ pc[r] = "new" => req[r] = NoReq /\ ~alone[r]
        /\ answer[r] # "none" => pc[r] = "done"

\* What a goroutine is about, at each place of the flow methods.
StageOk(r) ==
    /\ pc[r] = "starting" \/ answer[r] = "started" =>
         /\ req[r].method = "start" /\ req[r].flow \in FlowIds
         /\ owner[r] = handlers[req[r].type]
    /\ pc[r] \in {"action", "end", "untrack"} => req[r].flow \in FlowIds
    /\ pc[r] \in {"action", "progress", "end"} => req[r].method = pc[r]
    /\ pc[r] = "untrack" => req[r].method \in {"end", "cancel"}
    /\ answer[r] = "ended" => req[r].method = "end"

StageInv == \A r \in Requests : StageOk(r)

\* No request has come in that may take the flow of s away or change its type.
Undisturbed(s) ==
    \A r \in Requests : req[r].flow = req[s].flow /\ r # s =>
        \/ req[r].method \in {"action", "progress"}
        \/ req[r].method = "start" /\ req[r].type = req[s].type

\* A flow type is there as soon as StartFlow has entered it, before the flow is
\* tracked.
StartedOk(s) ==
    /\ pc[s] = "starting" \/ answer[s] = "started"
    /\ owner[s] = openid /\ Undisturbed(s)
    => /\ flowTypes[req[s].flow] = req[s].type
       /\ answer[s] = "started" => flowOwners[req[s].flow] = openid

StartedInv == \A s \in Requests : StartedOk(s)

\* While an end or a cancel is alone, no start of its flow is under way; the end
\* has reached the profile before it gets to the registry.
EndedOk(e) ==
    alone[e] =>
        /\ req[e].flow \in FlowIds
        /\ \A s \in Requests : pc[s] = "starting" => req[s].flow # req[e].flow
        /\ pc[e] \in {"untrack", "done"} /\ req[e].method = "end" /\ owner[e] = openid =>
             flowTypes[req[e].flow] = None
        /\ answer[e] \in {"ended", "cancelled"} => flowOwners[req[e].flow] = None

EndedInv == \A e \in Requests : EndedOk(e)

\* A request that is answered in one step, by the application or by a profile,
\* and leaves the registry and the table of flow types alone.
Settle(r) ==
    /\ \E method \in {"start", "action", "progress", "end", "cancel", "method"},
          f \in FlowIds \cup {None}, t \in FlowKinds \cup {None} : Arrives(r, method, f, t)
    /\ \E a \in {"app", "profile", "refused", "not found"} : Goto(r, "done", a)
    /\ UNCHANGED <<registryVars, flowOwners, flowTypes, owner, alone>>

MlsStep(r) == MlsCreate(r) \/ MlsAdd(r) \/ MlsRemove(r) \/ MlsOther(r)

\* The methods of the MLS profile settle their requests.
LEMMA MlsSettles == ASSUME NEW r \in Requests, MlsStep(r) PROVE Settle(r)
<1>1. \A method, a : MlsCall(r, method, a) /\ a \in {"profile", "refused"} => Settle(r)
  BY DEF MlsCall, Settle
<1>2. QED
  BY <1>1 DEF MlsStep, MlsCreate, MlsAdd, MlsRemove, MlsOther

\* So does everything else that is over in one step.
LEMMA OthersSettle ==
  ASSUME NEW r \in Requests,
         \/ \E f \in FlowIds, t \in FlowKinds : FlowStartApp(r, f, t) \/ FlowStartInvalid(r, f, t)
         \/ \E f \in FlowIds, method \in {"action", "progress", "end", "cancel"} :
               FlowUntracked(r, method, f)
         \/ \E method \in Range(MlsMethods) : MethodElsewhere(r, method)
         \/ \E type \in Range(ResolveTypes) : Resolve(r, type)
         \/ InvalidParams(r)
  PROVE  Settle(r) /\ UNCHANGED mlsVars
<1> USE DEF Settle, profileVars
<1>1. ASSUME NEW f \in FlowIds, NEW t \in FlowKinds,
             FlowStartApp(r, f, t) \/ FlowStartInvalid(r, f, t)
      PROVE  Settle(r) /\ UNCHANGED mlsVars
  BY <1>1 DEF FlowStartApp, FlowStartInvalid
<1>2. ASSUME NEW f \in FlowIds, NEW method \in {"action", "progress", "end", "cancel"},
             FlowUntracked(r, method, f)
      PROVE  Settle(r) /\ UNCHANGED mlsVars
  BY <1>2 DEF FlowUntracked
<1>3. ASSUME NEW method, MethodElsewhere(r, method) PROVE Settle(r) /\ UNCHANGED mlsVars
  BY <1>3 DEF MethodElsewhere
<1>4. ASSUME NEW type, Resolve(r, type) PROVE Settle(r) /\ UNCHANGED mlsVars
  BY <1>4 DEF Resolve
<1>5. ASSUME InvalidParams(r) PROVE Settle(r) /\ UNCHANGED mlsVars
  BY <1>5 DEF InvalidParams
<1>6. QED
  BY <1>1, <1>2, <1>3, <1>4, <1>5

\* The steps that remain to be looked at.
LEMMA NextCases ==
  ASSUME [Next]_vars
  PROVE  \/ Register
         \/ \E r \in Requests :
             \/ Settle(r) /\ (MlsStep(r) \/ UNCHANGED mlsVars)
             \/ \E f \in FlowIds, t \in FlowKinds :
                   FlowStartOpenID4x(r, f, t) \/ FlowStartRival(r, f, t)
             \/ FlowStarted(r) \/ FlowStartFails(r)
             \/ \E f \in FlowIds, method \in {"action", "progress", "end", "cancel"} :
                   FlowTracked(r, method, f)
             \/ FlowAction(r) \/ FlowProgress(r) \/ FlowEnd(r) \/ FlowUntrack(r)
         \/ UNCHANGED vars
  BY MlsSettles, OthersSettle DEF Next, MlsStep, AllDone

-----------------------------------------------------------------------------
(* The MLS group *)

\* Without a group nothing was answered with success; a group that is the only
\* one has the epoch of the last answer and the members the answers say.
GroupInv ==
    /\ IsFiniteSet(DOMAIN groups)
    /\ DOMAIN groups = {} => answered = <<>>
    /\ \A g \in GroupIds : DOMAIN groups = {g} =>
         /\ groups[g].epoch = Len(answered) - 1
         /\ groups[g].members = {m \in Members : LastIn(m)}
         /\ \A i \in 1 .. Len(answered) : answered[i].epoch = i - 1

MlsInv == NoopMLSTypeOK /\ GroupInv

\* One more answer decides for those it names.
LEMMA LastInAfter ==
  ASSUME NoopMLSTypeOK, NEW op \in {"in", "out"}, NEW who \in SUBSET Members, NEW n \in Nat,
         Answer(op, who, n)
  PROVE  /\ Len(answered') = Len(answered) + 1
         /\ answered'[Len(answered) + 1].epoch = n
         /\ \A i \in 1 .. Len(answered) : answered'[i] = answered[i]
         /\ \A m \in Members : LastIn(m)' <=> IF m \in who THEN op = "in" ELSE LastIn(m)
<1> DEFINE E == [op : {"in", "out"}, who : SUBSET Members, epoch : Nat]
           rec == [op |-> op, who |-> who, epoch |-> n]
           L == Len(answered)
<1>1. answered \in Seq(E) /\ rec \in E /\ answered' = Append(answered, rec)
  BY DEF NoopMLSTypeOK, Answer
<1>2. rec.op = op /\ rec.who = who /\ rec.epoch = n
  OBVIOUS
<1> HIDE DEF E, rec
<1>3. /\ L \in Nat /\ Len(answered') = L + 1 /\ answered'[L + 1] = rec
      /\ DOMAIN answered = 1 .. L /\ DOMAIN answered' = 1 .. L + 1
      /\ \A i \in 1 .. L : answered'[i] = answered[i]
  BY <1>1
<1> HIDE DEF L
<1>4. ASSUME NEW m \in Members
      PROVE  LastIn(m)' <=> IF m \in who THEN op = "in" ELSE LastIn(m)
  <2>1. CASE m \in who
    <3>1. ASSUME op = "in" PROVE LastIn(m)'
      <4>1. \A j \in L + 1 + 1 .. L + 1 : m \notin answered'[j].who
        BY <1>3
      <4>2. QED
        BY <1>2, <1>3, <2>1, <3>1, <4>1 DEF LastIn
    <3>2. ASSUME LastIn(m)' PROVE op = "in"
      <4>1. PICK i \in 1 .. L + 1 :
               /\ m \in answered'[i].who /\ answered'[i].op = "in"
               /\ \A j \in i + 1 .. L + 1 : m \notin answered'[j].who
        BY <1>3, <3>2 DEF LastIn
      <4>2. i = L + 1
        BY <1>2, <1>3, <2>1, <4>1
      <4>3. QED
        BY <1>2, <1>3, <4>1, <4>2
    <3>3. QED
      BY <1>2, <1>3, <2>1, <3>1, <3>2
  <2>2. CASE m \notin who
    <3>1. ASSUME LastIn(m) PROVE LastIn(m)'
      <4>1. PICK i \in 1 .. L :
               /\ m \in answered[i].who /\ answered[i].op = "in"
               /\ \A j \in i + 1 .. L : m \notin answered[j].who
        BY <1>3, <3>1 DEF LastIn, L
      <4>2. i \in 1 .. L + 1 /\ answered'[i] = answered[i]
        BY <1>3
      <4>3. \A j \in i + 1 .. L + 1 : m \notin answered'[j].who
        BY <1>2, <1>3, <2>2, <4>1
      <4>4. QED
        BY <1>3, <4>1, <4>2, <4>3 DEF LastIn
    <3>2. ASSUME LastIn(m)' PROVE LastIn(m)
      <4>1. PICK i \in 1 .. L + 1 :
               /\ m \in answered'[i].who /\ answered'[i].op = "in"
               /\ \A j \in i + 1 .. L + 1 : m \notin answered'[j].who
        BY <1>3, <3>2 DEF LastIn
      <4>2. i \in 1 .. L /\ answered'[i] = answered[i]
        BY <1>2, <1>3, <2>2, <4>1
      <4>3. \A j \in i + 1 .. L : m \notin answered[j].who
        BY <1>3, <4>1
      <4>4. QED
        BY <1>3, <4>1, <4>2, <4>3 DEF LastIn, L
    <3>3. QED
      BY <1>2, <1>3, <2>2, <3>1, <3>2
  <2>3. QED
    BY <2>1, <2>2
<1>5. QED
  BY <1>2, <1>3, <1>4 DEF L

\* A new group: the first one starts with the epoch 0, a further one ends the
\* time of the only one.
LEMMA CreateKeeps ==
  ASSUME MlsInv, NEW g \in GroupIds, NEW who \in SUBSET Members, GroupCreateOk(g, who)
  PROVE  MlsInv'
<1> DEFINE fresh == [epoch |-> 0, members |-> who]
<1>1. /\ g \notin DOMAIN groups /\ DOMAIN groups' = DOMAIN groups \cup {g}
      /\ groups'[g] = fresh /\ \A h \in DOMAIN groups : groups'[h] = groups[h]
  BY DEF GroupCreateOk
<1>2. fresh \in [epoch : Nat, members : SUBSET Members] /\ fresh.epoch = 0 /\ fresh.members = who
  OBVIOUS
<1> HIDE DEF fresh
<1>3. NoopMLSTypeOK'
  BY <1>1, <1>2 DEF MlsInv, NoopMLSTypeOK, GroupCreateOk, Answer
<1>4. IsFiniteSet(DOMAIN groups')
  BY <1>1, FS_AddElement DEF MlsInv, GroupInv
<1>5. /\ Len(answered') = Len(answered) + 1 /\ answered'[Len(answered) + 1].epoch = 0
      /\ \A m \in Members : LastIn(m)' <=> IF m \in who THEN TRUE ELSE LastIn(m)
  BY LastInAfter, 0 \in Nat DEF MlsInv, GroupCreateOk
<1>6. ASSUME NEW h \in GroupIds, DOMAIN groups' = {h}
      PROVE  /\ groups'[h].epoch = Len(answered') - 1
             /\ groups'[h].members = {m \in Members : LastIn(m)'}
             /\ \A i \in 1 .. Len(answered') : answered'[i].epoch = i - 1
  <2>1. h = g /\ DOMAIN groups = {}
    BY <1>1, <1>6
  <2>2. answered = <<>>
    BY <2>1 DEF MlsInv, GroupInv
  <2>3. Len(answered) = 0 /\ \A m \in Members : ~LastIn(m)
    BY <2>2 DEF LastIn
  <2>4. groups'[h].members = {m \in Members : LastIn(m)'}
    BY <1>1, <1>2, <1>5, <2>1, <2>3
  <2>5. QED
    BY <1>1, <1>2, <1>5, <2>1, <2>3, <2>4
<1>7. QED
  BY <1>1, <1>3, <1>4, <1>6 DEF MlsInv, GroupInv

\* A change of a group, when it is the only one, is the one that is answered.
LEMMA ChangeKeeps ==
  ASSUME MlsInv, NEW g \in DOMAIN groups, NEW op \in {"in", "out"},
         NEW who \in SUBSET Members, NEW members \in SUBSET Members,
         members = IF op = "in" THEN groups[g].members \cup who ELSE groups[g].members \ who,
         Change(g, op, who, members)
  PROVE  MlsInv'
<1> DEFINE next == [epoch |-> groups[g].epoch + 1, members |-> members]
<1>0. g \in GroupIds /\ groups[g] \in [epoch : Nat, members : SUBSET Members]
  BY DEF MlsInv, NoopMLSTypeOK
<1>1. /\ DOMAIN groups' = DOMAIN groups /\ groups'[g] = next
      /\ \A h \in DOMAIN groups : h # g => groups'[h] = groups[h]
  BY DEF Change
<1>2. /\ next \in [epoch : Nat, members : SUBSET Members]
      /\ next.epoch = groups[g].epoch + 1 /\ next.members = members
  BY <1>0
<1>3. groups[g].epoch \in Nat /\ groups[g].members \subseteq Members
  BY <1>0
<1> HIDE DEF next
<1>4. NoopMLSTypeOK'
  BY <1>1, <1>2, <1>3 DEF MlsInv, NoopMLSTypeOK, Change, Answer
<1>5. /\ Len(answered) \in Nat /\ Len(answered') = Len(answered) + 1
      /\ answered'[Len(answered) + 1].epoch = groups[g].epoch + 1
      /\ \A i \in 1 .. Len(answered) : answered'[i] = answered[i]
  BY <1>3 DEF MlsInv, NoopMLSTypeOK, Change, Answer
<1>6. \A m \in Members : LastIn(m)' <=> IF m \in who THEN op = "in" ELSE LastIn(m)
  <2>1. groups[g].epoch + 1 \in Nat /\ Answer(op, who, groups[g].epoch + 1)
    BY <1>3 DEF Change
  <2>2. QED
    BY <2>1, LastInAfter DEF MlsInv
<1>7. ASSUME NEW h \in GroupIds, DOMAIN groups' = {h}
      PROVE  /\ groups'[h].epoch = Len(answered') - 1
             /\ groups'[h].members = {m \in Members : LastIn(m)'}
             /\ \A i \in 1 .. Len(answered') : answered'[i].epoch = i - 1
  <2>1. h = g /\ DOMAIN groups = {g}
    BY <1>1, <1>7
  <2>2. /\ groups[g].epoch = Len(answered) - 1
        /\ groups[g].members = {m \in Members : LastIn(m)}
        /\ \A i \in 1 .. Len(answered) : answered[i].epoch = i - 1
    BY <1>0, <2>1 DEF MlsInv, GroupInv
  <2>3. groups'[h].members = {m \in Members : LastIn(m)'}
    <3>1. groups'[h].members = members
      BY <1>1, <1>2, <2>1
    <3>2. \A m \in Members : m \in members <=> LastIn(m)'
      BY <1>6, <2>2
    <3>3. QED
      BY <3>1, <3>2
  <2>4. groups'[h].epoch = Len(answered') - 1
    BY <1>1, <1>2, <1>5, <2>1, <2>2
  <2>5. ASSUME NEW i \in 1 .. Len(answered') PROVE answered'[i].epoch = i - 1
    <3>1. CASE i = Len(answered) + 1
      BY <1>5, <2>2, <3>1
    <3>2. CASE i \in 1 .. Len(answered)
      BY <1>5, <2>2, <3>2
    <3>3. QED
      BY <1>5, <3>1, <3>2
  <2>6. QED
    BY <2>3, <2>4, <2>5
<1>8. QED
  BY <1>1, <1>4, <1>7 DEF MlsInv, GroupInv

\* The methods of the profile keep the group as it was answered.
LEMMA MlsKeeps ==
  ASSUME MlsInv, NEW r \in Requests, MlsStep(r) \/ UNCHANGED mlsVars
  PROVE  MlsInv'
<1>1. ASSUME UNCHANGED mlsVars PROVE MlsInv'
  BY <1>1 DEF mlsVars, MlsInv, NoopMLSTypeOK, GroupInv, LastIn
<1>2. CASE MlsCreate(r)
  BY <1>1, <1>2, CreateKeeps DEF MlsCreate, GroupCreateErr
<1>3. CASE MlsAdd(r)
  <2>1. ASSUME NEW g \in DOMAIN groups, NEW who \in SUBSET Members, GroupAdd(g, who)
        PROVE  MlsInv'
    <3>1. groups[g].members \in SUBSET Members
      BY DEF MlsInv, NoopMLSTypeOK
    <3>2. groups[g].members \cup who \in SUBSET Members
      BY <3>1
    <3>3. QED
      BY <2>1, <3>2, ChangeKeeps DEF GroupAdd
  <2>2. QED
    BY <1>1, <1>3, <2>1 DEF MlsAdd, NoEffect
<1>4. CASE MlsRemove(r)
  <2>1. ASSUME NEW g \in DOMAIN groups, NEW who \in SUBSET Members, GroupRemove(g, who)
        PROVE  MlsInv'
    <3>1. groups[g].members \in SUBSET Members
      BY DEF MlsInv, NoopMLSTypeOK
    <3>2. groups[g].members \ who \in SUBSET Members
      BY <3>1
    <3>3. QED
      BY <2>1, <3>2, ChangeKeeps DEF GroupRemove
  <2>2. QED
    BY <1>1, <1>4, <2>1 DEF MlsRemove, NoEffect
<1>5. CASE MlsOther(r)
  BY <1>1, <1>5 DEF MlsOther, NoEffect
<1>6. QED
  BY <1>1, <1>2, <1>3, <1>4, <1>5 DEF MlsStep

-----------------------------------------------------------------------------
(* The steps *)

\* The types of what the flow methods and the goroutines of requests change.
RequestsTypeOK ==
    /\ OpenID4xTypeOK
    /\ pc \in [Requests -> {"new", "starting", "action", "progress", "end", "untrack", "done"}]
    /\ req \in [Requests -> [method : {"none", "start", "action", "progress", "end",
                                       "cancel", "method"},
                             flow : FlowIds \cup {None}, type : FlowKinds \cup {None}]]
    /\ owner \in [Requests -> Profiles \cup {None}]
    /\ answer \in [Requests -> {"none", "app", "profile", "refused", "started", "ended",
                                "cancelled", "not found"} \cup FlowKinds]
    /\ alone \in [Requests -> BOOLEAN]

FlowsInv == RegistryInv /\ RequestsTypeOK /\ ServingInv /\ StageInv /\ StartedInv /\ EndedInv
Inv == FlowsInv /\ MlsInv

\* The invariant holds before the profiles are registered.
LEMMA ProfilesInit == Init => Inv
<1> SUFFICES ASSUME Init PROVE Inv
  OBVIOUS
<1> USE DEF Init, RegistryInit, OpenID4xInit, NoopMLSInit
<1>1. RegistryInv
  BY DEF RegistryInv, RegistryTypeOK, AcceptedServesItsClaims
<1>2. RequestsTypeOK
  BY DEF RequestsTypeOK, OpenID4xTypeOK, NoReq
<1>3. ServingInv /\ StageInv /\ StartedInv /\ EndedInv
  BY DEF ServingInv, StageInv, StageOk, StartedInv, StartedOk, EndedInv, EndedOk
<1>4. DOMAIN groups = {} /\ answered = <<>>
  OBVIOUS
<1>5. MlsInv
  BY <1>4, FS_EmptySet DEF MlsInv, NoopMLSTypeOK, GroupInv
<1>6. QED
  BY <1>1, <1>2, <1>3, <1>5 DEF Inv, FlowsInv

\* A request that comes in changes nothing about the others, nor anything that
\* they rely on: its own flow was None, which is nobody's.
LEMMA Arriving ==
  ASSUME FlowsInv, NEW r \in Requests, NEW method, NEW f, NEW t, Arrives(r, method, f, t)
  PROVE  /\ pc[r] = "new" /\ Serving /\ ~alone[r] /\ answer[r] = "none"
         /\ req'[r].method = method /\ req'[r].flow = f /\ req'[r].type = t
         /\ \A s \in Requests : s # r => req'[s] = req[s]
         /\ \A s \in Requests : s # r /\ req[s].flow \in FlowIds /\ Undisturbed(s)' =>
              Undisturbed(s)
<1>1. /\ pc[r] = "new" /\ Serving
      /\ req' = [req EXCEPT ![r] = [method |-> method, flow |-> f, type |-> t]]
  BY DEF Arrives
<1>2. req[r] = NoReq /\ ~alone[r] /\ answer[r] = "none"
  BY <1>1 DEF FlowsInv, ServingInv, RequestsTypeOK
<1>3. req[r].flow = None
  BY <1>2 DEF NoReq
<1>4. req'[r].method = method /\ req'[r].flow = f /\ req'[r].type = t
  BY <1>1 DEF FlowsInv, RequestsTypeOK
<1>5. \A s \in Requests : s # r => req'[s] = req[s]
  BY <1>1 DEF FlowsInv, RequestsTypeOK
<1>6. ASSUME NEW s \in Requests, s # r, req[s].flow \in FlowIds, Undisturbed(s)'
      PROVE  Undisturbed(s)
  BY <1>3, <1>5, <1>6, RegistryConstantsAssumption DEF Undisturbed
<1>7. QED
  BY <1>1, <1>2, <1>4, <1>5, <1>6

\* A started flow stays served by a step that leaves it alone.
LEMMA KeepStarted ==
  ASSUME FlowsInv, NEW s \in Requests, req'[s] = req[s], owner'[s] = owner[s],
         pc'[s] = "starting" => pc[s] = "starting",
         answer'[s] = "started" => answer[s] = "started",
         req[s].flow \in FlowIds /\ Undisturbed(s)' =>
            /\ Undisturbed(s)
            /\ flowTypes'[req[s].flow] = flowTypes[req[s].flow]
            /\ flowOwners'[req[s].flow] = flowOwners[req[s].flow]
  PROVE  StartedOk(s)'
<1> SUFFICES ASSUME pc'[s] = "starting" \/ answer'[s] = "started", owner'[s] = openid,
                    Undisturbed(s)'
             PROVE  /\ flowTypes'[req'[s].flow] = req'[s].type
                    /\ answer'[s] = "started" => flowOwners'[req'[s].flow] = openid
  BY DEF StartedOk
<1>1. req[s].flow \in FlowIds
  BY DEF FlowsInv, StageInv, StageOk
<1>2. StartedOk(s)
  BY DEF FlowsInv, StartedInv
<1>3. QED
  BY <1>1, <1>2 DEF StartedOk

\* An ended flow stays forgotten by a step that enters nothing under its id.
LEMMA KeepEnded ==
  ASSUME FlowsInv, NEW e \in Requests, req'[e] = req[e], owner'[e] = owner[e],
         alone'[e] => alone[e], pc'[e] \in {"untrack", "done"} => pc'[e] = pc[e],
         answer'[e] = answer[e],
         alone'[e] /\ req[e].flow \in FlowIds =>
            /\ flowTypes[req[e].flow] = None => flowTypes'[req[e].flow] = None
            /\ flowOwners[req[e].flow] = None => flowOwners'[req[e].flow] = None
            /\ \A s \in Requests : pc'[s] = "starting" =>
                 (pc[s] = "starting" /\ req'[s] = req[s]) \/ req'[s].flow # req[e].flow
  PROVE  EndedOk(e)'
<1> SUFFICES ASSUME alone'[e] PROVE EndedOk(e)'
  BY DEF EndedOk
<1>1. EndedOk(e) /\ alone[e]
  BY DEF FlowsInv, EndedInv
<1>2. QED
  BY <1>1 DEF EndedOk

\* Each step of a flow method keeps the part of the invariant that is about
\* flows.
LEMMA FlowsStep ==
  ASSUME FlowsInv, [Next]_vars
  PROVE  FlowsInv'
<1> USE RegistryConstantsAssumption, ProfilesConstantsAssumption DEF FlowsInv
<1>1. ASSUME Register PROVE FlowsInv'
  <2>1. RegistryInv'
    BY <1>1, UseKeeps DEF Register
  <2>2. ~Serving /\ UNCHANGED <<flowTypes, requestVars, flowOwners>>
    BY <1>1 DEF Register, Use, Serving
  <2>3. \A r \in Requests : pc[r] = "new" /\ answer[r] = "none" /\ ~alone[r]
    BY <2>2 DEF ServingInv, RequestsTypeOK
  <2>4. QED
    BY <2>1, <2>2, <2>3 DEF RequestsTypeOK, OpenID4xTypeOK, ServingInv, StageInv, StageOk, StartedInv,
       StartedOk, EndedInv, EndedOk, requestVars
<1>2. ASSUME NEW r \in Requests, Settle(r) PROVE FlowsInv'
  <2>1. PICK method \in {"start", "action", "progress", "end", "cancel", "method"},
             f \in FlowIds \cup {None}, t \in FlowKinds \cup {None} : Arrives(r, method, f, t)
    BY <1>2 DEF Settle
  <2>2. PICK a \in {"app", "profile", "refused", "not found"} :
             pc' = [pc EXCEPT ![r] = "done"] /\ answer' = [answer EXCEPT ![r] = a]
    BY <1>2 DEF Settle, Goto
  <2>3. UNCHANGED <<registryVars, flowOwners, flowTypes, owner, alone>>
    BY <1>2 DEF Settle
  <2>4. /\ ~alone[r] /\ pc'[r] = "done" /\ answer'[r] = a /\ Serving
        /\ \A s \in Requests : s # r => req'[s] = req[s] /\ pc'[s] = pc[s] /\ answer'[s] = answer[s]
    <3>1. ~alone[r] /\ Serving /\ \A s \in Requests : s # r => req'[s] = req[s]
      BY <2>1, Arriving
    <3>2. QED
      BY <2>2, <3>1 DEF RequestsTypeOK
  <2>5. RegistryInv'
    BY <2>3 DEF RegistryInv, RegistryTypeOK, AcceptedServesItsClaims, registryVars
  <2>6. RequestsTypeOK'
    <3>1. req' \in [Requests -> [method : {"none", "start", "action", "progress", "end",
                                          "cancel", "method"},
                                flow : FlowIds \cup {None}, type : FlowKinds \cup {None}]]
      BY <2>1 DEF Arrives, RequestsTypeOK
    <3>2. QED
      BY <2>2, <2>3, <3>1 DEF RequestsTypeOK, OpenID4xTypeOK
  <2>7. ServingInv' /\ StageInv'
    <3>1. (Serving => Serving') /\ UNCHANGED <<handlers, owner, alone>>
      BY <2>3 DEF Serving, registryVars
    <3>2. a \notin {"none", "started", "ended"}
      OBVIOUS
    <3>3. ServingInv'
      BY <2>4, <3>1, <3>2 DEF ServingInv
    <3>4. ASSUME NEW s \in Requests PROVE StageOk(s)'
      <4>1. CASE s = r
        BY <2>4, <3>2, <4>1 DEF StageOk
      <4>2. CASE s # r
        BY <2>4, <3>1, <4>2 DEF StageInv, StageOk
      <4>3. QED
        BY <4>1, <4>2
    <3>5. QED
      BY <3>3, <3>4 DEF StageInv
  <2>8. ASSUME NEW s \in Requests PROVE StartedOk(s)'
    <3>1. CASE s = r
      BY <2>2, <2>4, <3>1 DEF StartedOk
    <3>2. CASE s # r
      BY <2>1, <2>3, <2>4, <3>2, Arriving, KeepStarted
    <3>3. QED
      BY <3>1, <3>2
  <2>9. ASSUME NEW e \in Requests PROVE EndedOk(e)'
    <3>1. CASE e = r
      BY <2>3, <2>4, <3>1 DEF EndedOk
    <3>2. CASE e # r
      <4>1. \A s \in Requests : pc'[s] = "starting" => pc[s] = "starting" /\ req'[s] = req[s]
        BY <2>4
      <4>2. QED
        BY <2>3, <2>4, <3>2, <4>1, KeepEnded
    <3>3. QED
      BY <3>1, <3>2
  <2>10. QED
    BY <2>5, <2>6, <2>7, <2>8, <2>9 DEF StartedInv, EndedInv
<1>3. ASSUME NEW r \in Requests, NEW f \in FlowIds, NEW t \in FlowKinds,
             FlowStartOpenID4x(r, f, t) \/ FlowStartRival(r, f, t)
      PROVE  FlowsInv'
  <2>1. /\ Arrives(r, "start", f, t)
        /\ pc' = [pc EXCEPT ![r] = "starting"] /\ answer' = [answer EXCEPT ![r] = "none"]
        /\ alone' = [e \in Requests |-> alone[e] /\ req[e].flow # f]
        /\ UNCHANGED <<registryVars, flowOwners>>
    BY <1>3 DEF FlowStartOpenID4x, FlowStartRival, Goto, profileVars
  <2>2. PICK p \in {openid, rival} :
          /\ handlers[t] = p /\ owner' = [owner EXCEPT ![r] = p]
          /\ flowTypes' = IF p = openid THEN [flowTypes EXCEPT ![f] = t] ELSE flowTypes
    BY <1>3 DEF FlowStartOpenID4x, FlowStartRival, StartFlow, profileVars
  <2>3. /\ ~alone[r] /\ pc'[r] = "starting" /\ answer'[r] = "none" /\ Serving
        /\ owner'[r] = p /\ ~alone'[r]
        /\ req'[r].method = "start" /\ req'[r].flow = f /\ req'[r].type = t
        /\ \A s \in Requests : s # r =>
             /\ req'[s] = req[s] /\ pc'[s] = pc[s] /\ answer'[s] = answer[s]
             /\ owner'[s] = owner[s] /\ (alone'[s] => alone[s] /\ req[s].flow # f)
    <3>1. /\ ~alone[r] /\ Serving /\ \A s \in Requests : s # r => req'[s] = req[s]
          /\ req'[r].method = "start" /\ req'[r].flow = f /\ req'[r].type = t
      BY <2>1, Arriving
    <3>2. /\ pc'[r] = "starting" /\ answer'[r] = "none" /\ owner'[r] = p
          /\ \A s \in Requests : s # r =>
               pc'[s] = pc[s] /\ answer'[s] = answer[s] /\ owner'[s] = owner[s]
      BY <2>1, <2>2 DEF RequestsTypeOK
    <3>3. \A s \in Requests : alone'[s] => alone[s] /\ req[s].flow # f
      BY <2>1
    <3>4. QED
      BY <3>1, <3>2, <3>3
  <2>4. RegistryInv'
    BY <2>1 DEF RegistryInv, RegistryTypeOK, AcceptedServesItsClaims, registryVars
  <2>5. RequestsTypeOK'
    <3>1. req' \in [Requests -> [method : {"none", "start", "action", "progress", "end",
                                          "cancel", "method"},
                                flow : FlowIds \cup {None}, type : FlowKinds \cup {None}]]
      BY <2>1 DEF Arrives, RequestsTypeOK
    <3>2. flowTypes' \in [FlowIds -> {VCI, VP, None}]
      BY <2>2 DEF RequestsTypeOK, OpenID4xTypeOK, FlowKinds
    <3>3. alone' \in [Requests -> BOOLEAN]
      BY <2>1
    <3>4. QED
      BY <2>1, <2>2, <3>1, <3>2, <3>3 DEF RequestsTypeOK, OpenID4xTypeOK
  <2>6. ServingInv' /\ StageInv'
    BY <2>1, <2>2, <2>3 DEF ServingInv, Serving, StageInv, StageOk, registryVars
  <2>7. ASSUME NEW s \in Requests PROVE StartedOk(s)'
    <3>1. CASE s = r
      BY <2>2, <2>3, <3>1 DEF StartedOk, RequestsTypeOK, OpenID4xTypeOK
    <3>2. CASE s # r /\ ~(p = openid /\ req[s].flow = f)
      <4>1. req[s].flow \in FlowIds => flowTypes'[req[s].flow] = flowTypes[req[s].flow]
        BY <2>2, <3>2 DEF RequestsTypeOK, OpenID4xTypeOK
      <4>2. QED
        BY <2>1, <2>3, <3>2, <4>1, Arriving, KeepStarted
    <3>3. CASE s # r /\ p = openid /\ req[s].flow = f
      <4> SUFFICES ASSUME pc'[s] = "starting" \/ answer'[s] = "started", owner'[s] = openid,
                          Undisturbed(s)'
                   PROVE  /\ flowTypes'[req'[s].flow] = req'[s].type
                          /\ answer'[s] = "started" => flowOwners'[req'[s].flow] = openid
        BY DEF StartedOk
      <4>1. req[s].type = t
        BY <2>3, <3>3 DEF Undisturbed
      <4>2. flowTypes'[f] = t
        BY <2>2, <3>3 DEF RequestsTypeOK, OpenID4xTypeOK
      <4>3. Undisturbed(s)
        BY <2>1, <3>3, Arriving
      <4>4. StartedOk(s)
        BY DEF StartedInv
      <4>5. QED
        BY <2>1, <2>3, <3>3, <4>1, <4>2, <4>3, <4>4 DEF StartedOk
    <3>4. QED
      BY <3>1, <3>2, <3>3
  <2>8. ASSUME NEW e \in Requests PROVE EndedOk(e)'
    <3>1. CASE e = r
      BY <2>3, <3>1 DEF EndedOk
    <3>2. CASE e # r
      <4> SUFFICES ASSUME alone'[e] PROVE EndedOk(e)'
        BY DEF EndedOk
      <4>1. req[e].flow \in FlowIds => flowTypes'[req[e].flow] = flowTypes[req[e].flow]
        BY <2>2, <2>3, <3>2 DEF RequestsTypeOK, OpenID4xTypeOK
      <4>2. \A s \in Requests : pc'[s] = "starting" =>
              (pc[s] = "starting" /\ req'[s] = req[s]) \/ req'[s].flow # req[e].flow
        BY <2>3, <3>2
      <4>3. QED
        BY <2>1, <2>3, <3>2, <4>1, <4>2, KeepEnded
    <3>3. QED
      BY <3>1, <3>2
  <2>9. QED
    BY <2>4, <2>5, <2>6, <2>7, <2>8 DEF StartedInv, EndedInv
<1>4. ASSUME NEW r \in Requests, FlowStarted(r) PROVE FlowsInv'
  <2>1. /\ pc[r] = "starting" /\ req[r].flow \in FlowIds
        /\ flowOwners' = [flowOwners EXCEPT ![req[r].flow] = owner[r]]
        /\ pc' = [pc EXCEPT ![r] = "done"] /\ answer' = [answer EXCEPT ![r] = "started"]
        /\ UNCHANGED <<registryVars, flowTypes, req, owner, alone>>
    BY <1>4 DEF FlowStarted, trackFlow, Goto, StageInv, StageOk
  <2>2. /\ pc'[r] = "done" /\ answer'[r] = "started"
        /\ \A s \in Requests : s # r => pc'[s] = pc[s] /\ answer'[s] = answer[s]
    BY <2>1 DEF RequestsTypeOK
  <2>3. RegistryInv'
    BY <2>1 DEF RegistryInv, RegistryTypeOK, AcceptedServesItsClaims, registryVars, RequestsTypeOK
  <2>4. RequestsTypeOK'
    BY <2>1 DEF RequestsTypeOK, OpenID4xTypeOK
  <2>5. ServingInv' /\ StageInv'
    BY <2>1, <2>2 DEF ServingInv, Serving, StageInv, StageOk, registryVars
  <2>6. ASSUME NEW s \in Requests PROVE StartedOk(s)'
    <3> SUFFICES ASSUME pc'[s] = "starting" \/ answer'[s] = "started", owner[s] = openid,
                        Undisturbed(s)
                 PROVE  /\ flowTypes[req[s].flow] = req[s].type
                        /\ answer'[s] = "started" => flowOwners'[req[s].flow] = openid
      BY <2>1 DEF StartedOk, Undisturbed
    <3>1. pc[s] = "starting" \/ answer[s] = "started"
      BY <2>1, <2>2
    <3>2. /\ flowTypes[req[s].flow] = req[s].type
          /\ answer[s] = "started" => flowOwners[req[s].flow] = openid
      BY <3>1 DEF StartedInv, StartedOk
    <3>3. CASE req[s].flow = req[r].flow
      <4>1. owner[r] = openid
        BY <2>1, <3>1, <3>3 DEF Undisturbed, StageInv, StageOk
      <4>2. flowOwners'[req[s].flow] = openid
        BY <2>1, <3>3, <4>1 DEF RegistryInv, RegistryTypeOK
      <4>3. QED
        BY <3>2, <4>2
    <3>4. CASE req[s].flow # req[r].flow
      <4>1. answer'[s] = answer[s] /\ req[s].flow \in FlowIds
        BY <2>2, <3>1, <3>4 DEF StageInv, StageOk
      <4>2. flowOwners'[req[s].flow] = flowOwners[req[s].flow]
        BY <2>1, <3>4, <4>1 DEF RegistryInv, RegistryTypeOK
      <4>3. QED
        BY <3>2, <4>1, <4>2
    <3>5. QED
      BY <3>3, <3>4
  <2>7. ASSUME NEW e \in Requests PROVE EndedOk(e)'
    <3> SUFFICES ASSUME alone[e] PROVE EndedOk(e)'
      BY <2>1 DEF EndedOk
    <3>1. req[e].flow # req[r].flow /\ e # r /\ req[e].flow \in FlowIds
      BY <2>1 DEF EndedInv, EndedOk
    <3>2. flowOwners'[req[e].flow] = flowOwners[req[e].flow]
      BY <2>1, <3>1 DEF RegistryInv, RegistryTypeOK
    <3>3. \A s \in Requests : pc'[s] = "starting" => pc[s] = "starting"
      BY <2>1, <2>2
    <3>4. QED
      BY <2>1, <2>2, <3>1, <3>2, <3>3, KeepEnded
  <2>8. QED
    BY <2>3, <2>4, <2>5, <2>6, <2>7 DEF StartedInv, EndedInv
<1>5. ASSUME NEW r \in Requests, FlowStartFails(r) \/ FlowAction(r) \/ FlowProgress(r)
      PROVE  FlowsInv'
  <2>1. PICK a \in {"refused", "profile"} \cup FlowKinds : Goto(r, "done", a)
    <3>1. CASE FlowStartFails(r) \/ FlowProgress(r)
      BY <3>1 DEF FlowStartFails, FlowProgress
    <3>2. CASE FlowAction(r)
      <4>1. pc[r] = "action" /\ req[r].flow \in FlowIds
        BY <3>2 DEF FlowAction, StageInv, StageOk
      <4>2. flowTypes[req[r].flow] \in FlowKinds \cup {None}
        BY <4>1 DEF RequestsTypeOK, OpenID4xTypeOK, FlowKinds
      <4>3. QED
        BY <3>2, <4>2 DEF FlowAction, ActionCallback
    <3>3. QED
      BY <1>5, <3>1, <3>2
  <2>2. /\ pc[r] \in {"starting", "action", "progress"}
        /\ pc' = [pc EXCEPT ![r] = "done"] /\ answer' = [answer EXCEPT ![r] = a]
        /\ a \notin {"none", "started", "ended", "cancelled"}
        /\ UNCHANGED <<profileVars, req, owner, alone>>
    BY <1>5, <2>1 DEF FlowStartFails, FlowAction, FlowProgress, Goto, FlowKinds, VCI, VP
  <2>3. /\ pc'[r] = "done" /\ answer'[r] = a /\ answer[r] = "none"
        /\ \A s \in Requests : s # r => pc'[s] = pc[s] /\ answer'[s] = answer[s]
        /\ UNCHANGED <<flowTypes, flowOwners, handlers, used>>
    BY <2>2 DEF RequestsTypeOK, ServingInv, profileVars, registryVars
  <2>4. RegistryInv'
    BY <2>2 DEF RegistryInv, RegistryTypeOK, AcceptedServesItsClaims, profileVars, registryVars
  <2>5. RequestsTypeOK'
    BY <2>1, <2>2 DEF RequestsTypeOK, OpenID4xTypeOK, profileVars
  <2>6. ServingInv' /\ StageInv'
    BY <2>2, <2>3 DEF ServingInv, Serving, StageInv, StageOk
  <2>7. ASSUME NEW s \in Requests PROVE StartedOk(s)'
    <3>1. /\ pc'[s] = "starting" => pc[s] = "starting"
          /\ answer'[s] = "started" => answer[s] = "started"
      BY <2>2, <2>3
    <3>2. Undisturbed(s)' => Undisturbed(s)
      BY <2>2 DEF Undisturbed
    <3>3. QED
      BY <2>2, <2>3, <3>1, <3>2, KeepStarted
  <2>8. ASSUME NEW e \in Requests PROVE EndedOk(e)'
    <3>1. CASE e = r
      <4>1. req[r].method # "end"
        BY <2>2 DEF StageInv, StageOk
      <4>2. \A s \in Requests : pc'[s] = "starting" => pc[s] = "starting"
        BY <2>3
      <4>3. QED
        BY <2>2, <2>3, <3>1, <4>1, <4>2 DEF EndedInv, EndedOk
    <3>2. CASE e # r
      BY <2>2, <2>3, <3>2, KeepEnded
    <3>3. QED
      BY <3>1, <3>2
  <2>9. QED
    BY <2>4, <2>5, <2>6, <2>7, <2>8 DEF StartedInv, EndedInv
<1>6. ASSUME NEW r \in Requests, NEW f \in FlowIds,
             NEW method \in {"action", "progress", "end", "cancel"}, FlowTracked(r, method, f)
      PROVE  FlowsInv'
  <2> DEFINE place == IF method = "cancel" THEN "untrack" ELSE method
             new == [method |-> method, flow |-> f, type |-> None]
  <2>1. /\ Arrives(r, method, f, None)
        /\ req' = [req EXCEPT ![r] = new] /\ owner' = [owner EXCEPT ![r] = flowOwners[f]]
        /\ alone' = [alone EXCEPT ![r] =
                       ~\E s \in Requests : pc[s] = "starting" /\ req[s].flow = f]
        /\ pc' = [pc EXCEPT ![r] = place] /\ answer' = [answer EXCEPT ![r] = "none"]
        /\ UNCHANGED profileVars
    BY <1>6 DEF FlowTracked, Arrives, Goto
  <2>2. /\ new \in [method : {"none", "start", "action", "progress", "end", "cancel", "method"},
                    flow : FlowIds \cup {None}, type : FlowKinds \cup {None}]
        /\ place \in {"action", "progress", "end", "untrack"}
        /\ place = "untrack" => method = "cancel"
        /\ place # "untrack" => method = place
    OBVIOUS
  <2> HIDE DEF place, new
  <2>3. /\ Serving /\ req'[r].method = method /\ req'[r].flow = f
        /\ \A s \in Requests : s # r => req'[s] = req[s]
    BY <2>1, Arriving
  <2>4. /\ pc'[r] = place /\ answer'[r] = "none"
        /\ \A s \in Requests : s # r => /\ pc'[s] = pc[s] /\ owner'[s] = owner[s]
                                       /\ alone'[s] = alone[s] /\ answer'[s] = answer[s]
    BY <2>1 DEF RequestsTypeOK
  <2>5. alone'[r] => ~\E s \in Requests : pc[s] = "starting" /\ req[s].flow = f
    BY <2>1 DEF RequestsTypeOK
  <2>6. UNCHANGED <<flowTypes, flowOwners, handlers, used>>
    BY <2>1 DEF profileVars, registryVars
  <2>7. RegistryInv'
    BY <2>1 DEF RegistryInv, RegistryTypeOK, AcceptedServesItsClaims, profileVars, registryVars
  <2>8. RequestsTypeOK'
    <3>1. flowOwners[f] \in Profiles \cup {None}
      BY DEF RegistryInv, RegistryTypeOK
    <3>2. alone' \in [Requests -> BOOLEAN]
      BY <2>1 DEF RequestsTypeOK
    <3>3. QED
      BY <2>1, <2>2, <2>6, <3>1, <3>2 DEF RequestsTypeOK, OpenID4xTypeOK
  <2>9. ServingInv'
    BY <2>2, <2>3, <2>4, <2>6 DEF ServingInv, Serving
  <2>10. ASSUME NEW s \in Requests PROVE StageOk(s)'
    <3>1. CASE s = r
      BY <2>2, <2>3, <2>4, <3>1 DEF StageOk
    <3>2. CASE s # r
      BY <2>3, <2>4, <2>6, <3>2 DEF StageInv, StageOk
    <3>3. QED
      BY <3>1, <3>2
  <2>11. ASSUME NEW s \in Requests PROVE StartedOk(s)'
    <3>1. CASE s = r
      BY <2>2, <2>4, <3>1 DEF StartedOk
    <3>2. CASE s # r
      BY <2>1, <2>3, <2>4, <2>6, <3>2, Arriving, KeepStarted
    <3>3. QED
      BY <3>1, <3>2
  <2>12. ASSUME NEW e \in Requests PROVE EndedOk(e)'
    <3>1. \A s \in Requests : pc'[s] = "starting" => pc[s] = "starting" /\ req'[s] = req[s]
      BY <2>2, <2>3, <2>4
    <3>2. CASE e = r
      BY <2>2, <2>3, <2>4, <2>5, <3>1, <3>2 DEF EndedOk
    <3>3. CASE e # r
      BY <2>3, <2>4, <2>6, <3>1, <3>3, KeepEnded
    <3>4. QED
      BY <3>2, <3>3
  <2>13. QED
    BY <2>7, <2>8, <2>9, <2>10, <2>11, <2>12 DEF StageInv, StartedInv, EndedInv
<1>7. ASSUME NEW r \in Requests, FlowEnd(r) PROVE FlowsInv'
  <2>1. /\ pc[r] = "end" /\ req[r].flow \in FlowIds /\ req[r].method = "end"
        /\ flowTypes' = IF owner[r] = openid THEN [flowTypes EXCEPT ![req[r].flow] = None]
                        ELSE flowTypes
        /\ pc' = [pc EXCEPT ![r] = "untrack"] /\ answer' = [answer EXCEPT ![r] = "none"]
        /\ UNCHANGED <<registryVars, flowOwners, req, owner, alone>>
    BY <1>7 DEF FlowEnd, HandleEnd, Goto, StageInv, StageOk
  <2>2. /\ pc'[r] = "untrack" /\ answer'[r] = "none" /\ answer[r] = "none"
        /\ \A s \in Requests : s # r => pc'[s] = pc[s] /\ answer'[s] = answer[s]
        /\ UNCHANGED <<handlers, used>>
    BY <2>1 DEF RequestsTypeOK, ServingInv, registryVars
  <2>3. /\ \A f \in FlowIds : flowTypes[f] = None => flowTypes'[f] = None
        /\ \A f \in FlowIds : f # req[r].flow => flowTypes'[f] = flowTypes[f]
        /\ owner[r] = openid => flowTypes'[req[r].flow] = None
    BY <2>1 DEF RequestsTypeOK, OpenID4xTypeOK
  <2>4. RegistryInv'
    BY <2>1 DEF RegistryInv, RegistryTypeOK, AcceptedServesItsClaims, registryVars
  <2>5. RequestsTypeOK'
    BY <2>1 DEF RequestsTypeOK, OpenID4xTypeOK
  <2>6. ServingInv'
    BY <2>1, <2>2 DEF ServingInv, Serving
  <2>7. ASSUME NEW s \in Requests PROVE StageOk(s)'
    <3>1. CASE s = r
      BY <2>1, <2>2, <3>1 DEF StageOk
    <3>2. CASE s # r
      BY <2>1, <2>2, <3>2 DEF StageInv, StageOk
    <3>3. QED
      BY <3>1, <3>2
  <2>8. ASSUME NEW s \in Requests PROVE StartedOk(s)'
    <3>1. CASE s = r
      BY <2>2, <3>1 DEF StartedOk
    <3>2. CASE s # r
      <4>1. Undisturbed(s)' => Undisturbed(s) /\ req[s].flow # req[r].flow
        BY <2>1, <3>2 DEF Undisturbed
      <4>2. QED
        BY <2>1, <2>2, <2>3, <3>2, <4>1, KeepStarted
    <3>3. QED
      BY <3>1, <3>2
  <2>9. ASSUME NEW e \in Requests PROVE EndedOk(e)'
    <3>1. \A s \in Requests : pc'[s] = "starting" => pc[s] = "starting" /\ req'[s] = req[s]
      BY <2>1, <2>2
    <3>2. CASE e = r
      BY <2>1, <2>2, <2>3, <3>1, <3>2 DEF EndedInv, EndedOk
    <3>3. CASE e # r
      BY <2>1, <2>2, <2>3, <3>1, <3>3, KeepEnded
    <3>4. QED
      BY <3>2, <3>3
  <2>10. QED
    BY <2>4, <2>5, <2>6, <2>7, <2>8, <2>9 DEF StageInv, StartedInv, EndedInv
<1>8. ASSUME NEW r \in Requests, FlowUntrack(r) PROVE FlowsInv'
  <2> DEFINE a == IF req[r].method = "end" THEN "ended" ELSE "cancelled"
  <2>1. /\ pc[r] = "untrack" /\ req[r].flow \in FlowIds
        /\ req[r].method \in {"end", "cancel"}
        /\ flowOwners' = [flowOwners EXCEPT ![req[r].flow] = None]
        /\ pc' = [pc EXCEPT ![r] = "done"] /\ answer' = [answer EXCEPT ![r] = a]
        /\ UNCHANGED <<registryVars, flowTypes, req, owner, alone>>
    BY <1>8 DEF FlowUntrack, untrackFlow, Goto, StageInv, StageOk
  <2>2. a \in {"ended", "cancelled"} /\ (a = "ended" => req[r].method = "end")
    OBVIOUS
  <2> HIDE DEF a
  <2>3. /\ pc'[r] = "done" /\ answer'[r] = a /\ UNCHANGED <<handlers, used>>
        /\ \A s \in Requests : s # r => pc'[s] = pc[s] /\ answer'[s] = answer[s]
    BY <2>1 DEF RequestsTypeOK, registryVars
  <2>4. /\ \A f \in FlowIds : flowOwners[f] = None => flowOwners'[f] = None
        /\ \A f \in FlowIds : f # req[r].flow => flowOwners'[f] = flowOwners[f]
        /\ flowOwners'[req[r].flow] = None
    BY <2>1 DEF RegistryInv, RegistryTypeOK
  <2>5. RegistryInv'
    BY <2>1 DEF RegistryInv, RegistryTypeOK, AcceptedServesItsClaims, registryVars
  <2>6. RequestsTypeOK'
    BY <2>1, <2>2 DEF RequestsTypeOK, OpenID4xTypeOK
  <2>7. ServingInv'
    BY <2>1, <2>3 DEF ServingInv, Serving
  <2>8. ASSUME NEW s \in Requests PROVE StageOk(s)'
    <3>1. CASE s = r
      BY <2>1, <2>2, <2>3, <3>1 DEF StageOk
    <3>2. CASE s # r
      BY <2>1, <2>3, <3>2 DEF StageInv, StageOk
    <3>3. QED
      BY <3>1, <3>2
  <2>9. ASSUME NEW s \in Requests PROVE StartedOk(s)'
    <3>1. CASE s = r
      BY <2>2, <2>3, <3>1 DEF StartedOk
    <3>2. CASE s # r
      <4>1. Undisturbed(s)' => Undisturbed(s) /\ req[s].flow # req[r].flow
        BY <2>1, <3>2 DEF Undisturbed
      <4>2. QED
        BY <2>1, <2>3, <2>4, <3>2, <4>1, KeepStarted
    <3>3. QED
      BY <3>1, <3>2
  <2>10. ASSUME NEW e \in Requests PROVE EndedOk(e)'
    <3>1. \A s \in Requests : pc'[s] = "starting" => pc[s] = "starting" /\ req'[s] = req[s]
      BY <2>1, <2>3
    <3>2. CASE e = r
      BY <2>1, <2>3, <2>4, <3>1, <3>2 DEF EndedInv, EndedOk
    <3>3. CASE e # r
      BY <2>1, <2>3, <2>4, <3>1, <3>3, KeepEnded
    <3>4. QED
      BY <3>2, <3>3
  <2>11. QED
    BY <2>5, <2>6, <2>7, <2>8, <2>9, <2>10 DEF StageInv, StartedInv, EndedInv
<1>9. ASSUME UNCHANGED vars PROVE FlowsInv'
  <2>1. UNCHANGED <<claims, handlers, hooks, inited, used, flowOwners, flowTypes>>
    BY <1>9 DEF vars, registryVars
  <2>2. UNCHANGED <<pc, req, owner, answer, alone>>
    BY <1>9 DEF vars
  <2>3. RegistryInv' /\ RequestsTypeOK' /\ ServingInv'
    BY <2>1, <2>2 DEF RegistryInv, RegistryTypeOK, AcceptedServesItsClaims, RequestsTypeOK,
       OpenID4xTypeOK, ServingInv, Serving
  <2>4. StageInv'
    BY <2>1, <2>2 DEF StageInv, StageOk
  <2>5. StartedInv'
    BY <2>1, <2>2 DEF StartedInv, StartedOk, Undisturbed
  <2>6. EndedInv'
    BY <2>1, <2>2 DEF EndedInv, EndedOk
  <2>7. QED
    BY <2>3, <2>4, <2>5, <2>6
<1>10. QED
  BY NextCases, <1>1, <1>2, <1>3, <1>4, <1>5, <1>6, <1>7, <1>8, <1>9

\* Every step keeps the whole invariant.
LEMMA ProfilesStep ==
  ASSUME Inv, [Next]_vars
  PROVE  Inv'
<1>1. FlowsInv'
  BY FlowsStep DEF Inv
<1>2. \/ UNCHANGED mlsVars
      \/ \E r \in Requests : MlsStep(r)
  BY NextCases DEF Register, FlowStartOpenID4x, FlowStartRival, FlowStarted, FlowStartFails,
     FlowTracked, FlowAction, FlowProgress, FlowEnd, FlowUntrack, profileVars, vars
<1>3. CASE UNCHANGED mlsVars
  BY <1>1, <1>3 DEF Inv, mlsVars, MlsInv, NoopMLSTypeOK, GroupInv, LastIn
<1>4. CASE \E r \in Requests : MlsStep(r)
  BY <1>1, <1>4, MlsKeeps DEF Inv
<1>5. QED
  BY <1>2, <1>3, <1>4

\* Inv is an invariant of the specification.
LEMMA ProfilesInductive == Spec => []Inv
  BY ProfilesInit, ProfilesStep, PTL DEF Spec

-----------------------------------------------------------------------------
(* Theorems *)

\* The state of the registry, the two profiles and the requests keeps its types.
THEOREM ProfilesTyping == Spec => []TypeOK
<1>1. Inv => TypeOK
  BY DEF Inv, FlowsInv, RegistryInv, RequestsTypeOK, MlsInv, TypeOK
<1>2. QED
  BY <1>1, ProfilesInductive, PTL

\* A profile that Use has accepted serves every key it lists, for any listings
\* of the profiles and whatever else is registered before and after it
\* (registry.go 30-91, peer.go 99-122).
THEOREM AcceptedServes == Spec => []AcceptedServesItsClaims
<1>1. Inv => AcceptedServesItsClaims
  BY DEF Inv, FlowsInv, RegistryInv
<1>2. QED
  BY <1>1, ProfilesInductive, PTL

\* A flow that the OpenID4x profile has started keeps its owner and its type as
\* long as nothing but actions, progress and starts of the same type comes in
\* for it, for any number of concurrent requests (peer.go 405-418, openid4x.go
\* 323-367).
THEOREM StartedServed == Spec => []StartedFlowIsServed
<1>1. ASSUME Inv PROVE StartedFlowIsServed
  <2> SUFFICES ASSUME NEW s \in Requests, answer[s] = "started", owner[s] = openid,
                      \A r \in {r \in Requests : req[r].flow = req[s].flow /\ r # s} :
                         \/ req[r].method \in {"action", "progress"}
                         \/ req[r].method = "start" /\ req[r].type = req[s].type
               PROVE  flowOwners[req[s].flow] = openid /\ flowTypes[req[s].flow] = req[s].type
    BY DEF StartedFlowIsServed
  <2>1. Undisturbed(s)
    BY DEF Undisturbed
  <2>2. StartedOk(s)
    BY <1>1 DEF Inv, FlowsInv, StartedInv
  <2>3. QED
    BY <2>1, <2>2 DEF StartedOk
<1>2. QED
  BY <1>1, ProfilesInductive, PTL

\* After an end that no start of the same id has met, the registry and the
\* profile have forgotten the flow, and after such a cancel the registry has,
\* for any number of concurrent requests (peer.go 442-477, openid4x.go 395-405).
THEOREM EndedForgotten == Spec => []EndedFlowForgotten
<1>1. ASSUME Inv PROVE EndedFlowForgotten
  <2> SUFFICES ASSUME NEW e \in Requests, alone[e]
               PROVE  /\ answer[e] \in {"ended", "cancelled"} => flowOwners[req[e].flow] = None
                      /\ answer[e] = "ended" /\ owner[e] = openid =>
                           flowTypes[req[e].flow] = None
    BY DEF EndedFlowForgotten
  <2>1. EndedOk(e) /\ StageOk(e)
    BY <1>1 DEF Inv, FlowsInv, EndedInv, StageInv
  <2>2. answer[e] = "ended" => pc[e] = "done"
    BY <1>1 DEF Inv, FlowsInv, ServingInv
  <2>3. QED
    BY <2>1, <2>2 DEF EndedOk, StageOk
<1>2. QED
  BY <1>1, ProfilesInductive, PTL

\* The only group has the members that were last let in, and the answers have
\* counted its epochs, for any number of members and changes (noop.go 84-120).
THEOREM OneGroup == Spec => []OneGroupAsAnswered
<1>1. ASSUME Inv PROVE OneGroupAsAnswered
  <2> SUFFICES ASSUME Cardinality(DOMAIN groups) = 1, NEW g \in DOMAIN groups
               PROVE  /\ groups[g].members = {m \in Members : LastIn(m)}
                      /\ \A i \in DOMAIN answered : answered[i].epoch = i - 1
    BY DEF OneGroupAsAnswered
  <2>1. MlsInv /\ IsFiniteSet(DOMAIN groups)
    BY <1>1 DEF Inv, MlsInv, GroupInv
  <2>2. DOMAIN groups = {g}
    BY <2>1, FS_Singleton
  <2>3. g \in GroupIds /\ DOMAIN answered = 1 .. Len(answered)
    BY <2>1 DEF MlsInv, NoopMLSTypeOK
  <2>4. QED
    BY <2>1, <2>2, <2>3 DEF MlsInv, GroupInv
<1>2. QED
  BY <1>1, ProfilesInductive, PTL
=============================================================================
