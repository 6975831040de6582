------------------------------ MODULE NoopMLS ------------------------------
(* The MLS profile with the handler for TLS-only sessions                     *)
(* (src/pkg/wmp/mls/noop.go 20-130, mls.go 256-326). Each method runs under   *)
(* the handler's mutex and is one step. GroupAdd and GroupRemove name no      *)
(* group: they change the one that ranging over the map yields first.         *)
EXTENDS Naturals, Sequences, FiniteSets

CONSTANTS
    GroupIds,       \* the ids that may be asked for
    NoGroupId,      \* the empty id, one of GroupIds
    Members         \* the participants

VARIABLES
    groups,     \* groups[g]: its epoch and members
    answered    \* the changes that were answered with success, in order

mlsVars == <<groups, answered>>

MlsMethods == <<"mls.create", "mls.join", "mls.add", "mls.remove", "mls.update",
                "message.fetch">>

NoopMLSTypeOK ==
    /\ DOMAIN groups \subseteq GroupIds
    /\ \A g \in DOMAIN groups : groups[g] \in [epoch : Nat, members : SUBSET Members]
    /\ answered \in Seq([op : {"in", "out"}, who : SUBSET Members, epoch : Nat])

NoopMLSInit == groups = <<>> /\ answered = <<>>

Answer(op, who, epoch) ==
    answered' = Append(answered, [op |-> op, who |-> who, epoch |-> epoch])

\* GroupCreate with the participants of its welcomes and its sender.
GroupCreateOk(g, who) ==
    /\ g # NoGroupId /\ g \notin DOMAIN groups
    /\ groups' = [h \in DOMAIN groups \cup {g} |->
                     IF h = g THEN [epoch |-> 0, members |-> who] ELSE groups[h]]
    /\ Answer("in", who, 0)

\* GroupCreate without an id, or for a group that exists.
GroupCreateErr(g) ==
    /\ g = NoGroupId \/ g \in DOMAIN groups
    /\ UNCHANGED mlsVars

\* A change of some group g, which gets a new epoch.
Change(g, op, who, members) ==
    /\ groups' = [groups EXCEPT ![g] = [epoch |-> @.epoch + 1, members |-> members]]
    /\ Answer(op, who, groups[g].epoch + 1)

\* GroupAdd; the participant may be left empty.
GroupAdd(g, who) == Change(g, "in", who, groups[g].members \cup who)

\* A defect: the participant stays.
GroupRemoveKeeps(g, who) == Change(g, "out", who, groups[g].members)

\* GroupRemove.
GroupRemove(g, who) == Change(g, "out", who, groups[g].members \ who)

\* GroupJoin, GroupUpdate and MessageFetch, which answer without a look at the
\* state, and GroupAdd and GroupRemove while there is no group, which fail.
NoEffect == UNCHANGED mlsVars

-----------------------------------------------------------------------------
(* Properties *)

\* The last answer that named m let it in.
LastIn(m) ==
    \E i \in DOMAIN answered :
        /\ m \in answered[i].who /\ answered[i].op = "in"
        /\ \A j \in i + 1 .. Len(answered) : m \notin answered[j].who

\* As long as there is one group, it is what the answers say, though adding and
\* removing name no group (noop.go 84-120): its members are those that were
\* last let in, and each answer reports the next epoch. The success of GroupJoin
\* (76-82) enters nobody and is not among the answers: it is in NoEffect.
OneGroupAsAnswered ==
    Cardinality(DOMAIN groups) = 1 =>
        \A g \in DOMAIN groups :
            /\ groups[g].members = {m \in Members : LastIn(m)}
            /\ \A i \in DOMAIN answered : answered[i].epoch = i - 1
=============================================================================
