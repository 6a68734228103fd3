--------------------------- MODULE NodeQueries_proofs ---------------------------
(***************************************************************************)
(* What the queries answer is true of the participants that were there     *)
(* throughout the call, for any participants, names and endpoints.         *)
(*                                                                         *)
(* The loop invariant of all three queries is NothingSkipped: a            *)
(* participant that has been there since the call began has a handle that  *)
(* is still to be looked up, or has been dealt with.                       *)
(***************************************************************************)
EXTENDS NodeQueries, TLAPS

\* Who was there throughout is there now, and who is there now was there at some moment.
HistoryCorrect ==
    /\ steady \subseteq table \cup {Self}
    /\ table \subseteq seen
    /\ pc # "idle" => Self \in seen

\* A handle without its participant is left only by one that departed.
HandlesCurrent == pc = "visit" /\ ~departed => handles \subseteq table

\* What a query does with a participant that it looks up, or fails to.
DealtWith(p) ==
    IF query = "by_node" THEN NameOf[p] # asked \/ p \in unread
    ELSE p \in named \/ NameOf[p] = NoName \/ p \in unread

\* Only get_names passes over participants other than the node itself, whose own name it
\* knows without asking.
PassedOver ==
    /\ query = "by_node" => unread \subseteq {Self}
    /\ query = "info" => unread = {}
    /\ query = "names" /\ pc # "idle" => Self \in named

NothingSkipped ==
    /\ pc \in {"get_handles", "visit"} => DealtWith(Self)
    /\ pc = "visit" => \A p \in steady \ {Self} : p \in handles \/ DealtWith(p)
    /\ pc \in {"pointers", "copy"} => query = "info" /\ \A p \in steady : DealtWith(p)

\* Between get_key and the end of the call the key is that of a node of the name.
KeyFound == pc = "read_cache" => query = "by_node" /\ key \in seen /\ NameOf[key] = asked

NamedSeen == query = "names" /\ pc # "idle" => named \subseteq seen

\* Every label written so far is right, or of an entry that was erased.
LabelsRight ==
    query = "info" => \A e \in Endpoint \ dangling : \A n \in Name \cup {Unknown} :
        <<e, n>> \in answer =>
            \/ n = NameOf[OwnerOf[e]]
            \/ n = Unknown /\ OwnerOf[e] \notin steady

Loops ==
    HistoryCorrect /\ HandlesCurrent /\ NothingSkipped /\ PassedOver /\ KeyFound /\ NamedSeen

Answers ==
    AbsentMeansAbsent /\ AnswerIsOfTheNode /\ NamesComplete /\ ErrorMeansLeft /\ LabelsRight

IInv == TypeOK /\ Loops /\ Answers

USE SelfAssumption, NoNameAssumption, NameOfType, OwnerOfType
    DEF Known, Query, Unknown, domainVars, localVars, historyVars

-------------------------------------------------------------------------------
\* Before the first call.
LEMMA InitEstablishes == Init => IInv
  BY DEF Init, IInv, TypeOK, Loops, HistoryCorrect, HandlesCurrent, NothingSkipped, PassedOver,
         KeyFound, NamedSeen, Answers, AbsentMeansAbsent, AnswerIsOfTheNode, NamesComplete,
         ErrorMeansLeft, LabelsRight, Done

\* Whatever the domain does in the middle of a call, what the call knows stays right of
\* those that are still there.
LEMMA DomainKeeps ==
  ASSUME IInv,
         \/ \E p \in Participant : Discover(p) \/ Leave(p)
         \/ \E e \in Endpoint : Add(e) \/ Remove(e)
  PROVE  IInv'
<1> USE DEF IInv, TypeOK, Loops, HistoryCorrect, HandlesCurrent, NothingSkipped, PassedOver,
         KeyFound, NamedSeen, Answers, AbsentMeansAbsent, AnswerIsOfTheNode, NamesComplete,
         ErrorMeansLeft, LabelsRight, Done, DealtWith
<1>1. ASSUME NEW p \in Participant, Discover(p) PROVE IInv'
  BY <1>1 DEF Discover
<1>2. ASSUME NEW p \in Participant, Leave(p) PROVE IInv'
  BY <1>2 DEF Leave
<1>3. ASSUME NEW e \in Endpoint, Add(e) PROVE IInv'
  BY <1>3 DEF Add
<1>4. ASSUME NEW e \in Endpoint, Remove(e) PROVE IInv'
  BY <1>4 DEF Remove
<1> QED
  BY <1>1, <1>2, <1>3, <1>4

\* A call starts with the node itself dealt with.
LEMMA CallKeeps ==
  ASSUME IInv, CallNames \/ CallInfo \/ \E n \in Name : CallByNode(n)
  PROVE  IInv'
<1> USE DEF IInv, TypeOK, Loops, HistoryCorrect, HandlesCurrent, NothingSkipped, PassedOver,
         KeyFound, NamedSeen, Answers, AbsentMeansAbsent, AnswerIsOfTheNode, NamesComplete,
         ErrorMeansLeft, LabelsRight, Done, DealtWith, Call
<1>1. CASE CallNames
  BY <1>1 DEF CallNames
<1>2. CASE CallInfo
  BY <1>2 DEF CallInfo
<1>3. ASSUME NEW n \in Name, CallByNode(n) PROVE IInv'
  BY <1>3 DEF CallByNode
<1> QED
  BY <1>1, <1>2, <1>3

\* The loop over the handles: each step deals with the participant it looks up.
LEMMA LoopKeeps ==
  ASSUME IInv,
         \/ GetHandles \/ AllVisited
         \/ \E p \in Participant : VisitByNode(p) \/ VisitNames(p) \/ VisitInfo(p)
  PROVE  IInv'
<1> USE DEF IInv, TypeOK, Loops, HistoryCorrect, HandlesCurrent, NothingSkipped, PassedOver,
         KeyFound, NamedSeen, Answers, AbsentMeansAbsent, AnswerIsOfTheNode, NamesComplete,
         ErrorMeansLeft, LabelsRight, Done, DealtWith, Visit, Return
<1>1. CASE GetHandles
  BY <1>1 DEF GetHandles
<1>2. CASE AllVisited
  <2>1. \A p \in steady : DealtWith(p)
    BY <1>2 DEF AllVisited
  <2>2. CASE query = "by_node"
    BY <1>2, <2>1, <2>2 DEF AllVisited
  <2>3. CASE query = "names"
    BY <1>2, <2>1, <2>3 DEF AllVisited
  <2>4. CASE query = "info"
    BY <1>2, <2>1, <2>4 DEF AllVisited
  <2> QED
    BY <2>2, <2>3, <2>4
<1>3. ASSUME NEW p \in Participant, VisitByNode(p) PROVE IInv'
  BY <1>3 DEF VisitByNode
<1>4. ASSUME NEW p \in Participant, VisitNames(p) PROVE IInv'
  BY <1>4 DEF VisitNames, ReadName, HasName
<1>5. ASSUME NEW p \in Participant, VisitInfo(p) PROVE IInv'
  BY <1>5 DEF VisitInfo
<1> QED
  BY <1>1, <1>2, <1>3, <1>4, <1>5

\* Reading the cache, copying from it, and failing.
LEMMA EndKeeps ==
  ASSUME IInv,
         \/ ReadCache \/ TakePointers \/ AllCopied \/ Fail
         \/ \E e \in Endpoint : Copy(e)
  PROVE  IInv'
<1> USE DEF IInv, TypeOK, Loops, HistoryCorrect, HandlesCurrent, NothingSkipped, PassedOver,
         KeyFound, NamedSeen, Answers, AbsentMeansAbsent, AnswerIsOfTheNode, NamesComplete,
         ErrorMeansLeft, LabelsRight, Done, DealtWith, Return
<1>1. CASE ReadCache
  BY <1>1 DEF ReadCache
<1>2. CASE TakePointers
  BY <1>2 DEF TakePointers
<1>3. CASE AllCopied
  BY <1>3 DEF AllCopied
<1>4. CASE Fail
  BY <1>4 DEF Fail
<1>5. ASSUME NEW e \in Endpoint, Copy(e) PROVE IInv'
  BY <1>5 DEF Copy, Label
<1> QED
  BY <1>1, <1>2, <1>3, <1>4, <1>5

-------------------------------------------------------------------------------
\* The invariant holds in every state.
THEOREM Invariance == Spec => []IInv
<1>1. ASSUME IInv, [Next]_vars PROVE IInv'
  <2>1. CASE UNCHANGED vars
    BY <1>1, <2>1 DEF vars, IInv, TypeOK, Loops, HistoryCorrect, HandlesCurrent,
         NothingSkipped, PassedOver, KeyFound, NamedSeen, Answers, AbsentMeansAbsent,
         AnswerIsOfTheNode, NamesComplete, ErrorMeansLeft, LabelsRight, Done, DealtWith
  <2>2. CASE Next
    BY <1>1, <2>2, DomainKeeps, CallKeeps, LoopKeeps, EndKeeps DEF Next
  <2> QED
    BY <1>1, <2>1, <2>2
<1> QED
  BY <1>1, InitEstablishes, PTL DEF Spec

\* Every variable keeps its type.
THEOREM TypeCorrect == Spec => []TypeOK
<1>1. IInv => TypeOK
  BY DEF IInv
<1> QED
  BY <1>1, Invariance, PTL

\* get_key denies the existence only of a node that was not there throughout the call, or of
\* the node itself when OpenDDS failed to give its own data.
THEOREM AbsentAlwaysMeansAbsent == Spec => []AbsentMeansAbsent
<1>1. IInv => AbsentMeansAbsent
  BY DEF IInv, Answers
<1> QED
  BY <1>1, Invariance, PTL

\* A query for a node answers with the endpoints of a node of that name.
THEOREM AnswerAlwaysOfTheNode == Spec => []AnswerIsOfTheNode
<1>1. IInv => AnswerIsOfTheNode
  BY DEF IInv, Answers
<1> QED
  BY <1>1, Invariance, PTL

\* get_names lists every named node that was there throughout the call and whose data
\* OpenDDS gave.
THEOREM NamesAlwaysComplete == Spec => []NamesComplete
<1>1. IInv => NamesComplete
  BY DEF IInv, Answers
<1> QED
  BY <1>1, Invariance, PTL

\* Only a participant that leaves makes a query fail.
THEOREM ErrorAlwaysMeansLeft == Spec => []ErrorMeansLeft
<1>1. IInv => ErrorMeansLeft
  BY DEF IInv, Answers
<1> QED
  BY <1>1, Invariance, PTL

\* Endpoint info carries the name of the endpoint's node.
THEOREM InfoAlwaysNamesOwner == Spec => []InfoNamesOwner
<1>1. IInv => InfoNamesOwner
  BY DEF IInv, Answers, LabelsRight, InfoNamesOwner, Done
<1> QED
  BY <1>1, Invariance, PTL

================================================================================
