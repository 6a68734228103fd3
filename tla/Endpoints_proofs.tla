---------------------------- MODULE Endpoints_proofs ----------------------------
(***************************************************************************)
(* Proofs about names and profiles, for any names, any number of entities  *)
(* and any width of the integers: the lists of topics and services and the *)
(* services of a node tell each by its own name and type, the count of a   *)
(* ROS name is the number of its endpoint infos, names never clash, and    *)
(* what a profile asks for is what is read back and can be asked for again.*)
(*                                                                         *)
(* The answers are facts about strings. A demangled name never has a prefix*)
(* before its first slash (NoPrefixLeft); and of a name or type that is    *)
(* made of parts it is known where the code's searches find a marker, even *)
(* if the parts contain it too (Positions and what follows it). The        *)
(* profiles are a matter of remainders (KeptOrRefused, LongKept), carried  *)
(* through the life of an entity by the invariant that its DDS QoS is the  *)
(* converted profile.                                                      *)
(***************************************************************************)
EXTENDS Endpoints, FiniteSetTheorems, SequenceTheorems, TLAPS

ROSName(name) == name \in Seq(Word) /\ name # <<>> /\ name[1] = "/"

-------------------------------------------------------------------------------
(* Names *)

\* A word is a name of its own.
LEMMA Single == ASSUME NEW w \in Word PROVE <<w>> \in Seq(Word)
<1>1. Append(<<>>, w) \in Seq(Word)
  BY EmptySeq, AppendProperties
<1>2. Append(<<>>, w) = <<w>>
  OBVIOUS
<1> QED
  BY <1>1, <1>2

\* What a prefix in front of a ROS name looks like.
LEMMA Prefixing ==
  ASSUME NEW name, ROSName(name), NEW prefix \in RosPrefixes
  PROVE  LET topic == <<prefix>> \o name
         IN  /\ topic \in Seq(Word) /\ Len(topic) >= 2
             /\ topic[1] = prefix /\ topic[2] = "/" /\ Tail(topic) = name
             /\ prefix # "" /\ prefix # "/"
<1> DEFINE topic == <<prefix>> \o name
<1>1. prefix \in Word /\ prefix # "" /\ prefix # "/"
  BY WordAssumption DEF RosPrefixes
<1>2. name \in Seq(Word) /\ Len(name) \in Nat \ {0} /\ name[1] = "/"
  BY DEF ROSName
<1>3. <<prefix>> \in Seq(Word) /\ Len(<<prefix>>) = 1 /\ <<prefix>>[1] = prefix
  <2>1. <<prefix>> \in Seq(Word)
    BY <1>1, Single
  <2>2. Len(<<prefix>>) = 1
    OBVIOUS
  <2> QED
    BY <2>1, <2>2
<1>4. topic \in Seq(Word) /\ Len(topic) = 1 + Len(name)
  BY <1>2, <1>3
<1>5. topic[1] = prefix /\ \A k \in 1 .. Len(name) : topic[k + 1] = name[k]
  BY <1>2, <1>3
<1>6. topic[2] = "/"
  BY <1>2, <1>5
<1>7. Tail(topic) = name
  <2>1. Tail(topic) \in Seq(Word) /\ Len(Tail(topic)) = Len(name)
    BY <1>2, <1>4
  <2>2. \A k \in 1 .. Len(name) : Tail(topic)[k] = name[k]
    BY <1>2, <1>4, <1>5
  <2> QED
    BY <1>2, <2>1, <2>2, SeqEqual
<1>8. Len(topic) >= 2
  BY <1>2, <1>4
<1> HIDE DEF topic
<1> QED
  BY <1>1, <1>4, <1>5, <1>6, <1>7, <1>8 DEF topic

\* A ROS name survives the way through DDS: what create_topic_name and Service's
\* create_request_name and create_reply_name put before it, _demangle_if_ros_topic takes off.
LEMMA Demangled ==
  ASSUME NEW name, ROSName(name), NEW prefix \in RosPrefixes
  PROVE  DemangleTopic(<<prefix>> \o name) = name
  BY Prefixing DEF DemangleTopic, RosPrefix

\* No topic is demangled to a ROS name with a prefix before it.
LEMMA NoPrefixLeft ==
  ASSUME NEW topic \in Seq(Word), NEW name, ROSName(name), NEW prefix \in RosPrefixes
  PROVE  DemangleTopic(topic) # <<prefix>> \o name
<1> DEFINE prefixed == <<prefix>> \o name
<1>1. /\ prefixed \in Seq(Word) /\ Len(prefixed) >= 2
      /\ prefixed[1] = prefix /\ prefixed[2] = "/" /\ prefix # "" /\ prefix # "/"
  BY Prefixing
<1> HIDE DEF prefixed
<1>2. CASE RosPrefix(topic) = ""
  BY <1>1, <1>2 DEF DemangleTopic, RosPrefix, RosPrefixes, prefixed
<1>3. CASE RosPrefix(topic) # ""
  <2>1. Len(topic) >= 2 /\ topic[2] = "/"
    BY <1>3 DEF RosPrefix
  <2>2. Tail(topic)[1] = "/"
    BY <2>1
  <2> QED
    BY <1>1, <1>3, <2>2 DEF DemangleTopic, prefixed
<1> QED
  BY <1>2, <1>3

-------------------------------------------------------------------------------
(* Searching *)

\* std::string::find finds a string where its words are.
LEMMA Positions ==
  ASSUME NEW s \in Seq(Word), NEW t \in Seq(Word)
  PROVE  Occurrences(s, t) =
            {i \in 1 .. Len(s) : /\ i + Len(t) <= Len(s) + 1
                                 /\ \A k \in 1 .. Len(t) : s[i + k - 1] = t[k]}
<1> SUFFICES ASSUME NEW i \in 1 .. Len(s), i + Len(t) <= Len(s) + 1
             PROVE  SubSeq(s, i, i + Len(t) - 1) = t
                        <=> \A k \in 1 .. Len(t) : s[i + k - 1] = t[k]
  BY DEF Occurrences
<1> DEFINE found == SubSeq(s, i, i + Len(t) - 1)
<1>1. Len(s) \in Nat /\ Len(t) \in Nat /\ i \in Int /\ i + Len(t) - 1 \in Int
  BY LenProperties
<1>2. \A j \in i .. i + Len(t) - 1 : s[j] \in Word
  BY <1>1, ElementOfSeq
<1>3. /\ found \in Seq(Word) /\ Len(found) = Len(t)
      /\ \A k \in 1 .. Len(t) : found[k] = s[i + k - 1]
  <2>1. /\ found \in Seq(Word)
        /\ Len(found) = IF i <= i + Len(t) - 1 THEN i + Len(t) - 1 - i + 1 ELSE 0
        /\ \A k \in 1 .. i + Len(t) - 1 - i + 1 : found[k] = s[i + k - 1]
    BY <1>1, <1>2, SubSeqProperties
  <2> HIDE DEF found
  <2> QED
    BY <1>1, <2>1
<1> HIDE DEF found
<1>4. ASSUME \A k \in 1 .. Len(t) : s[i + k - 1] = t[k] PROVE found = t
  BY <1>3, <1>4, SeqEqual
<1>5. ASSUME found = t PROVE \A k \in 1 .. Len(t) : s[i + k - 1] = t[k]
  BY <1>3, <1>5
<1> QED
  BY <1>4, <1>5 DEF found

\* What is searched for has one word, two or three.
LEMMA Short ==
  ASSUME NEW u \in Word, NEW v \in Word, NEW w \in Word
  PROVE  /\ <<u>> \in Seq(Word) /\ Len(<<u>>) = 1 /\ <<u>>[1] = u
         /\ <<u, v>> \in Seq(Word) /\ Len(<<u, v>>) = 2
         /\ <<u, v>>[1] = u /\ <<u, v>>[2] = v
         /\ <<u, v, w>> \in Seq(Word) /\ Len(<<u, v, w>>) = 3
         /\ <<u, v, w>>[1] = u /\ <<u, v, w>>[2] = v /\ <<u, v, w>>[3] = w
<1>1. <<u>> \in Seq(Word) /\ <<u, v>> \in Seq(Word) /\ <<u, v, w>> \in Seq(Word)
  OBVIOUS
<1>2. Len(<<u>>) = 1 /\ Len(<<u, v>>) = 2 /\ Len(<<u, v, w>>) = 3
  OBVIOUS
<1> QED
  BY <1>1, <1>2

\* The words of two strings put together.
LEMMA Joined ==
  ASSUME NEW s \in Seq(Word), NEW t \in Seq(Word)
  PROVE  /\ s \o t \in Seq(Word) /\ Len(s \o t) = Len(s) + Len(t)
         /\ Len(s) \in Nat /\ Len(t) \in Nat
         /\ \A k \in 1 .. Len(s) : (s \o t)[k] = s[k]
         /\ \A k \in 1 .. Len(t) : (s \o t)[Len(s) + k] = t[k]
<1> DEFINE both == s \o t
<1>1. Len(s) \in Nat /\ Len(t) \in Nat
  BY LenProperties
<1>2. /\ both \in Seq(Word) /\ Len(both) = Len(s) + Len(t)
      /\ \A i \in 1 .. Len(s) + Len(t) : both[i] = IF i <= Len(s) THEN s[i] ELSE t[i - Len(s)]
  BY ConcatProperties
<1> HIDE DEF both
<1>3. ASSUME NEW k \in 1 .. Len(t) PROVE both[Len(s) + k] = t[k]
  <2>1. Len(s) + k \in 1 .. Len(s) + Len(t) /\ ~(Len(s) + k <= Len(s)) /\ Len(s) + k - Len(s) = k
    BY <1>1
  <2> QED
    BY <1>2, <2>1
<1>4. ASSUME NEW k \in 1 .. Len(s) PROVE both[k] = s[k]
  BY <1>1, <1>2
<1> QED
  BY <1>1, <1>2, <1>3, <1>4 DEF both

\* Two words put together.
LEMMA TwoWords ==
  ASSUME NEW u \in Word, NEW v \in Word
  PROVE  <<u>> \o <<v>> = <<u, v>>
<1> DEFINE s == <<u>>
           t == <<v>>
           both == s \o t
           pair == <<u, v>>
<1>1. /\ s \in Seq(Word) /\ Len(s) = 1 /\ s[1] = u
      /\ t \in Seq(Word) /\ Len(t) = 1 /\ t[1] = v
      /\ pair \in Seq(Word) /\ Len(pair) = 2 /\ pair[1] = u /\ pair[2] = v
  BY Short
<1> HIDE DEF s, t, pair
<1>2. both \in Seq(Word) /\ Len(both) = 2 /\ both[1] = u /\ both[2] = v
  BY <1>1, Joined
<1> HIDE DEF both
<1>3. both = pair
  BY <1>1, <1>2, SeqEqual
<1> QED
  BY <1>3 DEF both, s, t, pair

\* Where a word is.
LEMMA WordPositions ==
  ASSUME NEW s \in Seq(Word), NEW w \in Word
  PROVE  Occurrences(s, <<w>>) = {i \in 1 .. Len(s) : s[i] = w}
<1> DEFINE t == <<w>>
<1>1. t \in Seq(Word) /\ Len(t) = 1 /\ t[1] = w
  BY Short
<1> HIDE DEF t
<1>2. Len(s) \in Nat
  OBVIOUS
<1>3. Occurrences(s, t) =
        {i \in 1 .. Len(s) : i + Len(t) <= Len(s) + 1 /\ \A k \in 1 .. Len(t) : s[i + k - 1] = t[k]}
  BY <1>1, Positions
<1>4. ASSUME NEW i \in 1 .. Len(s)
      PROVE  (i + Len(t) <= Len(s) + 1 /\ \A k \in 1 .. Len(t) : s[i + k - 1] = t[k]) <=> s[i] = w
  BY <1>1, <1>2
<1> QED
  BY <1>3, <1>4 DEF t

\* Where two words follow each other.
LEMMA PairPositions ==
  ASSUME NEW s \in Seq(Word), NEW v \in Word, NEW w \in Word
  PROVE  Occurrences(s, <<v, w>>) = {i \in 1 .. Len(s) - 1 : s[i] = v /\ s[i + 1] = w}
<1> DEFINE t == <<v, w>>
<1>1. t \in Seq(Word) /\ Len(t) = 2 /\ t[1] = v /\ t[2] = w
  BY Short
<1> HIDE DEF t
<1>2. Len(s) \in Nat
  OBVIOUS
<1>3. Occurrences(s, t) =
        {i \in 1 .. Len(s) : i + Len(t) <= Len(s) + 1 /\ \A k \in 1 .. Len(t) : s[i + k - 1] = t[k]}
  BY <1>1, Positions
<1>4. ASSUME NEW i \in 1 .. Len(s)
      PROVE  (i + Len(t) <= Len(s) + 1 /\ \A k \in 1 .. Len(t) : s[i + k - 1] = t[k])
                <=> i \in 1 .. Len(s) - 1 /\ s[i] = v /\ s[i + 1] = w
  BY <1>1, <1>2
<1>5. ASSUME NEW i \in Occurrences(s, t)
      PROVE  i \in 1 .. Len(s) - 1 /\ s[i] = v /\ s[i + 1] = w
  BY <1>3, <1>4
<1>6. ASSUME NEW i \in 1 .. Len(s) - 1, s[i] = v /\ s[i + 1] = w
      PROVE  i \in Occurrences(s, t)
  <2>1. i \in 1 .. Len(s)
    BY <1>2
  <2> QED
    BY <1>3, <1>4, <1>6, <2>1
<1> QED
  BY <1>5, <1>6 DEF t

\* Where three words follow each other.
LEMMA TriplePositions ==
  ASSUME NEW s \in Seq(Word), NEW u \in Word, NEW v \in Word, NEW w \in Word
  PROVE  Occurrences(s, <<u, v, w>>) =
            {i \in 1 .. Len(s) - 2 : s[i] = u /\ s[i + 1] = v /\ s[i + 2] = w}
<1> DEFINE t == <<u, v, w>>
<1>1. t \in Seq(Word) /\ Len(t) = 3 /\ t[1] = u /\ t[2] = v /\ t[3] = w
  BY Short
<1> HIDE DEF t
<1>2. Len(s) \in Nat
  OBVIOUS
<1>3. Occurrences(s, t) =
        {i \in 1 .. Len(s) : i + Len(t) <= Len(s) + 1 /\ \A k \in 1 .. Len(t) : s[i + k - 1] = t[k]}
  BY <1>1, Positions
<1>4. ASSUME NEW i \in 1 .. Len(s)
      PROVE  (i + Len(t) <= Len(s) + 1 /\ \A k \in 1 .. Len(t) : s[i + k - 1] = t[k])
                <=> i \in 1 .. Len(s) - 2 /\ s[i] = u /\ s[i + 1] = v /\ s[i + 2] = w
  BY <1>1, <1>2
<1>5. ASSUME NEW i \in Occurrences(s, t)
      PROVE  i \in 1 .. Len(s) - 2 /\ s[i] = u /\ s[i + 1] = v /\ s[i + 2] = w
  BY <1>3, <1>4
<1>6. ASSUME NEW i \in 1 .. Len(s) - 2, s[i] = u /\ s[i + 1] = v /\ s[i + 2] = w
      PROVE  i \in Occurrences(s, t)
  <2>1. i \in 1 .. Len(s)
    BY <1>2
  <2> QED
    BY <1>3, <1>4, <1>6, <2>1
<1> QED
  BY <1>5, <1>6 DEF t

\* find takes the least position, rfind the greatest.
LEMMA Extremes ==
  ASSUME NEW S \in SUBSET Int, NEW m \in S
  PROVE  /\ (\A n \in S : m <= n) => Min(S) = m
         /\ (\A n \in S : n <= m) => Max(S) = m
<1>1. ASSUME \A n \in S : m <= n PROVE Min(S) = m
  <2>1. \A x \in S : (\A y \in S : x <= y) <=> x = m
    BY <1>1
  <2> QED
    BY <2>1 DEF Min
<1>2. ASSUME \A n \in S : n <= m PROVE Max(S) = m
  <2>1. \A x \in S : (\A y \in S : x >= y) <=> x = m
    BY <1>2
  <2> QED
    BY <2>1 DEF Max
<1> QED
  BY <1>1, <1>2

-------------------------------------------------------------------------------
(* Types *)

\* The words of s are those of a mangled type of n words and of the rest.
HasWords(s, type, n, rest) ==
    /\ n \in Nat \ {0} /\ s \in Seq(Word)
    /\ Len(s) = 3 + n + Len(rest) /\ Len(rest) \in Nat
    /\ s[1] = type.package /\ s[2] = type.directory /\ s[3] = "::dds_::"
    /\ \A k \in 1 .. n : s[3 + k] = type.name[k]
    /\ \A k \in 1 .. Len(rest) : s[3 + n + k] = rest[k]

\* The words of what create_type_name and the generated code make of a type.
LEMMA MangledWords ==
  ASSUME NEW type \in RosidlType, NEW rest \in Seq(Word)
  PROVE  /\ HasWords(Mangled(type) \o rest, type, Len(type.name), rest)
         /\ \A k \in 1 .. Len(type.name) :
                type.name[k] \in Word \ {"/", "_", "::msg", "::srv"}
<1> DEFINE head == <<type.package, type.directory, "::dds_::">>
           name == type.name
           middle == head \o name
           s == middle \o rest
<1>1. /\ head \in Seq(Word) /\ Len(head) = 3
      /\ head[1] = type.package /\ head[2] = type.directory /\ head[3] = "::dds_::"
  BY WordAssumption, Short DEF RosidlType, Markers
<1>2. name \in Seq(Word \ {"/", "_", "::msg", "::srv"}) /\ name # <<>>
  BY DEF RosidlType
<1> HIDE DEF head, name
<1>3. name \in Seq(Word) /\ Len(name) \in Nat /\ Len(name) >= 1 /\ Len(rest) \in Nat
  <2>1. name \in Seq(Word)
    BY <1>2, SeqMonotonic
  <2>2. Len(name) \in Nat \ {0} /\ Len(rest) \in Nat
    BY <1>2, EmptySeq, LenProperties
  <2> QED
    BY <2>1, <2>2
<1>4. \A k \in 1 .. Len(name) : name[k] \in Word \ {"/", "_", "::msg", "::srv"}
  BY <1>2, ElementOfSeq
<1>5. /\ middle \in Seq(Word) /\ Len(middle) = 3 + Len(name)
      /\ middle[1] = type.package /\ middle[2] = type.directory /\ middle[3] = "::dds_::"
      /\ \A k \in 1 .. Len(name) : middle[3 + k] = name[k]
  <2>1. /\ middle \in Seq(Word) /\ Len(middle) = Len(head) + Len(name)
        /\ \A k \in 1 .. Len(head) : middle[k] = head[k]
        /\ \A k \in 1 .. Len(name) : middle[Len(head) + k] = name[k]
    BY <1>1, <1>3, Joined
  <2> HIDE DEF middle
  <2> QED
    BY <1>1, <1>3, <2>1
<1> HIDE DEF middle
<1>6. /\ s \in Seq(Word) /\ Len(s) = 3 + Len(name) + Len(rest)
      /\ \A i \in 1 .. 3 + Len(name) : s[i] = middle[i]
      /\ \A k \in 1 .. Len(rest) : s[3 + Len(name) + k] = rest[k]
  <2>1. /\ s \in Seq(Word) /\ Len(s) = Len(middle) + Len(rest)
        /\ \A k \in 1 .. Len(middle) : s[k] = middle[k]
        /\ \A k \in 1 .. Len(rest) : s[Len(middle) + k] = rest[k]
    BY <1>5, Joined
  <2> HIDE DEF s
  <2> QED
    BY <1>5, <2>1
<1> HIDE DEF s
<1>7. s[1] = type.package /\ s[2] = type.directory /\ s[3] = "::dds_::"
  <2>1. {1, 2, 3} \subseteq 1 .. 3 + Len(name)
    BY <1>3
  <2> QED
    BY <1>5, <1>6, <2>1
<1>8. ASSUME NEW k \in 1 .. Len(name) PROVE s[3 + k] = name[k]
  <2>1. 3 + k \in 1 .. 3 + Len(name)
    BY <1>3
  <2> QED
    BY <1>5, <1>6, <2>1
<1>9. s = Mangled(type) \o rest /\ Len(name) = Len(type.name)
  BY DEF s, middle, head, name, Mangled
<1>10. \A k \in 1 .. Len(type.name) : s[3 + k] = type.name[k]
  BY <1>8 DEF name
<1>11. \A k \in 1 .. Len(type.name) : type.name[k] \in Word \ {"/", "_", "::msg", "::srv"}
  BY <1>4 DEF name
<1>12. HasWords(s, type, Len(type.name), rest)
  BY <1>3, <1>6, <1>7, <1>9, <1>10 DEF HasWords
<1> QED
  BY <1>9, <1>11, <1>12, Zenon

\* What the demangling functions cut out of it is the ROS name of the type.
LEMMA Cut ==
  ASSUME NEW type \in RosidlType, NEW rest \in Seq(Word)
  PROVE  LET s == Mangled(type) \o rest
         IN  SubSeq(s, 1, 1) \o <<"/">> \o SubSeq(s, 4, 3 + Len(type.name)) = RosTypeName(type)
<1> DEFINE s == Mangled(type) \o rest
           n == Len(type.name)
           head == SubSeq(s, 1, 1)
           slash == <<"/">>
           body == SubSeq(s, 4, 3 + n)
<1>1. HasWords(s, type, n, rest)
  BY MangledWords
<1>2. type.name \in Seq(Word) /\ Len(rest) \in Nat /\ type.package \in Word
  <2>1. type.name \in Seq(Word)
    BY SeqMonotonic, Word \ {"/", "_", "::msg", "::srv"} \subseteq Word DEF RosidlType
  <2> QED
    BY <2>1, LenProperties DEF RosidlType
<1>3. slash \in Seq(Word) /\ Len(slash) = 1 /\ slash[1] = "/"
  BY WordAssumption, Short DEF Markers
<1> HIDE DEF s, n, slash
<1>4. /\ n \in Nat \ {0} /\ s \in Seq(Word) /\ Len(s) = 3 + n + Len(rest)
      /\ s[1] = type.package
      /\ \A k \in 1 .. n : s[3 + k] = type.name[k]
  BY <1>1 DEF HasWords
<1>5. \A j \in 1 .. 3 + n : s[j] \in Word
  BY <1>4, <1>2, ElementOfSeq
<1>6. head = <<type.package>>
  <2>1. head \in Seq(Word) /\ Len(head) = 1 /\ head[1] = s[1]
    BY <1>4, <1>5, SubSeqProperties
  <2>2. /\ <<type.package>> \in Seq(Word) /\ Len(<<type.package>>) = 1
        /\ <<type.package>>[1] = type.package
    BY <1>2, Short
  <2> HIDE DEF head
  <2> QED
    BY <1>4, <2>1, <2>2, SeqEqual
<1>7. body = type.name
  <2>1. body \in Seq(Word) /\ Len(body) = n /\ \A k \in 1 .. n : body[k] = s[4 + k - 1]
    BY <1>4, <1>5, SubSeqProperties
  <2>2. \A k \in 1 .. n : body[k] = type.name[k]
    BY <1>4, <2>1
  <2> HIDE DEF body
  <2> QED
    BY <1>2, <2>1, <2>2, SeqEqual DEF n
<1>8. <<type.package>> \o <<"/">> = <<type.package, "/">>
  BY <1>2, WordAssumption, TwoWords DEF Markers
<1> QED
  BY <1>6, <1>7, <1>8 DEF s, n, slash, RosTypeName

\* The directory of a type is the second of its words, and there only.
LEMMA DirectoryPosition ==
  ASSUME NEW type \in RosidlType, NEW d \in {"::msg", "::srv"},
         NEW rest \in Seq(Word), \A k \in 1 .. Len(rest) : rest[k] # d
  PROVE  Occurrences(Mangled(type) \o rest, <<d, "::dds_::">>)
            = IF type.directory = d THEN {2} ELSE {}
<1> DEFINE s == Mangled(type) \o rest
           n == Len(type.name)
           found == Occurrences(s, <<d, "::dds_::">>)
<1>1. HasWords(s, type, n, rest)
  BY MangledWords
<1>2. \A k \in 1 .. n : type.name[k] \in Word \ {"/", "_", "::msg", "::srv"}
  BY MangledWords
<1>3. \A k \in 1 .. n : type.name[k] # d
  BY <1>2
<1>4. type.directory # "::dds_::" /\ d # "::dds_::"
  BY DEF RosidlType
<1>5. Len(rest) \in Nat /\ d \in Word /\ "::dds_::" \in Word
  BY WordAssumption, LenProperties DEF Markers
<1> HIDE DEF s, n
<1> USE DEF HasWords
<1>6. found = {i \in 1 .. Len(s) - 1 : s[i] = d /\ s[i + 1] = "::dds_::"}
  <2>1. s \in Seq(Word)
    BY <1>1
  <2>2. \A v, w \in Word :
          Occurrences(s, <<v, w>>) = {i \in 1 .. Len(s) - 1 : s[i] = v /\ s[i + 1] = w}
    BY <2>1, PairPositions
  <2> QED
    BY <1>5, <2>2
<1> HIDE DEF found
<1>7. ASSUME NEW i \in found PROVE i = 2
  <2>1. i \in 1 .. Len(s) - 1 /\ s[i] = d /\ s[i + 1] = "::dds_::"
    BY <1>6
  <2>2. CASE i = 1
    BY <1>1, <1>4, <2>1, <2>2
  <2>3. CASE i = 3
    BY <1>1, <1>4, <2>1, <2>3
  <2>4. CASE i \in 4 .. 3 + n
    <3>1. i - 3 \in 1 .. n /\ 3 + (i - 3) = i
      BY <1>1, <2>4
    <3>2. s[i] = type.name[i - 3]
      BY <1>1, <3>1
    <3> QED
      BY <1>3, <2>1, <3>1, <3>2
  <2>5. CASE i > 3 + n
    <3>1. i - 3 - n \in 1 .. Len(rest) /\ 3 + n + (i - 3 - n) = i
      BY <1>1, <1>5, <2>1, <2>5
    <3>2. s[i] = rest[i - 3 - n]
      BY <1>1, <3>1
    <3> QED
      BY <2>1, <3>1, <3>2
  <2> QED
    BY <1>1, <2>1, <2>2, <2>3, <2>4, <2>5
<1>8. 2 \in 1 .. Len(s) - 1
  BY <1>1, <1>5
<1>9. 2 \in found <=> type.directory = d
  BY <1>1, <1>6, <1>8
<1>10. CASE type.directory = d
  BY <1>7, <1>9, <1>10 DEF found, s
<1>11. CASE type.directory # d
  BY <1>7, <1>9, <1>11 DEF found, s
<1> QED
  BY <1>10, <1>11

\* The only word "_" of a type, after its package, is what comes after its name.
LEMMA UnderscorePosition ==
  ASSUME NEW type \in RosidlType, NEW rest \in Seq(Word), Len(rest) = 1 \/ Len(rest) = 3,
         NEW part \in {"Request", "Response"}
  PROVE  Occurrences(Mangled(type) \o rest, <<"_", part, "_">>)
            = IF Len(rest) = 3 /\ rest[1] = "_" /\ rest[2] = part /\ rest[3] = "_"
              THEN {4 + Len(type.name)} ELSE {}
<1> DEFINE s == Mangled(type) \o rest
           n == Len(type.name)
           found == Occurrences(s, <<"_", part, "_">>)
           there == Len(rest) = 3 /\ rest[1] = "_" /\ rest[2] = part /\ rest[3] = "_"
<1>1. HasWords(s, type, n, rest)
  BY MangledWords
<1>2. \A k \in 1 .. n : type.name[k] \in Word \ {"/", "_", "::msg", "::srv"}
  BY MangledWords
<1>3. \A k \in 1 .. n : type.name[k] # "_"
  BY <1>2
<1>4. type.directory # part /\ type.directory # "_"
  BY DEF RosidlType
<1>5. part \in Word /\ "_" \in Word
  BY WordAssumption DEF Markers
<1> HIDE DEF s, n
<1> USE DEF HasWords
<1>6. Len(s) \in Nat /\ Len(s) = 3 + n + Len(rest) /\ n \in Nat /\ Len(rest) \in Nat
  BY <1>1
<1>7. found = {i \in 1 .. Len(s) - 2 : s[i] = "_" /\ s[i + 1] = part /\ s[i + 2] = "_"}
  <2>1. s \in Seq(Word)
    BY <1>1
  <2>2. \A u, v, w \in Word :
          Occurrences(s, <<u, v, w>>) =
            {i \in 1 .. Len(s) - 2 : s[i] = u /\ s[i + 1] = v /\ s[i + 2] = w}
    BY <2>1, TriplePositions
  <2> QED
    BY <1>5, <2>2
<1> HIDE DEF found
<1>8. ASSUME NEW i \in found PROVE i = 4 + n /\ Len(rest) = 3
  <2>1. i \in 1 .. Len(s) - 2
    BY <1>7
  <2>2. s[i] = "_" /\ s[i + 1] = part
    BY <1>7
  <2>3. CASE i = 1
    <3>1. i + 1 = 2
      BY <2>3
    <3>2. s[2] = part
      BY <2>2, <3>1, Zenon
    <3> QED
      BY <1>1, <1>4, <3>2
  <2>4. CASE i \in {2, 3}
    BY <1>1, <1>4, <2>2, <2>4
  <2>5. CASE i \in 4 .. 3 + n
    <3>1. i - 3 \in 1 .. n /\ 3 + (i - 3) = i
      BY <1>1, <2>5
    <3>2. s[i] = type.name[i - 3]
      BY <1>1, <3>1
    <3> QED
      BY <1>3, <2>2, <3>1, <3>2
  <2>6. CASE i > 3 + n
    <3>1. CASE Len(rest) = 1
      BY <1>6, <2>1, <2>6, <3>1
    <3>2. CASE Len(rest) = 3
      BY <1>6, <2>1, <2>6, <3>2
    <3> QED
      BY <3>1, <3>2
  <2>7. i \in Int /\ i >= 1 /\ n \in Nat
    BY <1>6, <2>1
  <2>8. i = 1 \/ i \in {2, 3} \/ i \in 4 .. 3 + n \/ i > 3 + n
    BY <2>7
  <2> QED
    BY <2>3, <2>4, <2>5, <2>6, <2>8
<1>9. ASSUME Len(rest) = 3 PROVE 4 + n \in found <=> there
  <2>1. 4 + n \in 1 .. Len(s) - 2 /\ 4 + n = 3 + n + 1 /\ 4 + n + 1 = 3 + n + 2 /\ 4 + n + 2 = 3 + n + 3
    BY <1>1, <1>9
  <2>2. s[4 + n] = rest[1] /\ s[4 + n + 1] = rest[2] /\ s[4 + n + 2] = rest[3]
    BY <1>1, <1>9, <2>1
  <2> QED
    BY <1>7, <1>9, <2>1, <2>2
<1>10. CASE there
  <2>1. 4 + n \in found
    BY <1>9, <1>10
  <2> QED
    BY <1>8, <1>10, <2>1 DEF found, s, n
<1>11. CASE ~there
  <2>1. found = {}
    BY <1>8, <1>9, <1>11
  <2> QED
    BY <1>11, <2>1 DEF found, s
<1> QED
  BY <1>10, <1>11

\* DemangleType, for the type of a topic: those of the msg directory get their ROS name,
\* the others stay what create_type_name has made of them.
LEMMA TypeShown ==
  ASSUME NEW type \in RosidlType
  PROVE  DemangleType(TypeName(type))
            = IF type.directory = "::msg" THEN RosTypeName(type) ELSE TypeName(type)
<1> DEFINE rest == <<"_">>
           s == TypeName(type)
           n == Len(type.name)
<1>1. rest \in Seq(Word) /\ Len(rest) = 1
  BY WordAssumption, Short DEF Markers
<1>2. rest[1] = "_"
  OBVIOUS
<1>3. s = Mangled(type) \o rest
  BY DEF TypeName
<1> HIDE DEF rest, s
<1>4. HasWords(s, type, n, rest)
  BY <1>1, <1>3, MangledWords
<1>5. Occurrences(s, RosType) = IF type.directory = "::msg" THEN {2} ELSE {}
  <2>1. ASSUME NEW k \in 1 .. Len(rest) PROVE rest[k] # "::msg"
    <3>1. k = 1
      BY <1>1
    <3> QED
      BY <1>2, <3>1
  <2> QED
    BY <1>1, <1>3, <2>1, DirectoryPosition DEF RosType
<1>6. SubSeq(s, 1, 1) \o <<"/">> \o SubSeq(s, 4, 3 + n) = RosTypeName(type)
  BY <1>1, <1>3, Cut
<1>7. Len(s) = 4 + n /\ n \in Nat
  <2>1. Len(s) = 3 + n + Len(rest) /\ n \in Nat
    BY <1>4 DEF HasWords
  <2> QED
    BY <1>1, <2>1
<1>8. s[Len(s)] = "_"
  <2>1. s[3 + n + 1] = rest[1]
    <3>1. \A k \in 1 .. Len(rest) : s[3 + n + k] = rest[k]
      BY <1>4 DEF HasWords
    <3>2. 1 \in 1 .. Len(rest)
      BY <1>1
    <3> QED
      BY <3>1, <3>2
  <2>2. 3 + n + 1 = Len(s)
    BY <1>7
  <2> QED
    BY <1>2, <2>1, <2>2
<1>9. CASE type.directory = "::msg"
  <2>1. Occurrences(s, RosType) = {2}
    BY <1>5, <1>9
  <2>2. Occurs(s, RosType) /\ First(s, RosType) = 2
    BY <2>1, Extremes DEF Occurs, First
  <2>3. 2 - 1 = 1 /\ 2 + 2 = 4 /\ Len(s) - 1 = 3 + n
    BY <1>7
  <2>4. DemangleType(s) = SubSeq(s, 1, 2 - 1) \o <<"/">> \o SubSeq(s, 2 + 2, Len(s) - 1)
    BY <1>8, <2>2 DEF DemangleType
  <2> QED
    BY <1>6, <1>9, <2>3, <2>4 DEF s
<1>10. CASE type.directory # "::msg"
  <2>1. ~Occurs(s, RosType)
    BY <1>5, <1>10 DEF Occurs
  <2> QED
    BY <1>10, <2>1 DEF DemangleType, s
<1> QED
  BY <1>9, <1>10

\* The type of a topic is not that of a service.
LEMMA TopicNoService ==
  ASSUME NEW type \in RosidlType
  PROVE  ServiceType(TypeName(type)) = <<>>
<1> DEFINE rest == <<"_">>
           s == TypeName(type)
<1>1. rest \in Seq(Word) /\ Len(rest) = 1
  BY WordAssumption, Short DEF Markers
<1>2. s = Mangled(type) \o rest
  BY DEF TypeName
<1> HIDE DEF rest, s
<1>3. ~Occurs(s, RequestSuffix) /\ ~Occurs(s, ResponseSuffix)
  <2>1. ASSUME NEW part \in {"Request", "Response"}
        PROVE  Occurrences(s, <<"_", part, "_">>) = {}
    <3>1. Len(rest) # 3
      BY <1>1
    <3>2. Occurrences(s, <<"_", part, "_">>)
            = IF Len(rest) = 3 /\ rest[1] = "_" /\ rest[2] = part /\ rest[3] = "_"
              THEN {4 + Len(type.name)} ELSE {}
      BY <1>1, <1>2, UnderscorePosition
    <3> QED
      BY <3>1, <3>2, Zenon
  <2> QED
    BY <2>1 DEF Occurs, RequestSuffix, ResponseSuffix
<1> QED
  BY <1>3 DEF ServiceType, s

\* _demangle_service_type_only, for either type of a service: those of the srv directory
\* get their ROS name, the others are taken for no services.
LEMMA ServiceTypeShown ==
  ASSUME NEW type \in RosidlType, NEW part \in {"Request", "Response"}
  PROVE  ServiceType(ServiceTypeName(type, part))
            = IF type.directory = "::srv" THEN RosTypeName(type) ELSE <<>>
<1> DEFINE rest == <<"_", part, "_">>
           s == ServiceTypeName(type, part)
           n == Len(type.name)
           suffix == IF part = "Response" THEN ResponseSuffix ELSE RequestSuffix
<1>1. rest \in Seq(Word) /\ Len(rest) = 3
  BY WordAssumption, Short DEF Markers
<1>2. rest[1] = "_" /\ rest[2] = part /\ rest[3] = "_"
  OBVIOUS
<1>3. s = Mangled(type) \o rest
  BY DEF ServiceTypeName
<1> HIDE DEF rest, s
<1>4. HasWords(s, type, n, rest)
  BY <1>1, <1>3, MangledWords
<1>5. Occurrences(s, RosServiceType) = IF type.directory = "::srv" THEN {2} ELSE {}
  <2>1. ASSUME NEW k \in 1 .. Len(rest) PROVE rest[k] # "::srv"
    <3>1. k = 1 \/ k = 2 \/ k = 3
      BY <1>1
    <3> QED
      BY <1>2, <3>1
  <2> QED
    BY <1>1, <1>3, <2>1, DirectoryPosition DEF RosServiceType
<1>6. SubSeq(s, 1, 1) \o <<"/">> \o SubSeq(s, 4, 3 + n) = RosTypeName(type)
  BY <1>1, <1>3, Cut
<1>7. Len(s) = 6 + n /\ n \in Nat
  <2>1. Len(s) = 3 + n + Len(rest) /\ n \in Nat
    BY <1>4 DEF HasWords
  <2> QED
    BY <1>1, <2>1
<1>8. \A p \in {"Request", "Response"} :
        Occurrences(s, <<"_", p, "_">>) = IF p = part THEN {4 + n} ELSE {}
  BY <1>1, <1>3, <1>2, UnderscorePosition
<1>9. EndsWith(s, ResponseSuffix) <=> part = "Response"
  <2>1. Len(ResponseSuffix) = 3
    BY DEF ResponseSuffix
  <2>2. Len(s) + 1 - 3 = 4 + n
    BY <1>7
  <2>3. Occurrences(s, ResponseSuffix) = IF "Response" = part THEN {4 + n} ELSE {}
    BY <1>8 DEF ResponseSuffix
  <2> QED
    BY <2>1, <2>2, <2>3 DEF EndsWith
<1>10. Occurrences(s, suffix) = {4 + n}
  BY <1>8 DEF ResponseSuffix, RequestSuffix
<1> HIDE DEF suffix
<1>11. Occurs(s, suffix) /\ Last(s, suffix) = 4 + n
  <2>1. 4 + n \in Int /\ {4 + n} \in SUBSET Int
    BY <1>7
  <2>2. Max({4 + n}) = 4 + n
    BY <2>1, Extremes
  <2> QED
    BY <1>10, <2>2 DEF Occurs, Last
<1>12. ServiceType(s) =
        IF Occurs(s, RosServiceType) /\ Occurs(s, suffix)
        THEN LET i == First(s, RosServiceType)
             IN  SubSeq(s, 1, i - 1) \o <<"/">> \o SubSeq(s, i + 2, Last(s, suffix) - 1)
        ELSE <<>>
  BY <1>9 DEF ServiceType, suffix
<1>13. CASE type.directory = "::srv"
  <2>1. Occurrences(s, RosServiceType) = {2}
    BY <1>5, <1>13
  <2>2. Occurs(s, RosServiceType) /\ First(s, RosServiceType) = 2
    BY <2>1, Extremes DEF Occurs, First
  <2>3. 2 - 1 = 1 /\ 2 + 2 = 4 /\ 4 + n - 1 = 3 + n
    BY <1>7
  <2>4. ServiceType(s) = SubSeq(s, 1, 2 - 1) \o <<"/">> \o SubSeq(s, 2 + 2, 4 + n - 1)
    BY <1>11, <1>12, <2>2
  <2> QED
    BY <1>6, <1>13, <2>3, <2>4 DEF s
<1>14. CASE type.directory # "::srv"
  <2>1. ~Occurs(s, RosServiceType)
    BY <1>5, <1>14 DEF Occurs
  <2> QED
    BY <1>12, <1>14, <2>1 DEF s
<1> QED
  BY <1>13, <1>14

\* copy_service_names_types takes "Sample_" off the name of a type, and nothing else.
LEMMA Stripped ==
  ASSUME NEW type \in RosidlType
  PROVE  StripSample(RosTypeName(type)) = RosTypeName(BareType(type))
<1> DEFINE name == type.name
           head == <<type.package, "/">>
           s == head \o name
           sample == <<"/", "Sample_">>
           n == Len(name)
<1>1. name \in Seq(Word \ {"/", "_", "::msg", "::srv"}) /\ name # <<>> /\ type.package \in Word
  BY DEF RosidlType
<1>2. head \in Seq(Word) /\ Len(head) = 2
  BY <1>1, WordAssumption, Short DEF Markers
<1>3. head[2] = "/"
  OBVIOUS
<1>4. s = RosTypeName(type)
  BY DEF RosTypeName
<1> HIDE DEF name, head
<1>5. name \in Seq(Word) /\ n \in Nat /\ n >= 1
  <2>1. name \in Seq(Word)
    BY <1>1, SeqMonotonic
  <2>2. n \in Nat \ {0}
    BY <1>1, EmptySeq
  <2> QED
    BY <2>1, <2>2
<1>6. /\ s \in Seq(Word) /\ Len(s) = 2 + n
      /\ \A k \in 1 .. 2 : s[k] = head[k]
      /\ \A k \in 1 .. n : s[2 + k] = name[k]
  <2>1. /\ s \in Seq(Word) /\ Len(s) = Len(head) + Len(name)
        /\ \A k \in 1 .. Len(head) : s[k] = head[k]
        /\ \A k \in 1 .. Len(name) : s[Len(head) + k] = name[k]
    BY <1>2, <1>5, Joined
  <2> HIDE DEF s
  <2> QED
    BY <1>2, <2>1
<1>7. \A k \in 1 .. n : name[k] # "/"
  <2>1. \A k \in 1 .. Len(name) : name[k] \in Word \ {"/", "_", "::msg", "::srv"}
    BY <1>1, ElementOfSeq
  <2> QED
    BY <2>1
<1> HIDE DEF s, n
<1>8. Occurrences(s, sample) = {i \in 1 .. Len(s) - 1 : s[i] = "/" /\ s[i + 1] = "Sample_"}
  <2>1. "/" \in Word /\ "Sample_" \in Word
    BY WordAssumption DEF Markers
  <2>2. s \in Seq(Word)
    BY <1>6
  <2> QED
    BY <2>1, <2>2, PairPositions
<1>9. s[2] = "/" /\ s[3] = name[1]
  <2>1. 2 \in 1 .. 2 /\ 1 \in 1 .. n /\ 2 + 1 = 3
    BY <1>5
  <2>2. s[2] = head[2] /\ s[2 + 1] = name[1]
    BY <1>6, <2>1
  <2> QED
    BY <1>3, <2>1, <2>2
<1> HIDE DEF sample
<1>10. ASSUME NEW i \in Occurrences(s, sample) PROVE i = 2
  <2>1. i \in 1 .. Len(s) - 1
    BY <1>8
  <2>2. s[i] = "/" /\ s[i + 1] = "Sample_"
    BY <1>8
  <2>3. CASE i = 1
    <3>1. i + 1 = 2
      BY <2>3
    <3> QED
      BY <1>9, <2>2, <3>1
  <2>4. CASE i > 2
    <3>1. i - 2 \in 1 .. n /\ 2 + (i - 2) = i
      BY <1>5, <1>6, <2>1, <2>4
    <3>2. s[i] = name[i - 2]
      BY <1>6, <3>1
    <3> QED
      BY <1>7, <2>2, <3>1, <3>2
  <2> QED
    BY <1>5, <1>6, <2>1, <2>3, <2>4
<1>11. 2 \in Occurrences(s, sample) <=> name[1] = "Sample_"
  <2>1. 2 \in 1 .. Len(s) - 1 /\ 2 + 1 = 3
    BY <1>5, <1>6
  <2> QED
    BY <1>8, <1>9, <2>1
<1>12. Head(name) = name[1]
  OBVIOUS
<1>13. CASE name[1] = "Sample_"
  <2> DEFINE front == SubSeq(s, 1, 2)
             back == SubSeq(s, 4, Len(s))
             tail == Tail(name)
  <2>1. Occurrences(s, sample) = {2}
    BY <1>10, <1>11, <1>13
  <2>2. Occurs(s, sample) /\ First(s, sample) = 2
    BY <2>1, Extremes DEF Occurs, First
  <2>3. StripSample(s) = SubSeq(s, 1, 2) \o SubSeq(s, 2 + 2, Len(s))
    BY <2>2 DEF StripSample, sample
  <2>4. \A j \in 1 .. Len(s) : s[j] \in Word
    BY <1>6, ElementOfSeq
  <2>5. front = head
    <3>1. front \in Seq(Word) /\ Len(front) = 2 /\ \A k \in 1 .. 2 : front[k] = s[1 + k - 1]
      BY <1>5, <1>6, <2>4, SubSeqProperties
    <3> HIDE DEF front
    <3>2. ASSUME NEW k \in 1 .. 2 PROVE front[k] = head[k]
      <4>1. 1 + k - 1 = k
        OBVIOUS
      <4> QED
        BY <1>6, <3>1, <4>1
    <3> QED
      BY <1>2, <3>1, <3>2, SeqEqual
  <2>6. back = tail
    <3>1. tail \in Seq(Word) /\ Len(tail) = n - 1 /\ \A k \in 1 .. n - 1 : tail[k] = name[k + 1]
      BY <1>1, <1>5, HeadTailProperties DEF n
    <3>2. /\ back \in Seq(Word) /\ Len(back) = n - 1
          /\ \A k \in 1 .. n - 1 : back[k] = s[4 + k - 1]
      <4>1. Len(s) \in Int /\ 4 \in Int /\ \A j \in 4 .. Len(s) : s[j] \in Word
        BY <1>5, <1>6, <2>4
      <4>2. /\ back \in Seq(Word)
            /\ Len(back) = IF 4 <= Len(s) THEN Len(s) - 4 + 1 ELSE 0
            /\ \A k \in 1 .. Len(s) - 4 + 1 : back[k] = s[4 + k - 1]
        BY <4>1, SubSeqProperties
      <4> HIDE DEF back
      <4> QED
        BY <1>5, <1>6, <4>2
    <3> HIDE DEF back, tail
    <3>3. ASSUME NEW k \in 1 .. n - 1 PROVE back[k] = tail[k]
      <4>1. 4 + k - 1 = 2 + (k + 1) /\ k + 1 \in 1 .. n
        BY <1>5
      <4> QED
        BY <1>6, <3>1, <3>2, <4>1
    <3> QED
      BY <3>1, <3>2, <3>3, SeqEqual
  <2>7. BareType(type) = [type EXCEPT !.name = tail]
    BY <1>12, <1>13 DEF BareType, name
  <2>8. RosTypeName(BareType(type)) = head \o tail
    BY <2>7 DEF RosTypeName, head
  <2>9. StripSample(s) = front \o back
    BY <2>3
  <2> HIDE DEF front, back, tail
  <2> QED
    BY <1>4, <2>5, <2>6, <2>8, <2>9
<1>14. CASE name[1] # "Sample_"
  <2>1. ~Occurs(s, sample)
    BY <1>10, <1>11, <1>14 DEF Occurs
  <2>2. StripSample(s) = s
    BY <2>1 DEF StripSample, sample
  <2>3. BareType(type).package = type.package /\ BareType(type).name = type.name
    BY <1>12, <1>14 DEF BareType, name
  <2> QED
    BY <1>4, <2>2, <2>3 DEF RosTypeName
<1> QED
  BY <1>13, <1>14

-------------------------------------------------------------------------------
(* The topics of services *)

\* The topics of a service are named by its name between a prefix and a suffix.
Half(prefix, name, suffix) == (<<prefix>> \o name) \o <<suffix>>

\* What create_request_name and create_reply_name put together.
LEMMA HalfWords ==
  ASSUME NEW name, ROSName(name), NEW prefix \in {"rq", "rr"}, NEW suffix \in {"Request", "Reply"}
  PROVE  LET s == Half(prefix, name, suffix)
         IN  /\ s \in Seq(Word) /\ Len(s) = Len(name) + 2 /\ Len(name) \in Nat /\ Len(name) >= 1
             /\ s[1] = prefix /\ s[2] = "/" /\ s[Len(name) + 2] = suffix
             /\ \A k \in 1 .. Len(name) : s[1 + k] = name[k]
<1> DEFINE front == <<prefix>>
           back == <<suffix>>
           both == front \o name
           s == both \o back
           n == Len(name)
<1>1. front \in Seq(Word) /\ Len(front) = 1 /\ back \in Seq(Word) /\ Len(back) = 1
  BY WordAssumption, Short DEF RosPrefixes, Markers
<1>2. front[1] = prefix /\ back[1] = suffix
  OBVIOUS
<1>3. name \in Seq(Word) /\ n \in Nat /\ n >= 1
  <2>1. name \in Seq(Word) /\ name # <<>>
    BY DEF ROSName
  <2>2. n \in Nat \ {0}
    BY <2>1, EmptySeq
  <2> QED
    BY <2>1, <2>2
<1>4. name[1] = "/"
  BY DEF ROSName
<1> HIDE DEF front, back
<1>5. /\ both \in Seq(Word) /\ Len(both) = 1 + n
      /\ both[1] = front[1] /\ \A k \in 1 .. n : both[1 + k] = name[k]
  <2>1. /\ both \in Seq(Word) /\ Len(both) = Len(front) + Len(name)
        /\ \A k \in 1 .. Len(front) : both[k] = front[k]
        /\ \A k \in 1 .. Len(name) : both[Len(front) + k] = name[k]
    BY <1>1, <1>3, Joined
  <2> HIDE DEF both
  <2> QED
    BY <1>1, <1>3, <2>1
<1> HIDE DEF both
<1>6. /\ s \in Seq(Word) /\ Len(s) = 1 + n + 1
      /\ \A k \in 1 .. 1 + n : s[k] = both[k]
      /\ s[1 + n + 1] = back[1]
  <2>1. /\ s \in Seq(Word) /\ Len(s) = Len(both) + Len(back)
        /\ \A k \in 1 .. Len(both) : s[k] = both[k]
        /\ \A k \in 1 .. Len(back) : s[Len(both) + k] = back[k]
    BY <1>1, <1>5, Joined
  <2> HIDE DEF s
  <2> QED
    BY <1>1, <1>5, <2>1
<1> HIDE DEF s, n
<1>7. 1 + n + 1 = n + 2 /\ 1 \in 1 .. 1 + n /\ 2 \in 1 .. 1 + n /\ 1 + 1 = 2 /\ 1 \in 1 .. n
  BY <1>3
<1>8. ASSUME NEW k \in 1 .. n PROVE s[1 + k] = name[k]
  <2>1. 1 + k \in 1 .. 1 + n
    BY <1>3
  <2> QED
    BY <1>5, <1>6, <2>1
<1>9. s[1] = prefix /\ s[n + 2] = suffix
  BY <1>2, <1>5, <1>6, <1>7
<1>10. s[2] = "/"
  BY <1>4, <1>7, <1>8
<1>11. s \in Seq(Word) /\ Len(s) = n + 2
  BY <1>3, <1>6
<1> QED
  BY <1>3, <1>8, <1>9, <1>10, <1>11 DEF s, both, front, back, n, Half

\* A service keeps its name on the way through DDS, whatever words are in it: the suffix
\* that _demangle_service_from_topic cuts off is the last one.
LEMMA HalfDemangled ==
  ASSUME NEW name, ROSName(name), NEW half \in {<<"rq", "Request">>, <<"rr", "Reply">>}
  PROVE  LET s == Half(half[1], name, half[2])
         IN  RosPrefix(s) = half[1] /\ ServiceOfTopic(s) = name
<1> DEFINE prefix == half[1]
           w == half[2]
           suffix == <<w>>
           s == Half(prefix, name, w)
           n == Len(name)
<1>1. prefix \in {"rq", "rr"} /\ w \in {"Request", "Reply"}
  OBVIOUS
<1>2. w = IF prefix = "rr" THEN "Reply" ELSE "Request"
  OBVIOUS
<1> HIDE DEF prefix, w
<1>3. /\ s \in Seq(Word) /\ Len(s) = n + 2 /\ n \in Nat /\ n >= 1
      /\ \A k \in 1 .. n : s[1 + k] = name[k]
  BY <1>1, HalfWords
<1>4. s[1] = prefix /\ s[2] = "/" /\ s[n + 2] = w
  BY <1>1, HalfWords
<1> HIDE DEF s, n
<1>5. RosPrefix(s) = prefix
  <2>1. Len(s) >= 2
    BY <1>3
  <2> QED
    BY <1>1, <1>4, <2>1 DEF RosPrefix, RosPrefixes
<1>6. w \in Word
  BY <1>1, WordAssumption DEF Markers
<1>7. Occurrences(s, suffix) = {i \in 1 .. Len(s) : s[i] = w}
  BY <1>3, <1>6, WordPositions
<1> HIDE DEF suffix
<1>8. n + 2 \in Occurrences(s, suffix)
  <2>1. n + 2 \in 1 .. Len(s)
    BY <1>3
  <2> QED
    BY <1>4, <1>7, <2>1
<1>9. Occurrences(s, suffix) \subseteq 1 .. n + 2
  BY <1>3, <1>7
<1>10. Occurs(s, suffix) /\ Last(s, suffix) = n + 2
  <2>1. Occurrences(s, suffix) \in SUBSET Int /\ \A i \in Occurrences(s, suffix) : i <= n + 2
    BY <1>3, <1>9
  <2>2. Max(Occurrences(s, suffix)) = n + 2
    BY <1>8, <2>1, Extremes
  <2> QED
    BY <1>8, <2>2 DEF Occurs, Last
<1>11. ServiceOfTopic(s) = SubSeq(s, 2, Last(s, suffix) - 1)
  <2>1. prefix \in {"rr", "rq"}
    BY <1>1
  <2>2. suffix = IF prefix = "rr" THEN <<"Reply">> ELSE <<"Request">>
    BY <1>2 DEF suffix
  <2> QED
    BY <1>5, <1>10, <2>1, <2>2, Zenon DEF ServiceOfTopic
<1>12. SubSeq(s, 2, n + 1) = name
  <2> DEFINE found == SubSeq(s, 2, n + 1)
  <2>1. \A j \in 2 .. n + 1 : s[j] \in Word
    BY <1>3, ElementOfSeq
  <2>2. found \in Seq(Word) /\ Len(found) = n /\ \A k \in 1 .. n : found[k] = s[2 + k - 1]
    <3>1. /\ found \in Seq(Word)
          /\ Len(found) = IF 2 <= n + 1 THEN n + 1 - 2 + 1 ELSE 0
          /\ \A k \in 1 .. n + 1 - 2 + 1 : found[k] = s[2 + k - 1]
      BY <1>3, <2>1, SubSeqProperties
    <3> HIDE DEF found
    <3> QED
      BY <1>3, <3>1
  <2> HIDE DEF found
  <2>3. ASSUME NEW k \in 1 .. n PROVE found[k] = name[k]
    <3>1. 2 + k - 1 = 1 + k
      BY <1>3
    <3> QED
      BY <1>3, <2>2, <3>1
  <2>4. name \in Seq(Word) /\ Len(name) = n
    BY DEF ROSName, n
  <2>5. found = name
    BY <2>2, <2>3, <2>4, SeqEqual
  <2> QED
    BY <2>5 DEF found
<1>13. ServiceOfTopic(s) = name
  <2>1. Last(s, suffix) - 1 = n + 1
    BY <1>3, <1>10
  <2> QED
    BY <1>11, <1>12, <2>1
<1> QED
  BY <1>5, <1>13, Zenon DEF s, prefix, w

\* A word is in the topic of a service if it is its suffix, or in the name of the service.
LEMMA HalfOccurs ==
  ASSUME NEW name, ROSName(name), NEW prefix \in {"rq", "rr"},
         NEW suffix \in {"Request", "Reply"}, NEW word \in {"Request", "Reply"}
  PROVE  Occurs(Half(prefix, name, suffix), <<word>>)
            <=> word = suffix \/ Occurs(name, <<word>>)
<1> DEFINE s == Half(prefix, name, suffix)
           n == Len(name)
<1>1. /\ s \in Seq(Word) /\ Len(s) = n + 2 /\ n \in Nat
      /\ \A k \in 1 .. n : s[1 + k] = name[k]
  BY HalfWords
<1>2. s[1] = prefix /\ s[n + 2] = suffix
  BY HalfWords
<1> HIDE DEF s
<1>3. word \in Word /\ name \in Seq(Word) /\ prefix # word
  BY WordAssumption DEF ROSName, Markers
<1>4. Occurs(s, <<word>>) <=> \E i \in 1 .. Len(s) : s[i] = word
  BY <1>1, <1>3, WordPositions DEF Occurs
<1>5. Occurs(name, <<word>>) <=> \E k \in 1 .. n : name[k] = word
  BY <1>3, WordPositions DEF Occurs
<1> HIDE DEF n
<1>6. ASSUME NEW i \in 1 .. Len(s), s[i] = word
      PROVE  word = suffix \/ \E k \in 1 .. n : name[k] = word
  <2>1. CASE i = 1
    BY <1>2, <1>3, <1>6, <2>1
  <2>2. CASE i = n + 2
    BY <1>2, <1>6, <2>2
  <2>3. CASE i # 1 /\ i # n + 2
    <3>1. i - 1 \in 1 .. n /\ 1 + (i - 1) = i
      BY <1>1, <2>3
    <3>2. name[i - 1] = s[i]
      BY <1>1, <3>1
    <3> QED
      BY <1>6, <3>1, <3>2
  <2> QED
    BY <2>1, <2>2, <2>3
<1>7. ASSUME word = suffix PROVE \E i \in 1 .. Len(s) : s[i] = word
  <2>1. n + 2 \in 1 .. Len(s)
    BY <1>1
  <2> QED
    BY <1>2, <1>7, <2>1
<1>8. ASSUME NEW k \in 1 .. n, name[k] = word PROVE \E i \in 1 .. Len(s) : s[i] = word
  <2>1. 1 + k \in 1 .. Len(s) /\ s[1 + k] = name[k]
    BY <1>1
  <2> QED
    BY <1>8, <2>1
<1> QED
  BY <1>4, <1>5, <1>6, <1>7, <1>8 DEF s

\* The topics of raw services are taken for those of other systems.
LEMMA RawHalf ==
  ASSUME NEW name \in Seq(Word), name # <<>>, NEW suffix \in {"Request", "Reply"}
  PROVE  RosPrefix(name) = "" =>
            RosPrefix(name \o <<suffix>>) = "" /\ ServiceOfTopic(name \o <<suffix>>) = <<>>
<1> DEFINE back == <<suffix>>
           s == name \o back
           n == Len(name)
<1>1. back \in Seq(Word) /\ Len(back) = 1
  BY WordAssumption, Short DEF Markers
<1>2. back[1] = suffix
  OBVIOUS
<1>3. n \in Nat /\ n >= 1
  <2>1. n \in Nat \ {0}
    BY EmptySeq
  <2> QED
    BY <2>1
<1> HIDE DEF back
<1>4. /\ \A k \in 1 .. n : s[k] = name[k]
      /\ s[n + 1] = back[1]
  <2>1. /\ \A k \in 1 .. Len(name) : s[k] = name[k]
        /\ \A k \in 1 .. Len(back) : s[Len(name) + k] = back[k]
    BY <1>1, Joined
  <2> HIDE DEF s
  <2> QED
    BY <1>1, <1>3, <2>1
<1> HIDE DEF s, n
<1>5. n = 1 \/ (n >= 2 /\ 1 \in 1 .. n /\ 2 \in 1 .. n)
  BY <1>3
<1>6. CASE n = 1
  <2>1. s[2] = suffix
    <3>1. n + 1 = 2
      BY <1>6
    <3> QED
      BY <1>2, <1>4, <3>1
  <2> QED
    BY <2>1 DEF RosPrefix, ServiceOfTopic, s, back, n
<1>7. CASE n # 1
  <2>1. n >= 2 /\ 1 \in 1 .. n /\ 2 \in 1 .. n
    BY <1>7, <1>5
  <2>2. s[1] = name[1] /\ s[2] = name[2]
    BY <1>4, <2>1
  <2>3. RosPrefix(name) = "" => ~(name[1] \in RosPrefixes /\ name[2] = "/")
    BY <2>1 DEF RosPrefix, RosPrefixes, n
  <2> QED
    BY <2>2, <2>3 DEF RosPrefix, ServiceOfTopic, s, back, n
<1> QED
  BY <1>6, <1>7

-------------------------------------------------------------------------------
(* The caches *)

\* An entity that exists has the QoS its profile is converted to, and was not refused.
Converted ==
    \A e \in Entity : Created(e) =>
        LET default == DefaultQos(made[e].kind)
        IN  ~Refused(made[e].profile, default) /\ dds[e] = ToDds(made[e].profile, default)

\* A topic that is there has a type that somebody asked for.
TopicTyped ==
    /\ DOMAIN step = Entity /\ DOMAIN topicType = Entity
    /\ \A e \in Entity : step[e] = "made" => \E f \in Entity : made[f].type = topicType[e]

\* What is in a cache has been created, for which a publisher or subscription has a topic.
Cached ==
    /\ \A e \in pubs \cup subs : Created(e)
    /\ \A e \in Entity : Created(e) /\ IsTopic(e) => step[e] = "made"

IInv ==
    /\ TopicTyped
    /\ Cached
    /\ made \in [Entity -> Request]
    /\ DOMAIN dds = Entity
    /\ pubs \subseteq Entity /\ \A e \in pubs : HasWriter(e)
    /\ subs \subseteq Entity /\ \A e \in subs : HasReader(e)
    /\ Converted

\* The topic that a thread finds has the type it was created with, and the one it creates
\* the type it asks for.
LEMMA TopicKept ==
  ASSUME TopicTyped, NEW e \in Entity, LookUpTopic(e) \/ FindTopic(e) \/ CreateTopic(e)
  PROVE  TopicTyped'
<1>1. CASE LookUpTopic(e)
  BY <1>1 DEF LookUpTopic, TopicTyped
<1>2. CASE FindTopic(e)
  <2>1. PICK type \in Existing(e) : topicType' = [topicType EXCEPT ![e] = type]
    BY <1>2 DEF FindTopic
  <2>2. PICK f \in Entity : made[f].type = type
    BY <2>1 DEF Existing, TopicTyped
  <2> QED
    BY <1>2, <2>1, <2>2 DEF FindTopic, TopicTyped
<1>3. CASE CreateTopic(e)
  BY <1>3 DEF CreateTopic, TopicTyped
<1> QED
  BY <1>1, <1>2, <1>3

\* Only a creation gives an entity its QoS, and nothing changes it afterwards.
LEMMA Inductive == Spec => []IInv
<1> USE DEF IInv, Converted
<1>1. Init => IInv
  BY DEF Init, Created, TopicTyped, Cached
<1>2. IInv /\ [Next]_vars => IInv'
  <2> SUFFICES ASSUME IInv, [Next]_vars PROVE IInv'
    OBVIOUS
  <2>1. ASSUME NEW e \in Entity, Create(e) PROVE IInv'
    <3>1. UNCHANGED <<made, step, topicType, pubs, subs>> /\ DOMAIN dds' = Entity
      BY <2>1 DEF Create, topicVars
    <3>2. ASSUME NEW f \in Entity, f # e PROVE dds'[f] = dds[f]
      BY <2>1, <3>2 DEF Create
    <3>3. /\ ~Refused(made[e].profile, DefaultQos(made[e].kind))
          /\ dds'[e] = ToDds(made[e].profile, DefaultQos(made[e].kind))
      BY <2>1 DEF Create
    <3>4. TopicTyped'
      BY <3>1 DEF TopicTyped
    <3>5. Cached'
      BY <2>1, <3>1, <3>2 DEF Cached, Create, Created, IsTopic
    <3> QED
      BY <3>1, <3>2, <3>3, <3>4, <3>5 DEF Created, HasWriter, HasReader
  <2>2. ASSUME NEW e \in Entity, LookUpTopic(e) \/ FindTopic(e) \/ CreateTopic(e)
        PROVE  IInv'
    <3>1. TopicTyped'
      BY <2>2, TopicKept
    <3>2. Cached'
      <4>1. UNCHANGED <<made, dds, pubs, subs>> /\ step[e] # "made"
        BY <2>2 DEF LookUpTopic, FindTopic, CreateTopic
      <4>2. \A f \in Entity \ {e} : step'[f] = step[f]
        BY <2>2 DEF LookUpTopic, FindTopic, CreateTopic, TopicTyped
      <4> QED
        BY <4>1, <4>2 DEF Cached, Created, IsTopic
    <3> QED
      BY <2>2, <3>1, <3>2
         DEF LookUpTopic, FindTopic, CreateTopic, Created, HasWriter, HasReader
  <2>3. ASSUME NEW e \in Entity, AddSub(e) \/ AddPub(e) \/ RemovePub(e) \/ RemoveSub(e)
        PROVE  IInv'
    BY <2>3 DEF AddSub, AddPub, RemovePub, RemoveSub, Created, HasWriter, HasReader,
                topicVars, TopicTyped, IsTopic, Cached
  <2>4. CASE UNCHANGED vars
    BY <2>4 DEF vars, Created, HasWriter, HasReader, TopicTyped, IsTopic, Cached
  <2> QED
    BY <2>1, <2>2, <2>3, <2>4 DEF Next
<1> QED
  BY <1>1, <1>2, PTL DEF Spec

\* The topic of a cache entry is a name.
LEMMA TopicType ==
  ASSUME IInv, NEW e \in Entity, NEW part \in {"Message", "Request", "Response"}
  PROVE  Info(e, part).topic \in Seq(Word)
<1> DEFINE name == made[e].name
           raw == made[e].raw
<1>1. name \in Seq(Word) /\ raw \in BOOLEAN
  BY RequestType DEF IInv
<1>2. \A w \in RosPrefixes \cup {"Request", "Reply"} : <<w>> \in Seq(Word)
  BY Single, WordAssumption DEF Markers
<1> HIDE DEF name, raw
<1>3. \A w \in RosPrefixes : Prefixed(w, name, raw) \in Seq(Word)
  BY <1>1, <1>2 DEF Prefixed
<1>4. /\ TopicName(name, raw) \in Seq(Word)
      /\ RequestName(name, raw) \in Seq(Word)
      /\ ReplyName(name, raw) \in Seq(Word)
  BY <1>2, <1>3 DEF TopicName, RequestName, ReplyName, RosPrefixes
<1> QED
  BY <1>4 DEF Info, name, raw

\* Both caches are finite, and their topics are names.
LEMMA InfosType ==
  ASSUME IInv, NEW infos \in {PubInfos, SubInfos}
  PROVE  IsFiniteSet(infos) /\ \A i \in infos : i.topic \in Seq(Word)
<1>1. \A e \in Entity : made[e].kind \in Kind
  BY RequestType DEF IInv
<1>2. IsFiniteSet(pubs) /\ IsFiniteSet(subs)
  BY EntityAssumption, FS_Subset DEF IInv
<1>3. CASE infos = PubInfos
  <2> DEFINE f == [e \in pubs |-> Info(e, WriterPart[made[e].kind])]
  <2>1. f \in Surjection(pubs, PubInfos)
    BY DEF Surjection, PubInfos
  <2>2. IsFiniteSet(PubInfos)
    BY <1>2, <2>1, FS_Surjection DEF ExistsSurjection
  <2>3. \A e \in pubs : WriterPart[made[e].kind] \in {"Message", "Request", "Response"}
    BY <1>1 DEF IInv, HasWriter, Kind, WriterPart
  <2>4. \A e \in pubs : Info(e, WriterPart[made[e].kind]).topic \in Seq(Word)
    BY <2>3, TopicType DEF IInv
  <2> QED
    BY <1>3, <2>2, <2>4 DEF PubInfos
<1>4. CASE infos = SubInfos
  <2> DEFINE f == [e \in subs |-> Info(e, ReaderPart[made[e].kind])]
  <2>1. f \in Surjection(subs, SubInfos)
    BY DEF Surjection, SubInfos
  <2>2. IsFiniteSet(SubInfos)
    BY <1>2, <2>1, FS_Surjection DEF ExistsSurjection
  <2>3. \A e \in subs : ReaderPart[made[e].kind] \in {"Message", "Request", "Response"}
    BY <1>1 DEF IInv, HasReader, Kind, ReaderPart
  <2>4. \A e \in subs : Info(e, ReaderPart[made[e].kind]).topic \in Seq(Word)
    BY <2>3, TopicType DEF IInv
  <2> QED
    BY <1>4, <2>2, <2>4 DEF SubInfos
<1> QED
  BY <1>3, <1>4

-------------------------------------------------------------------------------
(* The answers *)

\* What an entry of a cache shows of the entity it is of: a topic, a service, or nothing.
Shown(i, e) ==
    /\ i.node = made[e].node /\ i.topic \in Seq(Word)
    /\ RosPrefix(i.topic) = "rt" <=> IsRosTopic(e)
    /\ IsRosTopic(e) =>
          [name |-> DemangleTopic(i.topic), type |-> DemangleType(i.type)] = AsTopic(e)
    /\ ServiceOfTopic(i.topic) # <<>> /\ ServiceType(i.type) # <<>> <=> IsListed(e)
    /\ IsListed(e) =>
          [name |-> ServiceOfTopic(i.topic), type |-> StripSample(ServiceType(i.type))]
              = AsService(e)

\* What an entity is created with.
LEMMA RequestOf ==
  ASSUME IInv, NEW e \in Entity
  PROVE  LET r == made[e]
         IN  /\ r \in Request /\ r.kind \in Kind /\ r.raw \in BOOLEAN
             /\ r.name \in Seq(Word) /\ r.name # <<>> /\ r.type \in RosidlType
             /\ ~r.raw => ROSName(r.name)
             /\ r.raw /\ ~IsTopic(e) => RosPrefix(r.name) = ""
<1>1. made[e] \in Request
  BY DEF IInv
<1>2. /\ made[e].kind \in Kind /\ made[e].raw \in BOOLEAN
      /\ made[e].name \in Seq(Word) /\ made[e].name # <<>>
  BY <1>1, RequestType
<1>3. made[e].type \in RosidlType
  BY <1>1, TypesAssumption
<1>4. ~made[e].raw => ROSName(made[e].name)
  BY <1>1, <1>2, NamesAssumption DEF ROSName
<1>5. made[e].raw /\ ~IsTopic(e) => RosPrefix(made[e].name) = ""
  BY <1>1, <1>2, NamesAssumption DEF IsTopic, Kind
<1> QED
  BY <1>1, <1>2, <1>3, <1>4, <1>5

\* The entry of a publisher or subscription shows its topic.
LEMMA TopicShown ==
  ASSUME IInv, NEW e \in pubs \cup subs, IsTopic(e)
  PROVE  Shown(Info(e, "Message"), e)
<1> DEFINE i == Info(e, "Message")
           name == made[e].name
<1>1. e \in Entity
  BY DEF IInv
<1>2. i.node = made[e].node /\ i.topic = TopicName(name, made[e].raw)
  BY DEF Info
<1>3. i.type = TypeName(MessageType(e))
  BY DEF Info
<1>4. i.topic \in Seq(Word)
  BY <1>1, TopicType
<1> HIDE DEF i
<1>5. MessageType(e) \in RosidlType
  <2>1. CASE IsLocal(e)
    BY <1>1, <2>1, RequestOf DEF MessageType
  <2>2. CASE ~IsLocal(e)
    <3>1. step[e] = "made"
      BY <1>1 DEF IInv, Cached
    <3>2. PICK f \in Entity : made[f].type = topicType[e]
      BY <1>1, <3>1 DEF IInv, TopicTyped
    <3> QED
      BY <2>2, <3>2, RequestOf DEF MessageType
  <2> QED
    BY <2>1, <2>2
<1>6. DemangleType(i.type) = ShownType(e) /\ ServiceType(i.type) = <<>>
  BY <1>3, <1>5, TypeShown, TopicNoService DEF ShownType
<1>7. /\ RosPrefix(i.topic) = "rt" <=> IsRosTopic(e)
      /\ IsRosTopic(e) => DemangleTopic(i.topic) = RosName(e)
  <2>1. CASE made[e].raw
    <3>1. i.topic = name
      BY <1>2, <2>1 DEF TopicName, Prefixed
    <3> QED
      BY <2>1, <3>1 DEF IsRosTopic, DemangleTopic, RosName
  <2>2. CASE ~made[e].raw
    <3>1. ROSName(name) /\ "rt" \in RosPrefixes
      BY <1>1, <2>2, RequestOf DEF RosPrefixes
    <3>2. i.topic = <<"rt">> \o name
      BY <1>2, <2>2 DEF TopicName, Prefixed
    <3>3. RosPrefix(i.topic) = "rt"
      <4> DEFINE topic == <<"rt">> \o name
      <4>1. Len(topic) >= 2
        BY <3>1, Prefixing
      <4>2. topic[1] = "rt" /\ topic[2] = "/"
        BY <3>1, Prefixing
      <4> HIDE DEF topic
      <4>3. RosPrefix(topic) = "rt"
        BY <3>1, <4>1, <4>2 DEF RosPrefix
      <4> QED
        BY <3>2, <4>3 DEF topic
    <3>4. DemangleTopic(i.topic) = name
      BY <3>1, <3>2, Demangled
    <3> QED
      BY <2>2, <3>3, <3>4 DEF IsRosTopic, RosName
  <2> QED
    BY <2>1, <2>2
<1>8. ~IsListed(e)
  BY DEF IsListed
<1> QED
  BY <1>2, <1>4, <1>6, <1>7, <1>8 DEF Shown, AsTopic, i

\* Either entry of a client or server shows its service; what can be said of the words
\* in its topic.
LEMMA ServiceShown ==
  ASSUME IInv, NEW e \in Entity, ~IsTopic(e), NEW part \in {"Request", "Response"}
  PROVE  /\ Shown(Info(e, part), e)
         /\ IsListed(e) => \A word \in {"Request", "Reply"} :
                Occurs(Info(e, part).topic, <<word>>)
                    <=> \/ word = IF part = "Request" THEN "Request" ELSE "Reply"
                        \/ Occurs(made[e].name, <<word>>)
<1> DEFINE i == Info(e, part)
           name == made[e].name
           type == made[e].type
           half == IF part = "Request" THEN <<"rq", "Request">> ELSE <<"rr", "Reply">>
<1>1. i.node = made[e].node /\ i.type = ServiceTypeName(type, part)
  BY DEF Info
<1>2. i.topic = Prefixed(half[1], name, made[e].raw) \o <<half[2]>>
  BY DEF Info, RequestName, ReplyName
<1>3. i.topic \in Seq(Word)
  BY TopicType
<1>4. half \in {<<"rq", "Request">>, <<"rr", "Reply">>}
  OBVIOUS
<1>5. /\ half[1] \in {"rq", "rr"} /\ half[1] # "rt" /\ half[2] \in {"Request", "Reply"}
      /\ half[2] = IF part = "Request" THEN "Request" ELSE "Reply"
  OBVIOUS
<1> HIDE DEF i, half
<1>6. type \in RosidlType /\ name \in Seq(Word) /\ name # <<>>
  BY RequestOf
<1>7. ServiceType(i.type) = IF type.directory = "::srv" THEN RosTypeName(type) ELSE <<>>
  BY <1>1, <1>6, ServiceTypeShown
<1>8. RosTypeName(type) # <<>>
  <2>1. RosTypeName(type) = <<type.package, "/">> \o type.name
    BY DEF RosTypeName
  <2>2. /\ <<type.package, "/">> \in Seq(Word) /\ Len(<<type.package, "/">>) = 2
        /\ type.name \in Seq(Word)
    BY <1>6, WordAssumption, Short, SeqMonotonic,
       Word \ {"/", "_", "::msg", "::srv"} \subseteq Word DEF RosidlType, Markers
  <2>3. Len(RosTypeName(type)) = 2 + Len(type.name) /\ Len(type.name) \in Nat
    BY <2>1, <2>2, Joined
  <2>4. Len(RosTypeName(type)) # 0
    BY <2>3
  <2> QED
    BY <2>4, EmptySeq
<1>9. StripSample(RosTypeName(type)) = RosTypeName(BareType(type))
  BY <1>6, Stripped
<1>10. ~IsRosTopic(e)
  BY DEF IsRosTopic
<1>11. CASE made[e].raw
  <2>1. i.topic = name \o <<half[2]>>
    BY <1>2, <1>11 DEF Prefixed
  <2>2. RosPrefix(name) = ""
    BY <1>11, RequestOf
  <2>3. RosPrefix(i.topic) = "" /\ ServiceOfTopic(i.topic) = <<>>
    BY <1>5, <1>6, <2>1, <2>2, RawHalf
  <2>4. ~IsListed(e)
    BY <1>11 DEF IsListed
  <2> QED
    BY <1>1, <1>3, <1>10, <2>3, <2>4 DEF Shown, i
<1>12. CASE ~made[e].raw
  <2>1. i.topic = Half(half[1], name, half[2])
    BY <1>2, <1>12 DEF Prefixed, Half
  <2>2. ROSName(name)
    BY <1>12, RequestOf
  <2>3. RosPrefix(i.topic) = half[1] /\ ServiceOfTopic(i.topic) = name
    BY <1>4, <2>1, <2>2, HalfDemangled
  <2>4. \A word \in {"Request", "Reply"} :
          Occurs(i.topic, <<word>>) <=> word = half[2] \/ Occurs(name, <<word>>)
    BY <1>5, <2>1, <2>2, HalfOccurs
  <2>5. IsListed(e) <=> type.directory = "::srv"
    BY <1>12 DEF IsListed
  <2>6. RosPrefix(i.topic) # "rt"
    BY <1>5, <2>3
  <2>7. ServiceOfTopic(i.topic) # <<>> /\ ServiceType(i.type) # <<>> <=> IsListed(e)
    BY <1>6, <1>7, <1>8, <2>3, <2>5
  <2>8. IsListed(e) =>
          [name |-> ServiceOfTopic(i.topic), type |-> StripSample(ServiceType(i.type))]
              = AsService(e)
    BY <1>7, <1>9, <2>3, <2>5 DEF AsService
  <2>9. Shown(i, e)
    BY <1>1, <1>3, <1>10, <2>6, <2>7, <2>8 DEF Shown
  <2> QED
    BY <1>5, <2>4, <2>9 DEF i
<1> QED
  BY <1>11, <1>12

\* Every entry shows its entity.
LEMMA AllShown ==
  ASSUME IInv
  PROVE  /\ \A e \in pubs : Shown(Info(e, WriterPart[made[e].kind]), e)
         /\ \A e \in subs : Shown(Info(e, ReaderPart[made[e].kind]), e)
<1>1. ASSUME NEW e \in pubs PROVE Shown(Info(e, WriterPart[made[e].kind]), e)
  <2>1. e \in Entity /\ made[e].kind \in Kind \ {"subscription"}
    BY RequestOf DEF IInv, HasWriter
  <2>2. CASE made[e].kind = "publisher"
    <3>1. IsTopic(e) /\ WriterPart[made[e].kind] = "Message"
      BY <2>2 DEF IsTopic, WriterPart
    <3> QED
      BY <3>1, TopicShown
  <2>3. CASE made[e].kind \in {"client", "server"}
    <3>1. ~IsTopic(e) /\ WriterPart[made[e].kind] \in {"Request", "Response"}
      BY <2>3 DEF IsTopic, WriterPart
    <3> QED
      BY <2>1, <3>1, ServiceShown
  <2> QED
    BY <2>1, <2>2, <2>3 DEF Kind
<1>2. ASSUME NEW e \in subs PROVE Shown(Info(e, ReaderPart[made[e].kind]), e)
  <2>1. e \in Entity /\ made[e].kind \in Kind \ {"publisher"}
    BY RequestOf DEF IInv, HasReader
  <2>2. CASE made[e].kind = "subscription"
    <3>1. IsTopic(e) /\ ReaderPart[made[e].kind] = "Message"
      BY <2>2 DEF IsTopic, ReaderPart
    <3> QED
      BY <3>1, TopicShown
  <2>3. CASE made[e].kind \in {"client", "server"}
    <3>1. ~IsTopic(e) /\ ReaderPart[made[e].kind] \in {"Request", "Response"}
      BY <2>3 DEF IsTopic, ReaderPart
    <3> QED
      BY <2>1, <3>1, ServiceShown
  <2> QED
    BY <2>1, <2>2, <2>3 DEF Kind
<1> QED
  BY <1>1, <1>2

\* Two ROS topics that are demangled to one name are one topic.
LEMMA SameRosTopic ==
  ASSUME NEW s \in Seq(Word), NEW t \in Seq(Word),
         RosPrefix(s) = "rt", RosPrefix(t) = "rt", DemangleTopic(s) = DemangleTopic(t)
  PROVE  s = t
<1>1. Len(s) >= 2 /\ Len(t) >= 2 /\ Len(s) \in Nat /\ Len(t) \in Nat
  BY LenProperties DEF RosPrefix
<1>2. s[1] = t[1] /\ Tail(s) = Tail(t)
  <2>1. s[1] = "rt" /\ t[1] = "rt"
    BY DEF RosPrefix
  <2>2. DemangleTopic(s) = Tail(s) /\ DemangleTopic(t) = Tail(t)
    BY DEF DemangleTopic
  <2> QED
    BY <2>1, <2>2
<1>3. /\ Len(Tail(s)) = Len(s) - 1 /\ \A k \in 1 .. Len(s) - 1 : Tail(s)[k] = s[k + 1]
      /\ Len(Tail(t)) = Len(t) - 1 /\ \A k \in 1 .. Len(t) - 1 : Tail(t)[k] = t[k + 1]
  <2>1. s # <<>> /\ t # <<>>
    BY <1>1, EmptySeq
  <2> QED
    BY <2>1, HeadTailProperties
<1>4. Len(s) = Len(t)
  BY <1>1, <1>2, <1>3
<1>5. ASSUME NEW i \in 1 .. Len(s) PROVE s[i] = t[i]
  <2>1. CASE i = 1
    BY <1>2, <2>1
  <2>2. CASE i # 1
    <3>1. i - 1 \in 1 .. Len(s) - 1 /\ i - 1 + 1 = i
      BY <1>1, <2>2
    <3> QED
      BY <1>2, <1>3, <1>4, <3>1
  <2> QED
    BY <2>1, <2>2
<1> QED
  BY <1>4, <1>5, SeqEqual

\* From entries that show their entities, the list of the topics tells of just the
\* entities that have one.
LEMMA TopicsTold ==
  ASSUME NEW infos, NEW entities,
         \A i \in infos : \E e \in entities : Shown(i, e),
         \A e \in entities : \E i \in infos : Shown(i, e)
  PROVE  Tells(TopicNamesTypes(infos, FALSE),
               {AsTopic(e) : e \in {f \in entities : IsRosTopic(f)}})
<1> DEFINE kept == {i \in infos : RosPrefix(i.topic) = "rt"}
           told == {AsTopic(e) : e \in {f \in entities : IsRosTopic(f)}}
           Types(topic) == {DemangleType(i.type) : i \in {j \in kept : j.topic = topic}}
           Entry(topic) == [dds |-> topic, name |-> DemangleTopic(topic), types |-> Types(topic)]
           answer == {Entry(topic) : topic \in {i.topic : i \in kept}}
<1>1. answer = TopicNamesTypes(infos, FALSE)
  BY DEF TopicNamesTypes
<1>2. ASSUME NEW i \in kept
      PROVE  [name |-> DemangleTopic(i.topic), type |-> DemangleType(i.type)] \in told
  BY DEF Shown
<1>3. ASSUME NEW u \in told
      PROVE  \E i \in kept : u = [name |-> DemangleTopic(i.topic), type |-> DemangleType(i.type)]
  BY DEF Shown
<1>4. ASSUME NEW i \in kept, NEW j \in kept, DemangleTopic(i.topic) = DemangleTopic(j.topic)
      PROVE  i.topic = j.topic
  <2>1. i.topic \in Seq(Word) /\ j.topic \in Seq(Word)
    BY DEF Shown
  <2> QED
    BY <1>4, <2>1, SameRosTopic
<1> HIDE DEF kept, told
<1>5. \A u \in told : u = [name |-> u.name, type |-> u.type]
  BY <1>3
<1>6. {x.name : x \in answer} = {u.name : u \in told}
  <2>1. ASSUME NEW i \in kept PROVE DemangleTopic(i.topic) \in {u.name : u \in told}
    <3> DEFINE w == [name |-> DemangleTopic(i.topic), type |-> DemangleType(i.type)]
    <3>1. w \in told /\ w.name = DemangleTopic(i.topic)
      BY <1>2
    <3> QED
      BY <3>1
  <2>2. ASSUME NEW u \in told PROVE \E x \in answer : u.name = x.name
    <3>1. PICK i \in kept : u = [name |-> DemangleTopic(i.topic), type |-> DemangleType(i.type)]
      BY <1>3
    <3>2. Entry(i.topic) \in answer /\ Entry(i.topic).name = u.name
      BY <3>1
    <3> QED
      BY <3>2
  <2>3. ASSUME NEW x \in answer PROVE x.name \in {u.name : u \in told}
    BY <2>1
  <2> HIDE DEF answer
  <2> QED
    BY <2>2, <2>3
<1>7. ASSUME NEW x \in answer
      PROVE  /\ x.types = {u.type : u \in {v \in told : v.name = x.name}}
             /\ \A y \in answer : y.name = x.name => y = x
  <2>1. PICK i \in kept : x = Entry(i.topic)
    OBVIOUS
  <2>2. x.name = DemangleTopic(i.topic) /\ x.types = Types(i.topic)
    BY <2>1
  <2>3. ASSUME NEW t \in Types(i.topic)
        PROVE  \E u \in told : u.name = x.name /\ u.type = t
    BY <1>2, <2>2
  <2>4. ASSUME NEW u \in told, u.name = x.name PROVE u.type \in Types(i.topic)
    BY <1>3, <1>4, <2>2, <2>4
  <2>5. ASSUME NEW y \in answer, y.name = x.name PROVE y = x
    <3>1. PICK j \in kept : y = Entry(j.topic)
      OBVIOUS
    <3>2. j.topic = i.topic
      BY <1>4, <2>2, <2>5, <3>1
    <3> QED
      BY <2>1, <3>1, <3>2
  <2>6. Types(i.topic) = {u.type : u \in {v \in told : v.name = x.name}}
    BY <2>3, <2>4
  <2> QED
    BY <2>2, <2>5, <2>6
<1> HIDE DEF answer
<1>8. Tells(answer, told)
  BY <1>6, <1>7 DEF Tells
<1> QED
  BY <1>1, <1>8 DEF told

\* From entries that show their entities, the list of the services tells of just the
\* entities that have one which is listed.
LEMMA ServicesTold ==
  ASSUME NEW infos, NEW entities,
         \A i \in infos : \E e \in entities : Shown(i, e),
         \A e \in entities : \E i \in infos : Shown(i, e)
  PROVE  Tells(ServiceNamesTypes(infos),
               {AsService(e) : e \in {f \in entities : IsListed(f)}})
<1> DEFINE kept == {i \in infos : ServiceOfTopic(i.topic) # <<>> /\ ServiceType(i.type) # <<>>}
           told == {AsService(e) : e \in {f \in entities : IsListed(f)}}
           Types(service) == {StripSample(ServiceType(i.type)) :
                                i \in {j \in kept : ServiceOfTopic(j.topic) = service}}
           Entry(service) == [name |-> service, types |-> Types(service)]
           answer == {Entry(service) : service \in {ServiceOfTopic(i.topic) : i \in kept}}
<1>1. answer = ServiceNamesTypes(infos)
  BY DEF ServiceNamesTypes
<1>2. ASSUME NEW i \in kept
      PROVE  [name |-> ServiceOfTopic(i.topic), type |-> StripSample(ServiceType(i.type))] \in told
  BY DEF Shown
<1>3. ASSUME NEW u \in told
      PROVE  \E i \in kept :
                u = [name |-> ServiceOfTopic(i.topic), type |-> StripSample(ServiceType(i.type))]
  BY DEF Shown
<1> HIDE DEF kept, told
<1>4. {x.name : x \in answer} = {u.name : u \in told}
  <2>1. ASSUME NEW i \in kept PROVE ServiceOfTopic(i.topic) \in {u.name : u \in told}
    <3> DEFINE w == [name |-> ServiceOfTopic(i.topic), type |-> StripSample(ServiceType(i.type))]
    <3>1. w \in told /\ w.name = ServiceOfTopic(i.topic)
      BY <1>2
    <3> QED
      BY <3>1
  <2>2. ASSUME NEW u \in told PROVE \E x \in answer : u.name = x.name
    <3>1. PICK i \in kept : u = [name |-> ServiceOfTopic(i.topic),
                                  type |-> StripSample(ServiceType(i.type))]
      BY <1>3
    <3>2. Entry(ServiceOfTopic(i.topic)) \in answer /\ Entry(ServiceOfTopic(i.topic)).name = u.name
      BY <3>1
    <3> QED
      BY <3>2
  <2>3. ASSUME NEW x \in answer PROVE x.name \in {u.name : u \in told}
    BY <2>1
  <2> HIDE DEF answer
  <2> QED
    BY <2>2, <2>3
<1>5. ASSUME NEW x \in answer
      PROVE  /\ x.types = {u.type : u \in {v \in told : v.name = x.name}}
             /\ \A y \in answer : y.name = x.name => y = x
  <2>1. PICK i \in kept : x = Entry(ServiceOfTopic(i.topic))
    OBVIOUS
  <2>2. x.name = ServiceOfTopic(i.topic) /\ x.types = Types(x.name)
    BY <2>1
  <2>3. ASSUME NEW t \in Types(x.name)
        PROVE  \E u \in told : u.name = x.name /\ u.type = t
    BY <1>2
  <2>4. ASSUME NEW u \in told, u.name = x.name PROVE u.type \in Types(x.name)
    BY <1>3, <2>4
  <2>5. ASSUME NEW y \in answer, y.name = x.name PROVE y = x
    BY <2>1, <2>5
  <2> QED
    BY <2>2, <2>3, <2>4, <2>5
<1> HIDE DEF answer
<1>6. Tells(answer, told)
  BY <1>4, <1>5 DEF Tells
<1> QED
  BY <1>1, <1>6 DEF told

-------------------------------------------------------------------------------
(* The theorems *)

\* An element of a product is the pair of its components.
LEMMA Pair ==
  ASSUME NEW A, NEW B, NEW x \in A \X B
  PROVE  x = <<x[1], x[2]>> /\ x[1] \in A /\ x[2] \in B
  OBVIOUS

\* For a ROS name, count_topic and _get_info_by_topic look at the same entries: the names
\* with a prefix that the latter also tries match nothing.
LEMMA CountIsInfo ==
  ASSUME NEW infos, IsFiniteSet(infos), \A i \in infos : i.topic \in Seq(Word),
         NEW name, ROSName(name)
  PROVE  CountTopic(infos, name) = Cardinality(InfoByTopic(infos, name, FALSE))
<1> DEFINE found == {i \in infos : DemangleTopic(i.topic) = name}
<1>1. InfoByTopic(infos, name, FALSE) = {name} \X found
  <2>1. ASSUME NEW x \in TopicFqdns(name, FALSE) \X infos,
               x[1] = DemangleTopic(x[2].topic)
        PROVE  x \in {name} \X found
    <3>1. x = <<x[1], x[2]>> /\ x[1] \in TopicFqdns(name, FALSE) /\ x[2] \in infos
      BY Pair
    <3>2. x[1] = name
      BY <2>1, <3>1, NoPrefixLeft DEF TopicFqdns
    <3>3. x[2] \in found
      BY <2>1, <3>1, <3>2
    <3> QED
      BY <3>1, <3>2, <3>3
  <2>2. ASSUME NEW i \in found
        PROVE  <<name, i>> \in InfoByTopic(infos, name, FALSE)
    BY DEF InfoByTopic, TopicFqdns
  <2> QED
    BY <2>1, <2>2 DEF InfoByTopic
<1>2. IsFiniteSet(found)
  BY FS_Subset
<1>3. Cardinality({name} \X found) = Cardinality({name}) * Cardinality(found)
  BY <1>2, FS_Product, FS_Singleton
<1>4. Cardinality({name}) = 1 /\ Cardinality(found) \in Nat
  BY <1>2, FS_Singleton, FS_CardinalityType
<1>5. CountTopic(infos, name) = Cardinality(found)
  BY DEF CountTopic
<1> HIDE DEF found
<1>6. Cardinality({name} \X found) = Cardinality(found)
  BY <1>3, <1>4
<1> QED
  BY <1>1, <1>5, <1>6

\* The count of the publishers (subscriptions) on any ROS name is the number of their
\* endpoint infos, whatever else is in the graph.
THEOREM CountAlwaysMatchesInfo == Spec => []CountMatchesInfo
<1>1. IInv => CountMatchesInfo
  <2> SUFFICES ASSUME IInv, NEW name \in RosNames, NEW infos \in {PubInfos, SubInfos}
               PROVE  CountTopic(infos, name) = Cardinality(InfoByTopic(infos, name, FALSE))
    BY DEF CountMatchesInfo
  <2>1. ROSName(name)
    BY RequestType DEF IInv, RosNames, ROSName
  <2> QED
    BY <2>1, InfosType, CountIsInfo
<1> QED
  BY <1>1, Inductive, PTL

\* Two names never share a DDS topic, as topics or as services, and a topic never shares one
\* with a service, nor a request with a reply, whatever words are in the names: who has
\* one name does not match with who has the other (create_topic_name, create_request_name,
\* create_reply_name).
THEOREM NamesNeverClash ==
  ASSUME NEW name, ROSName(name), NEW other, ROSName(other)
  PROVE  /\ TopicName(name, FALSE) = TopicName(other, FALSE) => name = other
         /\ RequestName(name, FALSE) = RequestName(other, FALSE) => name = other
         /\ ReplyName(name, FALSE) = ReplyName(other, FALSE) => name = other
         /\ TopicName(name, FALSE) \notin {RequestName(other, FALSE), ReplyName(other, FALSE)}
         /\ RequestName(name, FALSE) # ReplyName(other, FALSE)
<1>1. ASSUME NEW n, ROSName(n)
      PROVE  DemangleTopic(TopicName(n, FALSE)) = n /\ RosPrefix(TopicName(n, FALSE)) = "rt"
  <2> DEFINE topic == <<"rt">> \o n
  <2>1. topic = TopicName(n, FALSE) /\ "rt" \in RosPrefixes
    BY DEF TopicName, Prefixed, RosPrefixes
  <2>2. DemangleTopic(topic) = n
    BY <1>1, <2>1, Demangled
  <2>3. Len(topic) >= 2
    BY <1>1, <2>1, Prefixing
  <2>4. topic[1] = "rt" /\ topic[2] = "/"
    BY <1>1, <2>1, Prefixing
  <2> HIDE DEF topic
  <2>5. RosPrefix(topic) = "rt"
    BY <2>1, <2>3, <2>4 DEF RosPrefix
  <2> QED
    BY <2>1, <2>2, <2>5
<1>2. ASSUME NEW n, ROSName(n)
      PROVE  /\ ServiceOfTopic(RequestName(n, FALSE)) = n
             /\ RosPrefix(RequestName(n, FALSE)) = "rq"
  <2>1. RequestName(n, FALSE) = Half("rq", n, "Request")
    BY DEF RequestName, Prefixed, Half
  <2>2. LET s == Half(<<"rq", "Request">>[1], n, <<"rq", "Request">>[2])
        IN  RosPrefix(s) = <<"rq", "Request">>[1] /\ ServiceOfTopic(s) = n
    BY <1>2, HalfDemangled
  <2> QED
    BY <2>1, <2>2
<1>3. ASSUME NEW n, ROSName(n)
      PROVE  /\ ServiceOfTopic(ReplyName(n, FALSE)) = n
             /\ RosPrefix(ReplyName(n, FALSE)) = "rr"
  <2>1. ReplyName(n, FALSE) = Half("rr", n, "Reply")
    BY DEF ReplyName, Prefixed, Half
  <2>2. LET s == Half(<<"rr", "Reply">>[1], n, <<"rr", "Reply">>[2])
        IN  RosPrefix(s) = <<"rr", "Reply">>[1] /\ ServiceOfTopic(s) = n
    BY <1>3, HalfDemangled
  <2> QED
    BY <2>1, <2>2
<1>4. /\ TopicName(name, FALSE) = TopicName(other, FALSE) => name = other
      /\ RequestName(name, FALSE) = RequestName(other, FALSE) => name = other
      /\ ReplyName(name, FALSE) = ReplyName(other, FALSE) => name = other
  BY <1>1, <1>2, <1>3, Zenon
<1>5. /\ RosPrefix(TopicName(name, FALSE)) = "rt"
      /\ RosPrefix(RequestName(name, FALSE)) = "rq"
      /\ RosPrefix(RequestName(other, FALSE)) = "rq"
      /\ RosPrefix(ReplyName(other, FALSE)) = "rr"
  BY <1>1, <1>2, <1>3
<1> QED
  BY <1>4, <1>5

\* The list of the topics of a node, and of the publishers and subscriptions of any node,
\* has just the ROS topics of the cached entities, once, with their names and types: for
\* any names, any number of entities, and whatever raw topics there are.
THEOREM TopicsAlwaysListed == Spec => []TopicsListed
<1>1. IInv => TopicsListed
  <2> SUFFICES ASSUME IInv PROVE TopicsListed
    OBVIOUS
  <2>1. /\ \A e \in pubs : Shown(Info(e, WriterPart[made[e].kind]), e)
        /\ \A e \in subs : Shown(Info(e, ReaderPart[made[e].kind]), e)
    BY AllShown
  <2>2. /\ \A i \in PubInfos : \E e \in pubs : Shown(i, e)
        /\ \A e \in pubs : \E i \in PubInfos : Shown(i, e)
    BY <2>1 DEF PubInfos
  <2>3. /\ \A i \in SubInfos : \E e \in subs : Shown(i, e)
        /\ \A e \in subs : \E i \in SubInfos : Shown(i, e)
    BY <2>1 DEF SubInfos
  <2>4. Tells(TopicNamesTypes(PubInfos \cup SubInfos, FALSE),
              {AsTopic(e) : e \in {f \in pubs \cup subs : IsRosTopic(f)}})
    <3>1. /\ \A i \in PubInfos \cup SubInfos : \E e \in pubs \cup subs : Shown(i, e)
          /\ \A e \in pubs \cup subs : \E i \in PubInfos \cup SubInfos : Shown(i, e)
      BY <2>2, <2>3
    <3> QED
      BY <3>1, TopicsTold
  <2>5. ASSUME NEW node
        PROVE  Tells(TopicNamesTypes(OfNode(PubInfos, node), FALSE),
                     {AsTopic(e) : e \in {f \in {g \in pubs : made[g].node = node} : IsRosTopic(f)}})
    <3> DEFINE infos == OfNode(PubInfos, node)
               entities == {g \in pubs : made[g].node = node}
    <3>1. /\ \A i \in infos : \E e \in entities : Shown(i, e)
          /\ \A e \in entities : \E i \in infos : Shown(i, e)
      BY <2>2 DEF OfNode, Shown
    <3> HIDE DEF infos, entities
    <3>2. Tells(TopicNamesTypes(infos, FALSE),
                {AsTopic(e) : e \in {f \in entities : IsRosTopic(f)}})
      BY <3>1, TopicsTold
    <3> QED
      BY <3>2 DEF infos, entities
  <2>6. ASSUME NEW node
        PROVE  Tells(TopicNamesTypes(OfNode(SubInfos, node), FALSE),
                     {AsTopic(e) : e \in {f \in {g \in subs : made[g].node = node} : IsRosTopic(f)}})
    <3> DEFINE infos == OfNode(SubInfos, node)
               entities == {g \in subs : made[g].node = node}
    <3>1. /\ \A i \in infos : \E e \in entities : Shown(i, e)
          /\ \A e \in entities : \E i \in infos : Shown(i, e)
      BY <2>3 DEF OfNode, Shown
    <3> HIDE DEF infos, entities
    <3>2. Tells(TopicNamesTypes(infos, FALSE),
                {AsTopic(e) : e \in {f \in entities : IsRosTopic(f)}})
      BY <3>1, TopicsTold
    <3> QED
      BY <3>2 DEF infos, entities
  <2> QED
    BY <2>4, <2>5, <2>6, Zenon DEF TopicsListed
<1> QED
  BY <1>1, Inductive, PTL

\* The list of the services of a node has each service of the cached clients and servers
\* once, with its name and type, however much of the name looks like a suffix.
THEOREM ServicesAlwaysListed == Spec => []ServicesListed
<1>1. IInv => ServicesListed
  <2> SUFFICES ASSUME IInv PROVE ServicesListed
    OBVIOUS
  <2>1. /\ \A i \in PubInfos \cup SubInfos : \E e \in pubs \cup subs : Shown(i, e)
        /\ \A e \in pubs \cup subs : \E i \in PubInfos \cup SubInfos : Shown(i, e)
    BY AllShown DEF PubInfos, SubInfos
  <2> QED
    BY <2>1, ServicesTold DEF ServicesListed
<1> QED
  BY <1>1, Inductive, PTL

\* What a node is said to serve, and what its clients are said to use, has all it has
\* servers, or clients, for, with their types, and nothing else unless the name of a service
\* has the word that tells requests from replies.
THEOREM ServicesOfNodeTold == Spec => []ServicesOfNode
<1>1. IInv => ServicesOfNode
  <2> SUFFICES ASSUME IInv PROVE ServicesOfNode
    OBVIOUS
  <2> DEFINE Entry(e) == Info(e, ReaderPart[made[e].kind])
  <2>1. ASSUME NEW node, NEW kind \in {"server", "client"}
        PROVE  ServicesShown(node, kind)
    <3> DEFINE word == SideWord[kind]
               infos == {i \in OfNode(SubInfos, node) : Occurs(i.topic, <<word>>)}
               entities == {e \in subs : made[e].node = node /\ Occurs(Entry(e).topic, <<word>>)}
               told == {AsService(e) : e \in {f \in entities : IsListed(f)}}
               answer == ServicesByNode(SubInfos, node, word)
    <3>1. \A e \in subs : Shown(Entry(e), e) /\ Entry(e).node = made[e].node
      BY AllShown DEF Shown
    <3>2. SubInfos = {Entry(e) : e \in subs}
      BY DEF SubInfos
    <3> HIDE DEF Entry
    <3>3. /\ \A i \in infos : \E e \in entities : Shown(i, e)
          /\ \A e \in entities : \E i \in infos : Shown(i, e)
      BY <3>1, <3>2 DEF OfNode
    <3>4. ASSUME NEW e \in subs, IsListed(e), made[e].node = node
          PROVE  e \in entities <=> made[e].kind = kind \/ Occurs(made[e].name, <<word>>)
      <4>1. e \in Entity /\ ~IsTopic(e) /\ made[e].kind \in Kind
        BY <3>4, RequestOf DEF IInv, IsListed
      <4>2. made[e].kind \in {"client", "server"} /\ word \in {"Request", "Reply"}
        BY <4>1 DEF IsTopic, Kind, SideWord
      <4>3. ReaderPart[made[e].kind] = IF made[e].kind = "client" THEN "Response" ELSE "Request"
        BY <4>2 DEF ReaderPart
      <4>4. Occurs(Entry(e).topic, <<word>>)
              <=> \/ word = IF made[e].kind = "server" THEN "Request" ELSE "Reply"
                  \/ Occurs(made[e].name, <<word>>)
        BY <3>4, <4>1, <4>2, <4>3, ServiceShown DEF Entry
      <4>5. word = (IF made[e].kind = "server" THEN "Request" ELSE "Reply")
              <=> made[e].kind = kind
        BY <4>2 DEF SideWord
      <4> QED
        BY <3>4, <4>4, <4>5
    <3>5. Serving(node, kind) \subseteq {f \in entities : IsListed(f)}
      BY <3>4 DEF Serving
    <3>6. ASSUME \A e \in subs : IsListed(e) /\ made[e].node = node
                                  => made[e].kind = kind \/ ~Occurs(made[e].name, <<word>>)
          PROVE  {f \in entities : IsListed(f)} = Serving(node, kind)
      BY <3>4, <3>6 DEF Serving
    <3> HIDE DEF entities
    <3>7. Tells(answer, told)
      BY <3>3, ServicesTold DEF ServicesByNode
    <3>8. \A e \in Serving(node, kind) : AsService(e) \in told
      BY <3>5
    <3>9. ASSUME NEW e \in Serving(node, kind)
          PROVE  \E x \in answer : x.name = made[e].name /\ AsService(e).type \in x.types
      <4> DEFINE t == AsService(e)
      <4>1. t \in told /\ t.name = made[e].name
        BY <3>8 DEF AsService
      <4> HIDE DEF t, told, answer
      <4>2. PICK x \in answer : x.name = t.name
        BY <3>7, <4>1 DEF Tells
      <4>3. t.type \in x.types
        BY <3>7, <4>1, <4>2 DEF Tells
      <4> QED
        BY <4>1, <4>2, <4>3 DEF t
    <3> QED
      BY <3>6, <3>7, <3>9 DEF ServicesShown
  <2> QED
    BY <2>1, Zenon DEF ServicesOfNode
<1> QED
  BY <1>1, Inductive, PTL

\* A number below the limits comes back as it went in.
LEMMA SmallKept ==
  ASSUME NEW n \in 0 .. Sizes - 1, 2 * (n % ULongs) < ULongs
  PROVE  ToLong(n) = n % ULongs /\ ToSize(ToLong(n)) = n % ULongs
<1>1. n % ULongs \in 0 .. ULongs - 1
  BY Widths
<1>2. ToLong(n) = n % ULongs
  BY <1>1, Widths DEF ToLong
<1>3. n % ULongs \in 0 .. Sizes - 1
  BY <1>1, Widths
<1>4. ASSUME NEW m \in 0 .. Sizes - 1 PROVE m % Sizes = m
  BY Widths
<1> QED
  BY <1>2, <1>3, <1>4 DEF ToSize

\* A KEEP_LAST depth that DDS does not take for negative is kept, or refused.
LEMMA KeptOrRefused ==
  ASSUME NEW rmw, rmw.depth \in 1 .. Sizes - 1, NEW default,
         ~Refused(rmw, default), 2 * (rmw.depth % ULongs) < ULongs,
         (IF rmw.history = "default" THEN default.history ELSE rmw.history) = "keep_last"
  PROVE  ToSize(ToLong(rmw.depth)) = rmw.depth
<1>1. ToSize(ToLong(rmw.depth)) = rmw.depth % ULongs
  BY SmallKept
<1>2. ~(rmw.depth % ULongs < rmw.depth /\ rmw.depth >= ULongs)
  BY <1>1, Widths DEF Refused
<1>3. rmw.depth % ULongs \in 0 .. ULongs - 1
  BY Widths
<1>4. rmw.depth < ULongs => rmw.depth % ULongs = rmw.depth
  BY Widths
<1> QED
  BY <1>1, <1>2, <1>3, <1>4, Widths

\* Whatever the widths, what a profile asks for is what get_actual_qos answers, within
\* the limits that AskedIsActual names.
THEOREM AskedIsAlwaysActual == Spec => []AskedIsActual
<1>1. IInv => AskedIsActual
  <2> SUFFICES ASSUME IInv, NEW e \in Entity, IsTopic(e), Created(e)
               PROVE  LET asked == made[e].profile
                          actual == ToRmw(dds[e])
                      IN  /\ \A p \in Policy :
                                actual[p] = IF asked[p] = "default"
                                            THEN DefaultQos(made[e].kind)[p] ELSE asked[p]
                          /\ asked.lease \in 1 .. ULongs \div 2 - 1 => actual.lease = asked.lease
                          /\ actual.history = "keep_last" /\ asked.depth # 0 =>
                                \/ actual.depth = asked.depth
                                \/ 2 * (asked.depth % ULongs) >= ULongs
    BY DEF AskedIsActual
  <2> DEFINE asked == made[e].profile
             default == DefaultQos(made[e].kind)
             actual == ToRmw(dds[e])
  <2>1. ~Refused(asked, default) /\ dds[e] = ToDds(asked, default)
    BY DEF IInv, Converted
  <2>2. /\ asked.depth \in 0 .. Sizes - 1 /\ asked.lease \in 0 .. Sizes - 1
        /\ \A p \in Policy : asked[p] \in Values(p) \cup {"default", "unknown"}
    BY RequestType DEF IInv
  <2>3. \A p \in Policy : default[p] \in Values(p)
    BY DEF DefaultQos, Policy, Values
  <2>4. \A p \in Policy : asked[p] # "unknown"
    BY <2>1 DEF Refused
  <2> HIDE DEF asked, default
  <2>5. ASSUME NEW p \in Policy
        PROVE  actual[p] = IF asked[p] = "default" THEN default[p] ELSE asked[p]
    BY <2>1, <2>2, <2>3, <2>4 DEF ToRmw, ToDds
  <2>6. "depth" \notin Policy /\ "lease" \notin Policy /\ "history" \in Policy
    BY DEF Policy
  <2>7. /\ asked.lease # 0 => actual.lease = ToSize(ToLong(asked.lease))
        /\ asked.depth # 0 => actual.depth = ToSize(ToLong(asked.depth))
    BY <2>1, <2>6 DEF ToRmw, ToDds
  <2>8. asked.lease \in 1 .. ULongs \div 2 - 1 => actual.lease = asked.lease
    <3> SUFFICES ASSUME asked.lease \in 1 .. ULongs \div 2 - 1
                 PROVE  actual.lease = asked.lease
      OBVIOUS
    <3>1. asked.lease < ULongs /\ 2 * asked.lease < ULongs
      BY Widths
    <3>2. asked.lease % ULongs = asked.lease
      BY <2>2, <3>1, Widths
    <3> QED
      BY <2>2, <2>7, <3>1, <3>2, SmallKept
  <2>9. ASSUME actual.history = "keep_last", asked.depth # 0,
               ~(2 * (asked.depth % ULongs) >= ULongs)
        PROVE  actual.depth = asked.depth
    <3>1. (IF asked.history = "default" THEN default.history ELSE asked.history) = "keep_last"
      BY <2>5, <2>6, <2>9
    <3>2. asked.depth \in 1 .. Sizes - 1
      BY <2>2, <2>9, Widths
    <3>3. 2 * (asked.depth % ULongs) < ULongs
      BY <2>9, <3>2, Widths
    <3> QED
      BY <2>1, <2>7, <2>9, <3>1, <3>2, <3>3, KeptOrRefused
  <2> QED
    BY <2>5, <2>8, <2>9 DEF asked, default
<1> QED
  BY <1>1, Inductive, PTL

\* A count that the conversion sets to a positive number is one that DDS keeps.
LEMMA PositiveKept ==
  ASSUME NEW n \in 0 .. Sizes - 1, ToLong(n) > 0
  PROVE  ToLong(n) \in 1 .. ULongs - 1 /\ 2 * ToLong(n) < ULongs
<1>1. n % ULongs \in 0 .. ULongs - 1
  BY Widths
<1> QED
  BY <1>1, Widths DEF ToLong

\* A positive Long comes back from rmw as it was.
LEMMA LongKept ==
  ASSUME NEW d \in 1 .. ULongs - 1, 2 * d < ULongs
  PROVE  ToSize(d) = d /\ ToLong(d) = d
<1>1. d \in 0 .. Sizes - 1 /\ ULongs \in Nat /\ Sizes \in Nat
  BY Widths
<1>2. d % ULongs = d
  BY <1>1
<1>3. d % Sizes = d
  BY <1>1
<1> QED
  BY <1>2, <1>3, Widths DEF ToSize, ToLong

\* Whatever the widths, a profile that was read back is not refused, and is converted to the
\* QoS it was read from.
THEOREM ActualAlwaysAskable == Spec => []ActualIsAskable
<1>1. IInv => ActualIsAskable
  <2> SUFFICES ASSUME IInv, NEW e \in Entity, IsTopic(e), Created(e),
                      NEW kind \in {"publisher", "subscription"},
                      dds[e].depth > 0, dds[e].lease > 0
               PROVE  LET actual == ToRmw(dds[e])
                          other == DefaultQos(kind)
                      IN  ~Refused(actual, other) /\ ToDds(actual, other) = dds[e]
    BY DEF ActualIsAskable
  <2> DEFINE asked == made[e].profile
             default == DefaultQos(made[e].kind)
             other == DefaultQos(kind)
             qos == dds[e]
             actual == ToRmw(qos)
             counts == {"depth", "lease"}
  <2>1. ~Refused(asked, default) /\ qos = ToDds(asked, default)
    BY DEF IInv, Converted
  <2>2. /\ asked.depth \in 0 .. Sizes - 1 /\ asked.lease \in 0 .. Sizes - 1
        /\ \A p \in Policy : asked[p] \in Values(p) \cup {"default", "unknown"}
    BY RequestType DEF IInv
  <2>3. /\ \A p \in Policy : default[p] \in Values(p)
        /\ default.depth = 1 /\ default.lease = ULongs \div 2 - 1
    BY DEF DefaultQos, Policy, Values
  <2>4. \A p \in Policy : asked[p] # "unknown"
    BY <2>1 DEF Refused
  <2>5. \A c \in counts : c \notin Policy
    BY DEF Policy
  <2>6. qos.depth > 0 /\ qos.lease > 0
    OBVIOUS
  <2> HIDE DEF asked, default, other, qos
  <2>7. \A p \in Policy : qos[p] \in Values(p)
    BY <2>1, <2>2, <2>3, <2>4 DEF ToDds
  <2>8. \A p \in Policy : Values(p) \cap {"default", "unknown"} = {}
    BY DEF Policy, Values
  <2>9. \A p \in Policy : actual[p] = qos[p] /\ actual[p] \notin {"default", "unknown"}
    BY <2>7, <2>8 DEF ToRmw
  <2>10. \A c \in counts : qos[c] = IF asked[c] = 0 THEN default[c] ELSE ToLong(asked[c])
    BY <2>1, <2>5 DEF ToDds
  <2>11. \A c \in counts : actual[c] = ToSize(qos[c])
    BY <2>5 DEF ToRmw
  <2>12. \A d \in {1, ULongs \div 2 - 1} : d > 0 => d \in 1 .. ULongs - 1 /\ 2 * d < ULongs
    BY Widths
  <2>13. ASSUME NEW c \in counts
         PROVE  qos[c] \in 1 .. ULongs - 1 /\ 2 * qos[c] < ULongs
    <3>1. qos[c] > 0 /\ asked[c] \in 0 .. Sizes - 1 /\ default[c] \in {1, ULongs \div 2 - 1}
      BY <2>2, <2>3, <2>6
    <3>2. CASE asked[c] = 0
      BY <2>10, <2>12, <3>1, <3>2
    <3>3. CASE asked[c] # 0
      BY <2>10, <3>1, <3>3, PositiveKept
    <3> QED
      BY <3>2, <3>3
  <2>14. \A c \in counts : actual[c] = qos[c] /\ actual[c] # 0 /\ ToLong(actual[c]) = qos[c]
    <3> SUFFICES ASSUME NEW c \in counts
                 PROVE  actual[c] = qos[c] /\ actual[c] # 0 /\ ToLong(actual[c]) = qos[c]
      OBVIOUS
    <3>1. ToSize(qos[c]) = qos[c] /\ ToLong(qos[c]) = qos[c] /\ qos[c] # 0
      BY <2>13, LongKept, Widths
    <3> QED
      BY <2>11, <3>1
  <2>15. ~Refused(actual, other)
    <3>1. \A p \in Policy : actual[p] # "unknown"
      BY <2>9
    <3>2. actual.depth # 0 /\ ToSize(ToLong(actual.depth)) = actual.depth
      BY <2>11, <2>14
    <3>3. ~(actual.depth < actual.depth)
      BY <2>13, <2>14, Widths
    <3> QED
      BY <3>1, <3>2, <3>3 DEF Refused
  <2>16. ToDds(actual, other) = qos
    <3>1. qos = [f \in Policy \cup counts |-> qos[f]]
      BY <2>1 DEF ToDds
    <3>2. \A f \in Policy \cup counts :
             (CASE f \in Policy -> IF actual[f] = "default" THEN other[f] ELSE actual[f]
                [] OTHER -> IF actual[f] = 0 THEN other[f] ELSE ToLong(actual[f])) = qos[f]
      BY <2>5, <2>9, <2>14
    <3> QED
      BY <3>1, <3>2 DEF ToDds
  <2> QED
    BY <2>15, <2>16 DEF qos, other
<1> QED
  BY <1>1, Inductive, PTL

===============================================================================
