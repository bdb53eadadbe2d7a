-------------------------- MODULE HotReloadProofs --------------------------
(***************************************************************************)
(* Theorems about the lifetime of plugin instances under hot reload, for   *)
(* any number of reloads, services, clients and calls, and whatever the    *)
(* environment does: actors that crash, answers that come late, unloads,   *)
(* and a plugin manager that is stopped.                                   *)
(***************************************************************************)
EXTENDS HotReload, TLAPS

\* Generations are positive numbers.
LEMMA GensArePositive == Gens \subseteq Nat \ {0} /\ 1 \in Gens
  BY BoundsAssumption DEF Gens

\* The elements of a mailbox that a message is appended to, or taken from.
LEMMA ElementsAppend ==
  ASSUME NEW S, NEW q \in Seq(S), NEW x \in S
  PROVE  Elements(Append(q, x)) = Elements(q) \cup {x} /\ Append(q, x) \in Seq(S)
<1>1. DOMAIN Append(q, x) = 1 .. Len(q) + 1 /\ DOMAIN q = 1 .. Len(q) /\ Len(q) \in Nat
  OBVIOUS
<1>2. (\A i \in 1 .. Len(q) : Append(q, x)[i] = q[i]) /\ Append(q, x)[Len(q) + 1] = x
  OBVIOUS
<1>. QED
  BY <1>1, <1>2 DEF Elements

\* A mailbox without its first message.
LEMMA ElementsTail ==
  ASSUME NEW S, NEW q \in Seq(S), q # << >>
  PROVE  /\ Tail(q) \in Seq(S) /\ Elements(Tail(q)) \subseteq Elements(q)
         /\ Head(q) \in Elements(q) /\ Head(q) \in S
<1>1. /\ Len(q) \in Nat /\ Len(q) > 0 /\ DOMAIN q = 1 .. Len(q)
      /\ Tail(q) \in Seq(S) /\ DOMAIN Tail(q) = 1 .. Len(q) - 1
      /\ \A i \in 1 .. Len(q) - 1 : Tail(q)[i] = q[i + 1]
      /\ Head(q) = q[1]
  OBVIOUS
<1>. QED
  BY <1>1 DEF Elements

\* A mailbox is a function on an initial segment of the positive numbers.
LEMMA MailboxIs == ASSUME NEW S, NEW n \in Nat, NEW q \in [1 .. n -> S] PROVE q \in Seq(S)
  OBVIOUS

\* The messages of a mailbox are at the positions up to its length.
LEMMA MailboxPositions ==
  ASSUME NEW S, NEW q \in Seq(S)
  PROVE  Len(q) \in Nat /\ DOMAIN q = 1 .. Len(q) /\ q \in [1 .. Len(q) -> S]
  OBVIOUS

\* A mailbox with nothing in it.
LEMMA MailboxEmpty ==
  ASSUME NEW S
  PROVE  << >> \in Seq(S) /\ Elements(<< >>) = {}
  BY DEF Elements

\* A mailbox with one message.
LEMMA MailboxOne ==
  ASSUME NEW S, NEW x \in S
  PROVE  <<x>> \in Seq(S) /\ Elements(<<x>>) = {x}
  BY DEF Elements

\* The message that is handled next.
LEMMA MailboxFirst ==
  ASSUME NEW S, NEW q \in Seq(S), q # << >>
  PROVE  1 \in DOMAIN q /\ Head(q) = q[1]
  OBVIOUS

\* What is flushed of a buffer are its elements at the chosen positions.
LEMMA KeptType ==
  ASSUME NEW S, NEW q \in Seq(S), NEW I \in SUBSET DOMAIN q, NEW r \in Kept(q, I)
  PROVE  r \in Seq(S) /\ Elements(r) \subseteq {q[i] : i \in I}
<1>1. PICK p \in InOrder(I, Len(q)) : r = [k \in DOMAIN p |-> q[p[k]]]
  BY Zenon DEF Kept
<1>2. PICK n \in 0 .. Len(q) : p \in [1 .. n -> I]
  BY Zenon DEF InOrder
<1>3. Len(q) \in Nat /\ \A i \in I : q[i] \in S
  OBVIOUS
<1>4. DOMAIN r = 1 .. n /\ \A k \in 1 .. n : p[k] \in I /\ r[k] = q[p[k]]
  BY <1>1, <1>2, Zenon
<1>5. r \in [1 .. n -> S]
  BY <1>1, <1>2, <1>3, Zenon
<1>. QED
  BY <1>2, <1>3, <1>4, <1>5, MailboxIs DEF Elements

\* What is sent to a mailbox comes after what is in it.
LEMMA MailboxAppended ==
  ASSUME NEW S, NEW q \in Seq(S), NEW r \in Seq(S)
  PROVE  /\ q \o r \in Seq(S) /\ Len(q \o r) = Len(q) + Len(r)
         /\ \A i \in 1 .. Len(q) + Len(r) :
              (q \o r)[i] = IF i <= Len(q) THEN q[i] ELSE r[i - Len(q)]
  OBVIOUS

\* Sending nothing leaves a mailbox alone.
LEMMA MailboxNothing ==
  ASSUME NEW S, NEW q \in Seq(S)
  PROVE  q \o << >> = q /\ << >> \o q = q
<1>1. Len(<< >>) = 0 /\ << >> \in Seq(S) /\ Len(q) \in Nat
  OBVIOUS
<1>2. q \o << >> = q
  BY <1>1, MailboxAppended, MailboxPositions
<1>3. << >> \o q = q
  BY <1>1, MailboxAppended, MailboxPositions
<1>. QED
  BY <1>2, <1>3, Zenon

\* Two mailboxes in a row.
LEMMA ElementsConcat ==
  ASSUME NEW S, NEW q \in Seq(S), NEW r \in Seq(S)
  PROVE  Elements(q \o r) = Elements(q) \cup Elements(r) /\ q \o r \in Seq(S)
<1>1. /\ Len(q) \in Nat /\ Len(r) \in Nat /\ DOMAIN r = 1 .. Len(r) /\ DOMAIN q = 1 .. Len(q)
      /\ q \o r \in Seq(S) /\ Len(q \o r) = Len(q) + Len(r)
  BY MailboxAppended, MailboxPositions, Zenon
<1>2. DOMAIN (q \o r) = 1 .. Len(q) + Len(r)
  BY <1>1, MailboxPositions, Zenon
<1>3. \A i \in 1 .. Len(q) + Len(r) :
        (q \o r)[i] = IF i <= Len(q) THEN q[i] ELSE r[i - Len(q)]
  BY MailboxAppended, Zenon
<1>4. \A i \in 1 .. Len(q) + Len(r) : (q \o r)[i] \in Elements(q) \cup Elements(r)
  <2>. SUFFICES ASSUME NEW i \in 1 .. Len(q) + Len(r)
                PROVE  (q \o r)[i] \in Elements(q) \cup Elements(r)
    OBVIOUS
  <2>1. CASE i <= Len(q)
    <3>1. i \in 1 .. Len(q)
      BY ONLY <1>1, <2>1, i \in 1 .. Len(q) + Len(r)
    <3>. QED
      BY <1>1, <1>3, <2>1, <3>1, Zenon DEF Elements
  <2>2. CASE ~(i <= Len(q))
    <3>1. i - Len(q) \in 1 .. Len(r)
      BY ONLY <1>1, <2>2, i \in 1 .. Len(q) + Len(r)
    <3>. QED
      BY <1>1, <1>3, <2>2, <3>1, Zenon DEF Elements
  <2>. QED
    BY <2>1, <2>2, Zenon
<1>5. ASSUME NEW i \in 1 .. Len(q) PROVE q[i] \in Elements(q \o r)
  <2>1. i \in 1 .. Len(q) + Len(r) /\ i <= Len(q)
    BY <1>1
  <2>. QED
    BY <1>2, <1>3, <2>1, Zenon DEF Elements
<1>6. ASSUME NEW i \in 1 .. Len(r) PROVE r[i] \in Elements(q \o r)
  <2>1. /\ Len(q) + i \in 1 .. Len(q) + Len(r) /\ ~ (Len(q) + i <= Len(q))
        /\ (Len(q) + i) - Len(q) = i
    BY <1>1
  <2>2. (q \o r)[Len(q) + i] = r[i]
    BY <1>3, <2>1, Zenon
  <2>. QED
    BY <1>2, <2>1, <2>2, Zenon DEF Elements
<1>. QED
  BY <1>1, <1>2, <1>4, <1>5, <1>6, Zenon DEF Elements

\* The actors' messages.
LEMMA MsgTypes ==
  /\ \A c \in Calls : CallMsg(c) \in Msgs
  /\ \A r \in Nat : Quiesce(r) \in Msgs /\ Save(r) \in Msgs
  /\ \A g \in Gens : /\ Resume(g) \in Msgs /\ DownOf(g) \in Msgs
                     /\ Switch(g) \in Msgs /\ Register(g) \in Msgs
  /\ \A d \in Seq(Calls) : Restore(d) \in Msgs
  /\ SetAcl \in Msgs /\ Unregister \in Msgs /\ ExitMsg \in Msgs
  BY Zenon DEF Msgs, CallMsg, Quiesce, Save, Resume, DownOf, Switch, Register, Restore, SetAcl,
         Unregister, ExitMsg

\* What a message carries.
LEMMA MsgParts ==
  ASSUME NEW m \in Msgs
  PROVE  /\ m.kind = "call" => m.call \in Calls
         /\ m.kind \in {"quiesce", "save"} => m.round \in Nat
         /\ m.kind \in {"resume", "down", "hot_reload", "register"} => m.gen \in Gens
         /\ m.kind = "restore" => m.data \in Seq(Calls)
  BY Zenon DEF Msgs

\* A call behind others.
LEMMA CallsAppend ==
  ASSUME NEW q \in Seq(Calls), NEW c \in Calls
  PROVE  Elements(Append(q, c)) = Elements(q) \cup {c}
  BY ElementsAppend

\* A call alone.
LEMMA OneCall ==
  ASSUME NEW c \in Calls
  PROVE  <<c>> \in Seq(Calls) /\ Elements(<<c>>) = {c}
  BY DEF Elements

\* The kinds of the messages.
LEMMA MsgKinds ==
  /\ \A c : CallMsg(c).kind = "call" /\ CallMsg(c).call = c
  /\ \A r : Quiesce(r).kind = "quiesce" /\ Save(r).kind = "save"
  /\ \A r : Quiesce(r).round = r /\ Save(r).round = r
  /\ \A g : /\ Resume(g).kind = "resume" /\ DownOf(g).kind = "down"
            /\ Switch(g).kind = "hot_reload" /\ Register(g).kind = "register"
            /\ Resume(g).gen = g /\ DownOf(g).gen = g
            /\ Switch(g).gen = g /\ Register(g).gen = g
  /\ \A d : Restore(d).kind = "restore" /\ Restore(d).data = d
  /\ SetAcl.kind = "set_acl" /\ Unregister.kind = "unregister" /\ ExitMsg.kind = "exit"
  BY Zenon DEF CallMsg, Quiesce, Save, Resume, DownOf, Switch, Register, Restore, SetAcl,
         Unregister, ExitMsg

\* The kind of the message of a mailbox that holds one.
LEMMA KindsOne ==
  ASSUME NEW q, NEW m, Elements(q) = {m}
  PROVE  Kinds(q) = {m.kind}
  BY DEF Kinds

\* The kinds of the messages in a mailbox as it grows and shrinks.
LEMMA KindsAppend ==
  ASSUME NEW q \in Seq(Msgs), NEW m \in Msgs
  PROVE  Kinds(Append(q, m)) = Kinds(q) \cup {m.kind}
  BY ElementsAppend DEF Kinds

\* A mailbox without its first message.
LEMMA KindsTail ==
  ASSUME NEW q \in Seq(Msgs), q # << >>
  PROVE  /\ Kinds(Tail(q)) \subseteq Kinds(q) /\ Head(q).kind \in Kinds(q)
         /\ Kinds(q) = Kinds(Tail(q)) \cup {Head(q).kind}
<1>1. /\ Len(q) \in Nat /\ Len(q) > 0 /\ DOMAIN q = 1 .. Len(q)
      /\ DOMAIN Tail(q) = 1 .. Len(q) - 1
      /\ \A i \in 1 .. Len(q) - 1 : Tail(q)[i] = q[i + 1]
      /\ Head(q) = q[1]
  OBVIOUS
<1>2. Elements(Tail(q)) \subseteq Elements(q) /\ Head(q) \in Elements(q)
  BY ElementsTail, Zenon
<1>3. ASSUME NEW x \in Elements(q), x # Head(q) PROVE x \in Elements(Tail(q))
  <2>1. PICK i \in 1 .. Len(q) : x = q[i]
    BY <1>1, Zenon DEF Elements
  <2>2. i - 1 \in 1 .. Len(q) - 1 /\ (i - 1) + 1 = i
    BY <1>1, <1>3, <2>1
  <2>3. x = Tail(q)[i - 1]
    BY <1>1, <2>1, <2>2, Zenon
  <2>. QED
    BY <1>1, <2>2, <2>3, Zenon DEF Elements
<1>. QED
  BY <1>2, <1>3, Zenon DEF Kinds

\* Messages and calls in a mailbox.
LEMMA MailboxElements ==
  /\ \A q \in Seq(Msgs) : \A i \in DOMAIN q : q[i] \in Msgs
  /\ \A q \in Seq(Calls) : Elements(q) \subseteq Calls
  /\ \A x \in {CallMsg(c) : c \in Calls} : x.kind = "call"
<1>1. \A q \in Seq(Msgs) : \A i \in DOMAIN q : q[i] \in Msgs
  OBVIOUS
<1>2. \A q \in Seq(Calls) : Elements(q) \subseteq Calls
  BY DEF Elements
<1>3. \A x \in {CallMsg(c) : c \in Calls} : x.kind = "call"
  BY MsgKinds
<1>. QED
  BY <1>1, <1>2, <1>3, Zenon

\* A message behind others that is neither a resume nor a quiesce.
LEMMA MsgsAppend ==
  ASSUME NEW q \in Seq(Msgs), NEW m \in Msgs
  PROVE  /\ Elements(Append(q, m)) = Elements(q) \cup {m}
         /\ m.kind \in {"call", "set_acl"} =>
              ("resume" \in Kinds(Append(q, m)) <=> "resume" \in Kinds(q))
<1>1. Elements(Append(q, m)) = Elements(q) \cup {m}
  BY ElementsAppend
<1>. QED
  BY <1>1, KindsAppend

\* What the registry can find in a service's mailbox.
LEMMA RegistryMail ==
  ASSUME NEW g
  PROVE  /\ \A q : q = <<Switch(g)>> => Head(q) = Switch(g) /\ Tail(q) = << >>
         /\ \A q : q = <<Register(g)>> => Head(q) = Register(g) /\ Tail(q) = << >>
         /\ \A q : q = <<SetAcl>> => Head(q) = SetAcl /\ Tail(q) = << >>
         /\ <<SetAcl>> # <<Switch(g)>> /\ <<SetAcl>> # <<Register(g)>>
         /\ <<SetAcl>> # <<Register(g), SetAcl>> /\ <<SetAcl>> # << >>
         /\ <<Switch(g)>> # <<Register(g)>> /\ <<Switch(g)>> # <<Register(g), SetAcl>>
         /\ <<Switch(g)>> # << >> /\ <<Register(g)>> # << >>
         /\ <<Register(g), SetAcl>> # << >>
<1>. DEFINE a == Register(g)
            b == Switch(g)
            e == SetAcl
<1>1. a # b /\ a # e /\ b # e
  BY MsgKinds
<1>. HIDE DEF a, b, e
<1>2. \A x, q : q = <<x>> => Head(q) = x /\ Tail(q) = << >>
  OBVIOUS
<1>3. /\ <<e>> # <<b>> /\ <<e>> # <<a>> /\ <<e>> # <<a, e>> /\ <<e>> # << >>
      /\ <<b>> # <<a>> /\ <<b>> # <<a, e>> /\ <<b>> # << >> /\ <<a>> # << >> /\ <<a, e>> # << >>
  BY <1>1, Zenon
<1>. QED
  BY <1>2, <1>3, Zenon DEF a, b, e

\* The places of a sequence and of the sequence with one more element.
LEMMA AppendPlaces ==
  ASSUME NEW q \in Seq(Msgs), NEW x \in Msgs
  PROVE  /\ Len(q) \in Nat /\ Len(q) + 1 \in Nat /\ Len(q) + 1 >= 1
         /\ DOMAIN q = 1 .. (Len(q) + 1) - 1 /\ DOMAIN Append(q, x) = 1 .. Len(q) + 1
         /\ \A i \in 1 .. (Len(q) + 1) - 1 : Append(q, x)[i] = q[i] /\ q[i] \in Msgs
         /\ Append(q, x)[Len(q) + 1] = x
  OBVIOUS

\* A message that is no resume is behind the others.
LEMMA ArrivesAppend ==
  ASSUME NEW q \in Seq(Msgs), NEW m \in Msgs, NEW cur, NEW g, NEW ups, NEW vps,
         Arrives(q, cur, g, ups),
         \A h \in Gens : ups[h] = "down" => vps[h] = "down",
         \/ m.kind \in {"call", "set_acl"}
         \/ m.kind = "quiesce" /\ "quiesce" \notin Kinds(q)
         \/ m.kind = "down" /\ vps[m.gen] = "down" /\ m.gen # g
  PROVE  Arrives(Append(q, m), cur, g, vps)
<1>. DEFINE r == Append(q, m)
            n == Len(q) + 1
<1>1. /\ n \in Nat /\ n >= 1 /\ DOMAIN q = 1 .. n - 1 /\ DOMAIN r = 1 .. n
      /\ \A i \in 1 .. n - 1 : r[i] = q[i] /\ q[i] \in Msgs
      /\ r[n] = m
  BY AppendPlaces, Zenon
<1>2. Kinds(r) = Kinds(q) \cup {m.kind}
  BY KindsAppend, Zenon
<1>3. \A i \in DOMAIN q : q[i].kind \in Kinds(q)
  BY Zenon DEF Kinds, Elements
<1>4. \A x \in Kinds(q) : \E i \in DOMAIN q : q[i].kind = x
  BY Zenon DEF Kinds, Elements
<1>. HIDE DEF r, n
<1>5. \A i \in DOMAIN r : r[i].kind \in {"call", "quiesce", "resume", "down", "set_acl"}
  BY <1>1 DEF Arrives
<1>6. \A i \in DOMAIN r : r[i].kind = "resume" => r[i].gen = g
  BY <1>1 DEF Arrives
<1>7. \A i, j \in DOMAIN r : r[i].kind = "resume" /\ r[j].kind = "resume" => i = j
  BY <1>1 DEF Arrives
<1>8. \A i, j \in DOMAIN r : r[i].kind = "quiesce" /\ r[j].kind \in {"resume", "quiesce"} => j <= i
  BY <1>1, <1>3 DEF Arrives
<1>9. "resume" \notin Kinds(r) => cur = g
  BY <1>2, Zenon DEF Arrives
<1>10. ASSUME NEW i \in DOMAIN r, r[i].kind = "down"
       PROVE  /\ vps[r[i].gen] = "down"
              /\ cur = r[i].gen => \E j \in 1 .. i - 1 : r[j].kind = "resume"
  <2>1. CASE i \in 1 .. n - 1
    <3>1. i \in DOMAIN q /\ q[i].kind = "down" /\ r[i] = q[i] /\ q[i].gen \in Gens
      BY <1>1, <1>10, <2>1, MsgParts, Zenon
    <3>2. /\ ups[q[i].gen] = "down"
          /\ cur = q[i].gen => \E j \in 1 .. i - 1 : q[j].kind = "resume"
      BY <3>1, Zenon DEF Arrives
    <3>3. \A j \in 1 .. i - 1 : r[j] = q[j]
      BY <1>1, <2>1
    <3>. QED
      BY <3>1, <3>2, <3>3, Zenon
  <2>2. CASE i = n
    <3>1. m.kind = "down" /\ vps[m.gen] = "down" /\ m.gen # g /\ r[i] = m
      BY <1>1, <1>10, <2>2, Zenon
    <3>2. ASSUME cur = m.gen PROVE \E j \in 1 .. i - 1 : r[j].kind = "resume"
      <4>1. "resume" \in Kinds(q)
        BY <3>1, <3>2, Zenon DEF Arrives
      <4>. QED
        BY <1>1, <1>4, <2>2, <4>1, Zenon
    <3>. QED
      BY <3>1, <3>2, Zenon
  <2>3. i \in 1 .. n - 1 \/ i = n
    BY <1>1
  <2>. QED
    BY <2>1, <2>2, <2>3, Zenon
<1>. QED
  BY <1>5, <1>6, <1>7, <1>8, <1>9, <1>10, Zenon DEF Arrives, r

\* A resume is sent to a proxy that is held.
LEMMA ArrivesResume ==
  ASSUME NEW q \in Seq(Msgs), NEW n \in Gens, NEW cur, NEW g, NEW ups, NEW vps,
         Arrives(q, cur, g, ups),
         \A h \in Gens : ups[h] = "down" => vps[h] = "down",
         "resume" \notin Kinds(q), "quiesce" \notin Kinds(q)
  PROVE  Arrives(Append(q, Resume(n)), cur, n, vps)
<1>. DEFINE r == Append(q, Resume(n))
            k == Len(q) + 1
            m == Resume(n)
<1>0. m \in Msgs /\ m.kind = "resume" /\ m.gen = n
  BY MsgTypes, MsgKinds, Zenon
<1>. HIDE DEF m
<1>1. /\ k \in Nat /\ k >= 1 /\ DOMAIN q = 1 .. k - 1 /\ DOMAIN r = 1 .. k
      /\ \A i \in 1 .. k - 1 : r[i] = q[i] /\ q[i] \in Msgs
      /\ r[k] = m
  BY <1>0, AppendPlaces, Zenon DEF m
<1>2. Kinds(r) = Kinds(q) \cup {m.kind}
  BY <1>0, KindsAppend, Zenon DEF m
<1>3. \A i \in DOMAIN q : q[i].kind # "resume" /\ q[i].kind # "quiesce"
  BY Zenon DEF Kinds, Elements
<1>. HIDE DEF r, k
<1>4. \A i \in DOMAIN r : r[i].kind = "down" =>
        /\ vps[r[i].gen] = "down"
        /\ cur # r[i].gen
  <2>. SUFFICES ASSUME NEW i \in DOMAIN r, r[i].kind = "down"
                PROVE  vps[r[i].gen] = "down" /\ cur # r[i].gen
    BY Zenon
  <2>1. i \in 1 .. k - 1
    BY <1>0, <1>1
  <2>2. i \in DOMAIN q /\ q[i].kind = "down" /\ r[i] = q[i] /\ q[i].gen \in Gens
    BY <1>1, <2>1, MsgParts, Zenon
  <2>3. /\ ups[q[i].gen] = "down"
        /\ cur = q[i].gen => \E j \in 1 .. i - 1 : q[j].kind = "resume"
    BY <2>2, Zenon DEF Arrives
  <2>4. \A j \in 1 .. i - 1 : j \in DOMAIN q
    BY <1>1, <2>1
  <2>. QED
    BY <1>3, <2>2, <2>3, <2>4, Zenon
<1>5. \A i \in DOMAIN r : i \in DOMAIN q \/ i = k
  BY <1>1
<1>6. \A i \in DOMAIN q : r[i] = q[i]
  BY <1>1, Zenon
<1>7. \A i \in DOMAIN r : r[i].kind \in {"call", "quiesce", "resume", "down", "set_acl"}
  BY <1>0, <1>1, <1>5, <1>6, Zenon DEF Arrives
<1>8. \A i \in DOMAIN r : /\ r[i].kind = "resume" => i = k /\ r[i].gen = n
                          /\ r[i].kind # "quiesce"
  BY <1>0, <1>1, <1>3, <1>5, <1>6, Zenon
<1>9. "resume" \in Kinds(r)
  BY <1>0, <1>2, Zenon
<1>10. Arrives(r, cur, n, vps)
  BY <1>4, <1>7, <1>8, <1>9, Zenon DEF Arrives
<1>. QED
  BY <1>10, Zenon DEF r, m

\* The proxy handles a message that is no resume.
LEMMA ArrivesTail ==
  ASSUME NEW q \in Seq(Msgs), q # << >>, NEW cur, NEW g, NEW ups,
         Arrives(q, cur, g, ups), Head(q).kind # "resume"
  PROVE  /\ Arrives(Tail(q), cur, g, ups)
         /\ Head(q).kind = "down" => Head(q).gen # cur
         /\ Head(q).kind = "quiesce" => {"quiesce", "resume"} \cap Kinds(Tail(q)) = {}
<1>. DEFINE r == Tail(q)
            n == Len(q) - 1
<1>1. /\ n \in Nat /\ DOMAIN q = 1 .. n + 1 /\ DOMAIN r = 1 .. n
      /\ \A i \in 1 .. n : r[i] = q[i + 1]
      /\ Head(q) = q[1]
  OBVIOUS
<1>2. Kinds(q) = Kinds(r) \cup {Head(q).kind}
  BY KindsTail, Zenon
<1>3. \A x \in Kinds(r) : \E i \in DOMAIN r : r[i].kind = x
  BY Zenon DEF Kinds, Elements
<1>. HIDE DEF r, n
<1>4. \A i \in 1 .. n : i + 1 \in DOMAIN q
  BY <1>1
<1>5. \A i \in DOMAIN r : r[i].kind \in {"call", "quiesce", "resume", "down", "set_acl"}
  BY <1>1, <1>4, SMTT(30) DEF Arrives
<1>6. \A i \in DOMAIN r : r[i].kind = "resume" => r[i].gen = g
  BY <1>1, <1>4, SMTT(30) DEF Arrives
<1>7. ASSUME NEW i \in DOMAIN r, NEW j \in DOMAIN r, r[i].kind = "resume", r[j].kind = "resume"
      PROVE  i = j
  <2>0. /\ i + 1 \in DOMAIN q /\ q[i + 1].kind = "resume"
        /\ j + 1 \in DOMAIN q /\ q[j + 1].kind = "resume"
    BY <1>1, <1>4, <1>7, Zenon
  <2>1. i + 1 = j + 1
    BY <2>0, Zenon DEF Arrives
  <2>. QED
    BY <1>1, <2>1
<1>8. ASSUME NEW i \in DOMAIN r, NEW j \in DOMAIN r, r[i].kind = "quiesce",
             r[j].kind \in {"resume", "quiesce"}
      PROVE  j <= i
  <2>1. j + 1 <= i + 1
    BY <1>1, <1>4, <1>8, Zenon DEF Arrives
  <2>. QED
    BY <1>1, <2>1
<1>9. "resume" \notin Kinds(r) => cur = g
  BY <1>2, Zenon DEF Arrives
<1>10. ASSUME NEW i \in DOMAIN r, r[i].kind = "down"
       PROVE  /\ ups[r[i].gen] = "down"
              /\ cur = r[i].gen => \E j \in 1 .. i - 1 : r[j].kind = "resume"
  <2>1. i + 1 \in DOMAIN q /\ q[i + 1].kind = "down" /\ r[i] = q[i + 1]
    BY <1>1, <1>4, <1>10, Zenon
  <2>2. /\ ups[q[i + 1].gen] = "down"
        /\ cur = q[i + 1].gen => \E j \in 1 .. (i + 1) - 1 : q[j].kind = "resume"
    BY <2>1, Zenon DEF Arrives
  <2>3. ASSUME cur = r[i].gen PROVE \E j \in 1 .. i - 1 : r[j].kind = "resume"
    <3>1. PICK j \in 1 .. (i + 1) - 1 : q[j].kind = "resume"
      BY <2>1, <2>2, <2>3, Zenon
    <3>2. j # 1 /\ j - 1 \in 1 .. i - 1 /\ j - 1 \in 1 .. n /\ (j - 1) + 1 = j
      BY <1>1, <3>1
    <3>. QED
      BY <1>1, <3>1, <3>2, Zenon
  <2>. QED
    BY <2>1, <2>2, <2>3, Zenon
<1>11. Arrives(r, cur, g, ups)
  BY <1>5, <1>6, <1>7, <1>8, <1>9, <1>10, Zenon DEF Arrives
<1>12. Head(q).kind = "down" => Head(q).gen # cur
  <2>1. 1 \in DOMAIN q /\ \A j \in 1 .. 1 - 1 : FALSE
    BY <1>1
  <2>. QED
    BY <1>1, <2>1, Zenon DEF Arrives
<1>13. ASSUME Head(q).kind = "quiesce", NEW x \in {"quiesce", "resume"}, x \in Kinds(r)
       PROVE  FALSE
  <2>1. PICK i \in DOMAIN r : r[i].kind = x
    BY <1>3, <1>13, Zenon
  <2>2. i + 1 \in DOMAIN q /\ q[i + 1].kind = x /\ 1 \in DOMAIN q /\ q[1].kind = "quiesce"
    BY <1>1, <1>4, <1>13, <2>1
  <2>3. i + 1 <= 1
    BY <2>2, Zenon DEF Arrives
  <2>. QED
    BY <1>1, <2>1, <2>3
<1>. QED
  BY <1>11, <1>12, <1>13, Zenon DEF r

\* The proxy resumes.
LEMMA ArrivesResumed ==
  ASSUME NEW q \in Seq(Msgs), q # << >>, NEW cur, NEW g, NEW ups,
         Arrives(q, cur, g, ups), Head(q).kind = "resume", ups[g] # "down"
  PROVE  Head(q).gen = g /\ Arrives(Tail(q), g, g, ups) /\ "resume" \notin Kinds(Tail(q))
<1>. DEFINE r == Tail(q)
            n == Len(q) - 1
<1>1. /\ n \in Nat /\ DOMAIN q = 1 .. n + 1 /\ DOMAIN r = 1 .. n
      /\ \A i \in 1 .. n : r[i] = q[i + 1]
      /\ Head(q) = q[1] /\ 1 \in DOMAIN q
  OBVIOUS
<1>3. \A x \in Kinds(r) : \E i \in DOMAIN r : r[i].kind = x
  BY Zenon DEF Kinds, Elements
<1>. HIDE DEF r, n
<1>4. \A i \in 1 .. n : i + 1 \in DOMAIN q
  BY <1>1
<1>5. \A i \in DOMAIN r : r[i].kind \in {"call", "quiesce", "resume", "down", "set_acl"}
  BY <1>1, <1>4 DEF Arrives
<1>6. \A i \in DOMAIN r : r[i].kind # "resume"
  <2>. SUFFICES ASSUME NEW i \in DOMAIN r, r[i].kind = "resume" PROVE FALSE
    BY Zenon
  <2>1. i + 1 = 1
    BY <1>1, <1>4, SMTT(30) DEF Arrives
  <2>. QED
    BY <1>1, <2>1
<1>7. "resume" \notin Kinds(r)
  BY <1>3, <1>6, Zenon
<1>8. ASSUME NEW i \in DOMAIN r, NEW j \in DOMAIN r, r[i].kind = "quiesce",
             r[j].kind \in {"resume", "quiesce"}
      PROVE  j <= i
  <2>1. j + 1 <= i + 1
    <3>1. /\ i + 1 \in DOMAIN q /\ j + 1 \in DOMAIN q /\ q[i + 1].kind = "quiesce"
          /\ q[j + 1].kind \in {"resume", "quiesce"}
      BY <1>1, <1>4, <1>8, Zenon
    <3>. QED
      BY <3>1, Zenon DEF Arrives
  <2>. QED
    BY <1>1, <2>1
<1>9. \A i \in DOMAIN r : r[i].kind = "down" => ups[r[i].gen] = "down"
  BY <1>1, <1>4 DEF Arrives
<1>10. Arrives(r, g, g, ups)
  BY <1>5, <1>6, <1>8, <1>9, Zenon DEF Arrives
<1>11. Head(q).gen = g
  BY <1>1, Zenon DEF Arrives
<1>. QED
  BY <1>7, <1>10, <1>11, Zenon DEF r
-----------------------------------------------------------------------------
\* What the invariant is about.
keyVars == <<op, pc, ngen, entry, retired, inst, up, box, pmdowns>>

\* The plugin that the boot has loaded satisfies the invariant.
LEMMA InitInstance == Init => InstanceInv
  BY GensArePositive DEF Init, InstanceInv, InstanceOwned, DestroyedAfterDown,
     DestroyedAfterExit, Gens

\* A step that touches none of these variables keeps the invariant.
LEMMA Frame == InstanceInv /\ UNCHANGED keyVars => InstanceInv'
  BY DEF keyVars, InstanceInv, InstanceOwned, DestroyedAfterDown, DestroyedAfterExit

\* The handler moves on without touching an instance or an actor.
LEMMA ControlKeeps ==
  ASSUME InstanceInv, op \in {"reload", "unload"},
         pc' \in {"start", "ack", "save"}, pc # "retire",
         UNCHANGED <<op, ngen, entry, retired, inst, up, box, pmdowns>>
  PROVE  InstanceInv'
  BY Zenon DEF InstanceInv, InstanceOwned, DestroyedAfterDown, DestroyedAfterExit

\* Messages are taken from, or sent to, running actors.
LEMMA BoxesKeep ==
  ASSUME InstanceInv, UNCHANGED <<op, pc, ngen, entry, retired, inst, up, pmdowns>>,
         DOMAIN box' = Gens,
         \A g \in Gens : box'[g] # << >> => up[g] = "up"
  PROVE  InstanceInv'
  BY Zenon DEF InstanceInv, InstanceOwned, DestroyedAfterDown, DestroyedAfterExit

\* delegate enqueues only at an actor that runs.
LEMMA DelegateKeeps ==
  ASSUME InstanceInv, NEW g, NEW q, Delegate(g, q)
  PROVE  DOMAIN box' = Gens /\ \A h \in Gens : box'[h] # << >> => up[h] = "up"
  BY Zenon DEF Delegate, InstanceInv

\* An actor that stops takes its mailbox with it; its down_msg follows.
LEMMA TerminateKeeps ==
  ASSUME InstanceInv, NEW g \in Gens, up[g] = "up", Terminate(g),
         UNCHANGED <<op, pc, ngen, entry, retired, inst>>
  PROVE  InstanceInv'
<1>1. /\ up' = [up EXCEPT ![g] = "down"]
      /\ box' = [box EXCEPT ![g] = << >>]
      /\ pmdowns' = pmdowns \cup {g}
  BY Zenon DEF Terminate
<1>2. up' \in [Gens -> {"none", "up", "down"}]
  BY <1>1, Zenon DEF InstanceInv
<1>3. DOMAIN box' = Gens /\ \A h \in Gens : box'[h] # << >> => up'[h] = "up"
  BY <1>1, Zenon DEF InstanceInv
<1>4. pmdowns' \subseteq {h \in Gens : up'[h] = "down"}
  BY <1>1, Zenon DEF InstanceInv
<1>5. \A h \in Gens : up[h] # "up" => up'[h] = up[h]
  BY <1>1, Zenon DEF InstanceInv
<1>6. ngen \in Gens
  BY Zenon DEF InstanceInv
<1>. QED
  BY <1>2, <1>3, <1>4, <1>5, <1>6, GensArePositive
     DEF InstanceInv, InstanceOwned, DestroyedAfterDown, DestroyedAfterExit

\* A reload creates an instance that it owns itself.
LEMMA BeginReloadKeeps == InstanceInv /\ BeginReload => InstanceInv'
<1>. SUFFICES ASSUME InstanceInv, BeginReload PROVE InstanceInv'
  BY Zenon
<1>1. ngen \in Nat /\ ngen + 1 \in Gens
  BY BoundsAssumption DEF InstanceInv, BeginReload, Gens
<1>2. /\ op = "idle" /\ op' = "reload" /\ entry # 0
      /\ ngen' = ngen + 1
      /\ inst' = [inst EXCEPT ![ngen + 1] = "live"]
      /\ UNCHANGED <<pc, entry, retired, up, box, pmdowns>>
  BY Zenon DEF BeginReload, actorVars
<1>3. /\ pc = "start"
      /\ inst[ngen + 1] = "none" /\ up[ngen + 1] = "none"
      /\ entry < ngen + 1 /\ ngen + 1 \notin retired
  BY <1>1, <1>2 DEF InstanceInv
<1>4. \A g \in Gens : g > ngen + 1 => inst'[g] = "none" /\ up'[g] = "none"
  BY <1>1, <1>2, GensArePositive DEF InstanceInv
<1>5. InstanceOwned'
  BY <1>1, <1>2, <1>3, Zenon DEF InstanceInv, InstanceOwned
<1>6. DestroyedAfterDown'
  BY <1>1, <1>2, Zenon DEF InstanceInv, DestroyedAfterDown, DestroyedAfterExit
<1>. QED
  BY <1>1, <1>2, <1>3, <1>4, <1>5, <1>6, SMTT(30) DEF InstanceInv

\* An unload leaves the instance with plugins_ until it retires it.
LEMMA BeginUnloadKeeps == InstanceInv /\ BeginUnload => InstanceInv'
  BY DEF BeginUnload, actorVars, InstanceInv, InstanceOwned, DestroyedAfterDown,
     DestroyedAfterExit

\* Destroying live instances destroys each once.
LEMMA DestroyOnce ==
  ASSUME NEW S, inst \in [Gens -> {"none", "live", "destroyed", "twice"}],
         \A g \in Gens : g \in S => inst[g] = "live",
         Destroy(S)
  PROVE  /\ inst' \in [Gens -> {"none", "live", "destroyed", "twice"}]
         /\ \A g \in Gens : g \in S => inst'[g] = "destroyed"
         /\ \A g \in Gens : g \notin S => inst'[g] = inst[g]
  BY Zenon DEF Destroy

\* A reload that is rolled back destroys the instance whose actor it has not
\* spawned.
LEMMA RollbackKeeps == InstanceInv /\ Rollback => InstanceInv'
<1>. SUFFICES ASSUME InstanceInv, Rollback PROVE InstanceInv'
  OBVIOUS
<1>1. /\ op = "reload" /\ op' = "idle" /\ pc' = "start" /\ Destroy({ngen})
      /\ UNCHANGED <<ngen, entry, retired, up, box, pmdowns>>
      /\ \E s \in todo : QuiesceFails(s)
  BY Zenon DEF Rollback, GiveUp, actorVars
<1>2. pc # "retire"
  BY <1>1, Zenon DEF QuiesceFails
<1>3. ngen \in Gens /\ inst[ngen] = "live" /\ up[ngen] = "none"
      /\ entry # ngen /\ ngen \notin retired
  BY <1>1, <1>2, SMTT(30) DEF InstanceInv, InstanceOwned
<1>4. /\ inst' \in [Gens -> {"none", "live", "destroyed", "twice"}]
      /\ inst'[ngen] = "destroyed"
      /\ \A g \in Gens : g # ngen => inst'[g] = inst[g]
  BY <1>1, <1>3, DestroyOnce DEF InstanceInv
<1>5. InstanceOwned'
  BY <1>1, <1>3, <1>4 DEF InstanceInv, InstanceOwned
<1>6. DestroyedAfterDown'
  BY <1>1, <1>3, <1>4, Zenon DEF InstanceInv, DestroyedAfterDown, DestroyedAfterExit
<1>7. \A g \in Gens : g > ngen' => inst'[g] = "none" /\ up'[g] = "none"
  BY <1>1, <1>3, <1>4, GensArePositive DEF InstanceInv
<1>. QED
  BY <1>1, <1>4, <1>5, <1>6, <1>7, Zenon DEF InstanceInv

\* The new actor is spawned for the instance that the reload still owns.
LEMMA SwitchOverKeeps ==
  ASSUME InstanceInv, pc = "save", NEW d, SwitchOver(d)
  PROVE  InstanceInv'
<1>1. /\ op = "reload" /\ pc' = "retire"
      /\ up' = [up EXCEPT ![ngen] = "up"]
      /\ UNCHANGED <<op, ngen, entry, retired, inst, pmdowns>>
      /\ box' = IF d = << >> THEN box ELSE [box EXCEPT ![ngen] = <<Restore(d)>>]
  BY Zenon DEF SwitchOver
<1>2. ngen \in Gens /\ ngen \in Nat /\ up[ngen] = "none" /\ inst[ngen] = "live"
  BY <1>1, GensArePositive, Zenon DEF InstanceInv, InstanceOwned
<1>3. up' \in [Gens -> {"none", "up", "down"}] /\ up'[ngen] = "up"
      /\ \A g \in Gens : g # ngen => up'[g] = up[g]
  BY <1>1, <1>2, Zenon DEF InstanceInv
<1>4. DOMAIN box' = Gens /\ \A g \in Gens : box'[g] # << >> => up'[g] = "up"
  BY <1>1, <1>2, <1>3, Zenon DEF InstanceInv
<1>5. pmdowns' \subseteq {g \in Gens : up'[g] = "down"}
  BY <1>1, <1>2, <1>3, Zenon DEF InstanceInv
<1>6. InstanceOwned'
  BY <1>1, Zenon DEF InstanceInv, InstanceOwned
<1>7. DestroyedAfterDown'
  BY <1>1, <1>2, <1>3, Zenon DEF InstanceInv, DestroyedAfterDown, DestroyedAfterExit
<1>8. \A g \in Gens : g > ngen' => inst'[g] = "none" /\ up'[g] = "none"
  BY <1>1, <1>2, <1>3, GensArePositive, Zenon DEF InstanceInv
<1>. QED
  BY <1>1, <1>3, <1>4, <1>5, <1>6, <1>7, <1>8, Zenon DEF InstanceInv

\* An unload withdraws the services and goes on to the retirement.
LEMMA WithdrawKeeps == InstanceInv /\ Withdraw => InstanceInv'
  BY DEF Withdraw, actorVars, InstanceInv, InstanceOwned, DestroyedAfterDown,
     DestroyedAfterExit

\* The old instance moves from plugins_ to retired_, the new one to plugins_.
LEMMA RetireKeeps == InstanceInv /\ Retire => InstanceInv'
<1>. SUFFICES ASSUME InstanceInv, Retire PROVE InstanceInv'
  OBVIOUS
<1>1. /\ pc = "retire" /\ op' = "idle" /\ pc' = "start"
      /\ retired' = retired \cup {entry}
      /\ entry' = IF op = "reload" THEN ngen ELSE 0
      /\ box' = IF up[entry] = "up" THEN [box EXCEPT ![entry] = @ \o <<ExitMsg>>]
                ELSE box
      /\ UNCHANGED <<ngen, inst, up, pmdowns>>
  BY Zenon DEF Retire, RetireOld
<1>2. op \in {"reload", "unload"} /\ entry # 0 /\ ngen \in Gens /\ ngen \in Nat
  BY <1>1, GensArePositive, Zenon DEF InstanceInv
<1>3. entry' \in 0 .. ngen /\ retired' \subseteq (1 .. ngen) \ {entry'}
  BY <1>1, <1>2 DEF InstanceInv
<1>4. DOMAIN box' = Gens /\ \A g \in Gens : box'[g] # << >> => up'[g] = "up"
  BY <1>1, Zenon DEF InstanceInv
<1>5. InstanceOwned'
  BY <1>1, <1>2, GensArePositive, Zenon DEF InstanceInv, InstanceOwned
<1>6. DestroyedAfterDown'
  BY <1>1, <1>2, Zenon DEF InstanceInv, DestroyedAfterDown, DestroyedAfterExit
<1>. QED
  BY <1>1, <1>3, <1>4, <1>5, <1>6, Zenon DEF InstanceInv

\* down_msg of a retired actor.
LEMMA DownOfRetiredKeeps ==
  ASSUME InstanceInv, NEW g \in Gens, DownOfRetired(g)
  PROVE  InstanceInv'
<1>1. /\ op = "idle" /\ g \in pmdowns /\ g \in retired
      /\ pmdowns' = pmdowns \ {g} /\ retired' = retired \ {g}
      /\ Destroy({g})
      /\ UNCHANGED <<op, pc, ngen, entry, up, box>>
  BY Zenon DEF DownOfRetired, Reap
<1>2. up[g] = "down" /\ inst[g] = "live" /\ g # entry /\ g \in 1 .. ngen
  BY <1>1, Zenon DEF InstanceInv, InstanceOwned
<1>3. /\ inst' \in [Gens -> {"none", "live", "destroyed", "twice"}]
      /\ inst'[g] = "destroyed"
      /\ \A h \in Gens : h # g => inst'[h] = inst[h]
  BY <1>1, <1>2, DestroyOnce DEF InstanceInv
<1>4. InstanceOwned'
  BY <1>1, <1>2, <1>3 DEF InstanceInv, InstanceOwned
<1>5. DestroyedAfterDown'
  BY <1>1, <1>2, <1>3, Zenon DEF InstanceInv, DestroyedAfterDown, DestroyedAfterExit
<1>6. \A h \in Gens : h > ngen' => inst'[h] = "none" /\ up'[h] = "none"
  BY <1>1, <1>2, <1>3, GensArePositive, Zenon DEF InstanceInv
<1>. QED
  BY <1>1, <1>3, <1>4, <1>5, <1>6, Zenon DEF InstanceInv

\* down_msg of the actor in plugins_, or of one that is in neither.
LEMMA DownOfEntryKeeps ==
  ASSUME InstanceInv, NEW g \in Gens, DownOfEntry(g)
  PROVE  InstanceInv'
<1>1. /\ op = "idle" /\ g \in pmdowns /\ g \notin retired
      /\ pmdowns' = pmdowns \ {g}
      /\ UNCHANGED <<op, pc, ngen, retired, up, box>>
  BY Zenon DEF DownOfEntry
<1>2. up[g] = "down" /\ ngen \in Nat
  BY <1>1, GensArePositive, Zenon DEF InstanceInv
<1>3. CASE entry # g
  <2>1. UNCHANGED <<entry, inst>>
    BY <1>3, Zenon DEF DownOfEntry
  <2>. QED
    BY <1>1, <2>1, Zenon DEF InstanceInv, InstanceOwned, DestroyedAfterDown, DestroyedAfterExit
<1>4. CASE entry = g
  <2>1. entry' = 0 /\ Destroy({g})
    BY <1>4, Zenon DEF DownOfEntry
  <2>2. inst[g] = "live" /\ g \in 1 .. ngen
    BY <1>1, <1>4, GensArePositive DEF InstanceInv, InstanceOwned
  <2>3. /\ inst' \in [Gens -> {"none", "live", "destroyed", "twice"}]
        /\ inst'[g] = "destroyed"
        /\ \A h \in Gens : h # g => inst'[h] = inst[h]
    <3>1. inst \in [Gens -> {"none", "live", "destroyed", "twice"}]
      BY Zenon DEF InstanceInv
    <3>. QED
      BY ONLY <2>1, <2>2, <3>1, g \in Gens, DestroyOnce
  <2>4. InstanceOwned'
    BY <1>1, <1>4, <2>1, <2>2, <2>3, GensArePositive DEF InstanceInv, InstanceOwned
  <2>5. DestroyedAfterDown'
    BY <1>1, <1>2, <2>3, Zenon DEF InstanceInv, DestroyedAfterDown, DestroyedAfterExit
  <2>6. \A h \in Gens : h > ngen' => inst'[h] = "none" /\ up'[h] = "none"
    BY <1>1, <2>2, <2>3, GensArePositive, SMTT(30) DEF InstanceInv
  <2>. QED
    BY <1>1, <1>2, <2>1, <2>3, <2>4, <2>5, <2>6 DEF InstanceInv
<1>. QED
  BY <1>3, <1>4, Zenon

\* The manager's exit destroys what is left, each instance once.
LEMMA ManagerExitKeeps == InstanceInv /\ ManagerExit => InstanceInv'
<1>. SUFFICES ASSUME InstanceInv, ManagerExit PROVE InstanceInv'
  OBVIOUS
<1>1. /\ op = "idle" /\ op' = "exited" /\ entry' = 0 /\ retired' = {}
      /\ Destroy({entry} \cup retired)
      /\ UNCHANGED <<pc, ngen, up, box, pmdowns>>
  BY Zenon DEF ManagerExit, actorVars
<1>2. pc = "start" /\ ngen \in Nat
  BY <1>1, GensArePositive, Zenon DEF InstanceInv
<1>3. \A g \in Gens : g \in {entry} \cup retired => inst[g] = "live"
  BY Zenon DEF InstanceInv, InstanceOwned
<1>4. /\ inst' \in [Gens -> {"none", "live", "destroyed", "twice"}]
      /\ \A g \in Gens : g \in {entry} \cup retired => inst'[g] = "destroyed"
      /\ \A g \in Gens : g \notin {entry} \cup retired => inst'[g] = inst[g]
  BY <1>1, <1>3, DestroyOnce, Zenon DEF InstanceInv
<1>5. InstanceOwned'
  BY <1>1, <1>4, GensArePositive DEF InstanceInv, InstanceOwned
<1>6. \A g \in Gens : g > ngen' => inst'[g] = "none" /\ up'[g] = "none"
  BY <1>1, <1>2, <1>4, GensArePositive DEF InstanceInv
<1>. QED
  BY <1>1, <1>2, <1>4, <1>5, <1>6 DEF InstanceInv, DestroyedAfterDown

\* The proxies forward only to running actors.
LEMMA ProxyStepKeeps ==
  ASSUME InstanceInv, NEW s \in Svcs, ProxyStep(s)
  PROVE  InstanceInv'
<1>1. UNCHANGED <<op, pc, ngen, entry, retired, inst, up, pmdowns>>
  BY Zenon DEF ProxyStep
<1>2. UNCHANGED box \/ \E g, q : Delegate(g, q)
  BY Zenon DEF ProxyStep, ProxyCall, ProxyResume, ResumeOn
<1>3. DOMAIN box' = Gens /\ \A g \in Gens : box'[g] # << >> => up[g] = "up"
  <2>1. CASE UNCHANGED box
    BY <2>1, Zenon DEF InstanceInv
  <2>2. CASE \E g, q : Delegate(g, q)
    BY <2>2, DelegateKeeps, Zenon
  <2>. QED
    BY <1>2, <2>1, <2>2, Zenon
<1>. QED
  BY <1>1, <1>3, BoxesKeep, Zenon

\* A plugin's actor handles a message or is told to exit.
LEMMA ActorStepKeeps ==
  ASSUME InstanceInv, NEW g \in Gens, ActorStep(g)
  PROVE  InstanceInv'
<1>1. up[g] = "up"
  BY Zenon DEF ActorStep, InstanceInv
<1>2. UNCHANGED <<op, pc, ngen, entry, retired, inst>>
  BY Zenon DEF ActorStep
<1>3. CASE Terminate(g)
  BY <1>1, <1>2, <1>3, TerminateKeeps, Zenon
<1>4. CASE box' = [box EXCEPT ![g] = Tail(@)] /\ UNCHANGED <<up, pmdowns>>
  <2>1. DOMAIN box' = Gens /\ \A h \in Gens : box'[h] # << >> => up[h] = "up"
    BY <1>1, <1>4, Zenon DEF InstanceInv
  <2>. QED
    BY <1>2, <1>4, <2>1, BoxesKeep, Zenon
<1>. QED
  BY <1>3, <1>4, Zenon DEF ActorStep

\* The request save_state_atom goes to an actor that runs, or nowhere.
LEMMA AskSaveKeeps == InstanceInv /\ AskSave => InstanceInv'
<1>. SUFFICES ASSUME InstanceInv, AskSave PROVE InstanceInv'
  OBVIOUS
<1>1. /\ op \in {"reload", "unload"} /\ pc = "start" /\ pc' = "save"
      /\ box' = IF up[entry] = "up"
                THEN [box EXCEPT ![entry] = Append(@, Save(round))] ELSE box
      /\ UNCHANGED <<op, ngen, entry, retired, inst, up, pmdowns>>
  BY Zenon DEF AskSave, RequestSave
<1>2. DOMAIN box' = Gens /\ \A g \in Gens : box'[g] # << >> => up[g] = "up"
  BY <1>1, Zenon DEF InstanceInv
<1>. QED
  BY <1>1, <1>2, Zenon DEF InstanceInv, InstanceOwned, DestroyedAfterDown, DestroyedAfterExit

\* Every step keeps the invariant.
LEMMA NextInstance == InstanceInv /\ [Next]_vars => InstanceInv'
<1>. SUFFICES ASSUME InstanceInv, [Next]_vars PROVE InstanceInv'
  BY Zenon
<1>1. ASSUME NEW s \in Svcs, AskQuiesce(s) PROVE InstanceInv'
  BY <1>1, ControlKeeps, Zenon DEF AskQuiesce, actorVars
<1>2. CASE Quiesced
  <2>1. op \in {"reload", "unload"}
    BY <1>2, Zenon DEF Quiesced, InstanceInv
  <2>. QED
    BY <1>2, <2>1, ControlKeeps, Zenon DEF Quiesced, actorVars
<1>3. ASSUME NEW s \in Svcs, SkipProxy(s) PROVE InstanceInv'
  BY <1>3, ControlKeeps, Zenon DEF SkipProxy, QuiesceFails, actorVars
<1>4. CASE Saved
  BY <1>4, SwitchOverKeeps, WithdrawKeeps, Zenon DEF Saved
<1>5. CASE SaveFails
  BY <1>5, SwitchOverKeeps, WithdrawKeeps, Zenon DEF SaveFails
<1>6. CASE ManagerStep
  BY <1>1, <1>2, <1>3, <1>4, <1>5, <1>6, RollbackKeeps, AskSaveKeeps, RetireKeeps,
     DownOfRetiredKeeps, DownOfEntryKeeps, Zenon DEF ManagerStep
<1>7. ASSUME NEW s \in Svcs, RegistryStep(s) PROVE InstanceInv'
  BY <1>7, Frame, Zenon DEF RegistryStep, pmVars, keyVars
<1>8. ASSUME NEW g \in Gens, NEW c \in pending[g], Continue(g, c) PROVE InstanceInv'
  BY <1>8, Frame, Zenon DEF Continue, pmVars, keyVars
<1>9. ASSUME NEW g \in Gens, Crash(g) PROVE InstanceInv'
  BY <1>9, TerminateKeeps, Zenon DEF Crash, pmVars
<1>10. ASSUME NEW c \in Clients, NEW s \in Svcs, Call(c, s) PROVE InstanceInv'
  BY <1>10, Frame, Zenon DEF Call, pmVars, actorVars, keyVars
<1>11. CASE UNCHANGED vars
  BY <1>11, Frame, Zenon DEF vars, pmVars, actorVars, keyVars
<1>. QED
  BY <1>6, <1>7, <1>8, <1>9, <1>10, <1>11, BeginReloadKeeps, BeginUnloadKeeps,
     ManagerExitKeeps, ProxyStepKeeps, ActorStepKeeps, Zenon DEF Next

\* plugins_, retired_, the running reload, the actors and their mailboxes agree
\* about every instance, in every reachable state of the plugin manager.
THEOREM InstanceInvariant == Spec => []InstanceInv
  BY InitInstance, NextInstance, PTL DEF Spec

\* Every plugin instance has exactly one owner until it is destroyed, and none
\* is destroyed twice (plugin_manager.cpp:473-540).
THEOREM InstancesOwned == Spec => []InstanceOwned
<1>1. InstanceInv => InstanceOwned
  BY Zenon DEF InstanceInv
<1>. QED
  BY <1>1, InstanceInvariant, PTL

\* The handlers of a running plugin manager destroy no instance whose actor may
\* still run (docs/hot-reload-procedure.md:94).
THEOREM ActorsOutlived == Spec => []DestroyedAfterDown
<1>1. InstanceInv => DestroyedAfterDown
  BY Zenon DEF InstanceInv
<1>. QED
  BY <1>1, InstanceInvariant, PTL
-----------------------------------------------------------------------------
\* send to the proxies.
LEMMA ToProxiesType ==
  ASSUME pbox \in [Svcs -> Seq(Msgs)], NEW S, NEW m \in Msgs, ToProxies(S, m)
  PROVE  pbox' \in [Svcs -> Seq(Msgs)]
  BY ElementsAppend, Zenon DEF ToProxies

\* delegate.
LEMMA DelegateType ==
  ASSUME box \in [Gens -> Seq(Msgs)], NEW g, NEW q \in Seq(Calls), Delegate(g, q)
  PROVE  box' \in [Gens -> Seq(Msgs)]
<1>. DEFINE r == [i \in DOMAIN q |-> CallMsg(q[i])]
<1>1. r \in Seq(Msgs)
  <2>1. Len(q) \in Nat /\ DOMAIN q = 1 .. Len(q) /\ \A i \in DOMAIN q : q[i] \in Calls
    OBVIOUS
  <2>2. r \in [1 .. Len(q) -> Msgs]
    BY <2>1, MsgTypes, Zenon
  <2>. HIDE DEF r
  <2>. QED
    BY <2>1, <2>2, MailboxIs, Zenon
<1>2. box' = box \/ box' = [box EXCEPT ![g] = @ \o r]
  BY Zenon DEF Delegate
<1>. HIDE DEF r
<1>3. \A h \in Gens : box[h] \o r \in Seq(Msgs)
  BY <1>1, ElementsConcat, Zenon
<1>. QED
  BY <1>2, <1>3, Zenon

\* A plugin's actor stops.
LEMMA TerminateType ==
  ASSUME TypeOK, NEW g \in Gens, Terminate(g)
  PROVE  /\ up' \in [Gens -> {"none", "up", "down"}] /\ box' \in [Gens -> Seq(Msgs)]
         /\ pending' \in [Gens -> SUBSET Calls] /\ pmdowns' \subseteq Gens
         /\ pbox' \in [Svcs -> Seq(Msgs)]
<1>1. pbox' \in [Svcs -> Seq(Msgs)]
  BY MsgTypes, ToProxiesType, Zenon DEF Terminate, TypeOK
<1>. QED
  BY <1>1, SMTT(30) DEF Terminate, TypeOK

\* The plugin manager's steps keep the types.
LEMMA ManagerType ==
  ASSUME TypeOK, InstanceInv, BeginReload \/ BeginUnload \/ ManagerStep \/ ManagerExit
  PROVE  TypeOK'
<1>. USE DEF regVars, proxyVars, actorVars, callVars, history, answers
<1>sub. \A g : Provides(g) \subseteq Svcs
  BY Zenon DEF Provides, Svcs
<1>num. \A S, S2 : S \subseteq Gens /\ S2 \subseteq Gens => S \cup S2 \subseteq Gens
  BY Zenon
<1>next. round + 1 \in Nat
  BY DEF TypeOK
<1>1. CASE BeginReload
  <2>1. ngen + 1 \in Gens
    BY <1>1, BoundsAssumption, SMTT(30) DEF BeginReload, InstanceInv, Gens
  <2>2. inst' \in [Gens -> {"none", "live", "destroyed", "twice"}]
    BY <1>1, <2>1, Zenon DEF BeginReload, TypeOK
  <2>. QED
    BY <1>1, <1>sub, <1>next, <2>1, <2>2, Zenon DEF BeginReload, TypeOK
<1>2. CASE BeginUnload
  BY <1>2, <1>sub, <1>next, Zenon DEF BeginUnload, TypeOK
<1>3. ASSUME NEW s \in Svcs, AskQuiesce(s) PROVE TypeOK'
  <2>1. pbox' \in [Svcs -> Seq(Msgs)]
    BY <1>3, MsgTypes, ToProxiesType, Zenon DEF AskQuiesce, TypeOK
  <2>. QED
    BY <1>3, <2>1, Zenon DEF AskQuiesce, TypeOK
<1>4. CASE Quiesced
  <2>1. asking \in Svcs
    BY <1>4, Zenon DEF Quiesced, TypeOK
  <2>. QED
    BY <1>4, <2>1, Zenon DEF Quiesced, TypeOK
<1>5. CASE Rollback
  <2>1. inst' \in [Gens -> {"none", "live", "destroyed", "twice"}]
    BY <1>5, Zenon DEF Rollback, GiveUp, Destroy, TypeOK
  <2>2. entry \in Gens
    BY <1>5, Zenon DEF Rollback, GiveUp, InstanceInv, TypeOK
  <2>3. pbox' \in [Svcs -> Seq(Msgs)]
    BY <1>5, <2>2, MsgTypes, ToProxiesType, Zenon DEF Rollback, GiveUp, TypeOK
  <2>. QED
    BY <1>5, <2>1, <2>3, Zenon DEF Rollback, GiveUp, TypeOK
<1>6. ASSUME NEW s \in Svcs, SkipProxy(s) PROVE TypeOK'
  BY <1>6, Zenon DEF SkipProxy, TypeOK
<1>7. CASE AskSave
  <2>1. box' \in [Gens -> Seq(Msgs)]
    <3>1. Save(round) \in Msgs
      BY MsgTypes, Zenon DEF TypeOK
    <3>2. \A g \in Gens : Append(box[g], Save(round)) \in Seq(Msgs)
      BY <3>1 DEF TypeOK
    <3>. QED
      BY <1>7, <3>2, Zenon DEF AskSave, RequestSave, TypeOK
  <2>. QED
    BY <1>7, <2>1, SMTT(30) DEF AskSave, RequestSave, TypeOK
<1>8. ASSUME NEW d \in Seq(Calls), SwitchOver(d), pc = "save" PROVE TypeOK'
  <2>1. ngen \in Gens
    BY Zenon DEF TypeOK
  <2>2. box' \in [Gens -> Seq(Msgs)]
    <3>1. <<Restore(d)>> \in Seq(Msgs)
      BY MsgTypes
    <3>. QED
      BY <1>8, <2>1, <3>1, Zenon DEF SwitchOver, TypeOK
  <2>3. regbox' \in [Svcs -> Seq(Msgs)]
    <3>1. \A s \in Svcs : LedgerMessages(s) \in Seq(Msgs)
      BY <2>1, MsgTypes DEF LedgerMessages
    <3>2. \A s \in Svcs : regbox[s] \o LedgerMessages(s) \in Seq(Msgs)
      BY <3>1, ElementsConcat, Zenon DEF TypeOK
    <3>. QED
      BY <1>8, <3>2, Zenon DEF SwitchOver
  <2>4. pbox' \in [Svcs -> Seq(Msgs)]
    BY <1>8, <2>1, MsgTypes, ToProxiesType, Zenon DEF SwitchOver, TypeOK
  <2>. QED
    BY <1>8, <2>1, <2>2, <2>3, <2>4, Zenon DEF SwitchOver, TypeOK
<1>9. CASE Withdraw /\ pc = "save"
  <2>1. regbox' \in [Svcs -> Seq(Msgs)]
    <3>1. \A s \in Svcs : Append(regbox[s], Unregister) \in Seq(Msgs)
      BY MsgTypes DEF TypeOK
    <3>. QED
      BY <1>9, <3>1, Zenon DEF Withdraw, TypeOK
  <2>. QED
    BY <1>9, <2>1, Zenon DEF Withdraw, TypeOK
<1>10. CASE Saved \/ SaveFails
  <2>1. << >> \in Seq(Calls) /\ (reply # << >> => reply[1] \in Seq(Calls))
    BY DEF TypeOK
  <2>. QED
    BY <1>8, <1>9, <1>10, <2>1, Zenon DEF Saved, SaveFails
<1>11. CASE Retire
  <2>1. entry \in Gens
    BY <1>11, Zenon DEF Retire, RetireOld, InstanceInv, TypeOK
  <2>2. box' \in [Gens -> Seq(Msgs)]
    <3>1. <<ExitMsg>> \in Seq(Msgs)
      BY MsgTypes
    <3>2. \A g \in Gens : box[g] \o <<ExitMsg>> \in Seq(Msgs)
      BY <3>1, ElementsConcat, Zenon DEF TypeOK
    <3>. QED
      BY <1>11, <3>2, Zenon DEF Retire, RetireOld, TypeOK
  <2>. QED
    BY <1>11, <2>1, <2>2, Zenon DEF Retire, RetireOld, TypeOK
<1>12. ASSUME NEW g \in Gens, DownOfRetired(g) PROVE TypeOK'
  <2>1. inst' \in [Gens -> {"none", "live", "destroyed", "twice"}]
    BY <1>12, Zenon DEF DownOfRetired, Reap, Destroy, TypeOK
  <2>. QED
    BY <1>12, <2>1, Zenon DEF DownOfRetired, Reap, TypeOK
<1>13. ASSUME NEW g \in Gens, DownOfEntry(g) PROVE TypeOK'
  <2>1. inst' \in [Gens -> {"none", "live", "destroyed", "twice"}]
    BY <1>13, Zenon DEF DownOfEntry, Destroy, TypeOK
  <2>2. regbox' \in [Svcs -> Seq(Msgs)]
    <3>1. \A s \in Svcs : regbox[s] \in Seq(Msgs) /\ Append(regbox[s], Unregister) \in Seq(Msgs)
      BY MsgTypes DEF TypeOK
    <3>2. \/ UNCHANGED regbox
          \/ regbox' = [s \in Svcs |-> IF s \in Provides(g) THEN Append(regbox[s], Unregister)
                                      ELSE regbox[s]]
      BY <1>13, Zenon DEF DownOfEntry
    <3>3. CASE UNCHANGED regbox
      BY <3>3, Zenon DEF TypeOK
    <3>. QED
      BY <3>1, <3>2, <3>3, Zenon
  <2>3. entry' \in Gens \cup {0}
    BY <1>13, Zenon DEF DownOfEntry, TypeOK
  <2>. QED
    BY <1>13, <2>1, <2>2, <2>3, Zenon DEF DownOfEntry, TypeOK
<1>14. CASE ManagerExit
  <2>1. inst' \in [Gens -> {"none", "live", "destroyed", "twice"}]
    BY <1>14, Zenon DEF ManagerExit, Destroy, TypeOK
  <2>. QED
    BY <1>14, <2>1, Zenon DEF ManagerExit, TypeOK
<1>. QED
  BY <1>1, <1>2, <1>3, <1>4, <1>5, <1>6, <1>7, <1>10, <1>11, <1>12, <1>13, <1>14, Zenon DEF ManagerStep

\* So do the registry's.
LEMMA RegistryType ==
  ASSUME TypeOK, NEW s \in Svcs, RegistryStep(s)
  PROVE  TypeOK'
<1>. USE DEF pmVars, proxyVars, callVars, history, answers
<1>. DEFINE m == Head(regbox[s])
<1>1. regbox[s] \in Seq(Msgs) /\ regbox[s] # << >>
  BY Zenon DEF RegistryStep, TypeOK
<1>2. m \in Msgs /\ Tail(regbox[s]) \in Seq(Msgs)
  BY <1>1, ElementsTail, Zenon
<1>3. regbox' \in [Svcs -> Seq(Msgs)]
  BY <1>2, Zenon DEF RegistryStep, TypeOK
<1>4. m.kind \in {"hot_reload", "register"} => m.gen \in Gens
  BY <1>2, MsgParts, Zenon
<1>. HIDE DEF m
<1>5. pbox' \in [Svcs -> Seq(Msgs)]
  <2>1. ASSUME NEW x \in Msgs, ToProxies({s}, x) PROVE pbox' \in [Svcs -> Seq(Msgs)]
    BY <2>1, ToProxiesType, Zenon DEF TypeOK
  <2>2. m.gen \in Gens => <<DownOf(m.gen)>> \in Seq(Msgs)
    BY MsgTypes
  <2>. QED
    BY <1>4, <2>1, <2>2, MsgTypes, Zenon DEF RegistryStep, TypeOK, m
<1>6. /\ impl' \in [Svcs -> Gens \cup {0}] /\ current' \in [Svcs -> Gens \cup {0}]
      /\ pup' \in [Svcs -> {"none", "up", "down"}] /\ watchers' \in [Gens -> SUBSET Svcs]
      /\ UNCHANGED <<paused, restricted, buffered>>
  <2>1. CASE m.kind = "register"
    <3>1. /\ \/ UNCHANGED <<impl, pup, current, watchers>>
             \/ /\ impl' = [impl EXCEPT ![s] = m.gen] /\ pup' = [pup EXCEPT ![s] = "up"]
                /\ current' = [current EXCEPT ![s] = m.gen]
                /\ watchers' = [watchers EXCEPT ![m.gen] = @ \cup {s}]
          /\ UNCHANGED <<paused, restricted, buffered>>
      BY <2>1, Zenon DEF RegistryStep, m
    <3>2. m.gen \in Gens
      BY <1>4, <2>1, Zenon
    <3>3. [watchers EXCEPT ![m.gen] = @ \cup {s}] \in [Gens -> SUBSET Svcs]
      BY <3>2, Zenon DEF TypeOK
    <3>4. /\ [impl EXCEPT ![s] = m.gen] \in [Svcs -> Gens \cup {0}]
          /\ [current EXCEPT ![s] = m.gen] \in [Svcs -> Gens \cup {0}]
          /\ [pup EXCEPT ![s] = "up"] \in [Svcs -> {"none", "up", "down"}]
      BY <3>2, Zenon DEF TypeOK
    <3>5. CASE UNCHANGED <<impl, pup, current, watchers>>
      BY <3>1, <3>5, Zenon DEF TypeOK
    <3>. QED
      BY <3>1, <3>3, <3>4, <3>5, Zenon
  <2>2. CASE m.kind # "register"
    BY <1>4, <2>2, Zenon DEF RegistryStep, TypeOK, m
  <2>. QED
    BY <2>1, <2>2, Zenon
<1>. QED
  BY <1>3, <1>5, <1>6, Zenon DEF RegistryStep, TypeOK

\* The proxies'.
LEMMA ProxyType ==
  ASSUME TypeOK, NEW s \in Svcs, ProxyStep(s)
  PROVE  TypeOK'
<1>. DEFINE m == Head(pbox[s])
            q == buffered[s]
<1>1. pbox[s] \in Seq(Msgs) /\ pbox[s] # << >> /\ q \in Seq(Calls)
  BY Zenon DEF ProxyStep, TypeOK
<1>2. m \in Msgs /\ Tail(pbox[s]) \in Seq(Msgs)
  BY <1>1, ElementsTail, Zenon
<1>3. /\ m.kind = "call" => m.call \in Calls
      /\ m.kind \in {"resume", "down"} => m.gen \in Gens
  BY <1>2, MsgParts, Zenon
<1>4. [pbox EXCEPT ![s] = Tail(@)] \in [Svcs -> Seq(Msgs)]
  BY <1>2, Zenon DEF TypeOK
<1>5. ASSUME NEW I \in SUBSET DOMAIN q, NEW r \in Kept(q, I) PROVE r \in Seq(Calls)
  BY <1>1, KeptType, Zenon
<1>6. pbox' \in [Svcs -> Seq(Msgs)]
  <2>1. ASSUME m.kind = "resume", ProxyResume(s, m.gen) PROVE pbox' \in [Svcs -> Seq(Msgs)]
    <3>1. pbox' = [pbox EXCEPT ![s] = Tail(@) \o (IF up[m.gen] = "down" THEN <<DownOf(m.gen)>>
                                                  ELSE << >>)]
      BY <2>1, Zenon DEF ProxyResume, ResumeOn
    <3>2. <<DownOf(m.gen)>> \in Seq(Msgs) /\ << >> \in Seq(Msgs)
      BY <1>3, <2>1, MsgTypes, MailboxOne, MailboxEmpty, Zenon
    <3>3. Tail(pbox[s]) \o (IF up[m.gen] = "down" THEN <<DownOf(m.gen)>> ELSE << >>) \in Seq(Msgs)
      BY <1>2, <3>2, ElementsConcat, Zenon
    <3>. QED
      BY <3>1, <3>3, Zenon DEF TypeOK
  <2>2. [pbox EXCEPT ![s] = << >>] \in [Svcs -> Seq(Msgs)]
    BY DEF TypeOK
  <2>. QED
    BY <1>4, <2>1, <2>2, Zenon DEF ProxyStep, ProxyDown, ProxyQuits
<1>7. box' \in [Gens -> Seq(Msgs)]
  <2>1. ASSUME ProxyCall(s, m.call), m.kind = "call" PROVE box' \in [Gens -> Seq(Msgs)]
    <3>1. <<m.call>> \in Seq(Calls)
      BY <1>3, <2>1
    <3>. QED
      BY <2>1, <3>1, DelegateType, Zenon DEF ProxyCall, TypeOK
  <2>2. ASSUME ProxyResume(s, m.gen) PROVE box' \in [Gens -> Seq(Msgs)]
    <3>1. PICK I \in SUBSET DOMAIN q : \E r \in Kept(q, I) : Delegate(m.gen, r)
      BY <2>2, Zenon DEF ProxyResume, ResumeOn
    <3>2. PICK r \in Kept(q, I) : Delegate(m.gen, r)
      BY <3>1, Zenon
    <3>. QED
      BY <1>5, <3>2, DelegateType, Zenon DEF TypeOK
  <2>. QED
    BY <2>1, <2>2, Zenon DEF ProxyStep, TypeOK
<1>8. buffered' \in [Svcs -> Seq(Calls)]
  <2>1. m.kind = "call" => Append(buffered[s], m.call) \in Seq(Calls)
    BY <1>1, <1>3
  <2>2. << >> \in Seq(Calls)
    OBVIOUS
  <2>. QED
    BY <2>1, <2>2, ZenonT(30) DEF ProxyStep, ProxyCall, ProxyResume, ResumeOn, ProxyDown, ProxyQuits, TypeOK
<1>9. /\ acked' \in BOOLEAN /\ paused' \in [Svcs -> BOOLEAN] /\ restricted' \in [Svcs -> BOOLEAN]
      /\ pup' \in [Svcs -> {"none", "up", "down"}]
  BY Zenon DEF ProxyStep, ProxyQuiesce, ProxyResume, ResumeOn, ProxyDown, ProxyQuits, TypeOK
<1>10. current' \in [Svcs -> Gens \cup {0}] /\ watchers' \in [Gens -> SUBSET Svcs]
  <2>1. CASE m.kind = "resume"
    <3>1. /\ current' = [current EXCEPT ![s] = m.gen]
          /\ watchers' = [watchers EXCEPT ![m.gen] = @ \cup {s}]
      BY <2>1, Zenon DEF ProxyStep, ProxyResume, ResumeOn
    <3>. QED
      BY <1>3, <2>1, <3>1, Zenon DEF TypeOK
  <2>2. CASE m.kind # "resume"
    BY <2>2, Zenon DEF ProxyStep, TypeOK
  <2>. QED
    BY <2>1, <2>2, Zenon
<1>. QED
  BY <1>6, <1>7, <1>8, <1>9, <1>10, Zenon DEF ProxyStep, TypeOK, regVars, history

\* The plugin's actors' and the clients'.
LEMMA ActorType ==
  ASSUME TypeOK, NEW g \in Gens, ActorStep(g) \/ Crash(g) \/ \E c \in pending[g] : Continue(g, c)
  PROVE  TypeOK'
<1>. USE DEF pmVars, proxyVars, regVars, history
<1>1. CASE ActorStep(g)
  <2>. DEFINE m == Head(box[g])
  <2>1. box[g] \in Seq(Msgs) /\ box[g] # << >>
    BY <1>1, Zenon DEF ActorStep, TypeOK
  <2>2. m \in Msgs /\ Tail(box[g]) \in Seq(Msgs)
    BY <2>1, ElementsTail, Zenon
  <2>3. (m.kind = "call" => m.call \in Calls) /\ (m.kind = "restore" => m.data \in Seq(Calls))
    BY <2>2, MsgParts, Zenon
  <2>4. [box EXCEPT ![g] = Tail(@)] \in [Gens -> Seq(Msgs)]
    BY <2>2, Zenon DEF TypeOK
  <2>5. (m.kind = "call" => Append(applied[g], m.call) \in Seq(Calls)) /\ applied[g] \in Seq(Calls)
        /\ <<applied[g]>> \in Seq(Seq(Calls))
    BY <2>3 DEF TypeOK
  <2>6. CASE m.kind = "exit"
    <3>1. Terminate(g) /\ UNCHANGED <<reply, applied, done>>
      BY <1>1, <2>6, Zenon DEF ActorStep
    <3>. QED
      BY <1>1, <3>1, TerminateType, Zenon DEF ActorStep, TypeOK
  <2>7. CASE m.kind # "exit"
    <3>1. box' \in [Gens -> Seq(Msgs)] /\ UNCHANGED <<up, pmdowns, pbox>>
      BY <1>1, <2>4, <2>7, Zenon DEF ActorStep
    <3>2. applied' \in [Gens -> Seq(Calls)] /\ pending' \in [Gens -> SUBSET Calls]
      <4>1. applied' \in [Gens -> Seq(Calls)]
        <5>1. \/ UNCHANGED applied
              \/ m.kind = "call" /\ applied' = [applied EXCEPT ![g] = Append(@, m.call)]
              \/ m.kind = "restore" /\ applied' = [applied EXCEPT ![g] = m.data]
          BY <1>1, <2>7, Zenon DEF ActorStep, Apply
        <5>. HIDE DEF m
        <5>. QED
          <6>1. applied \in [Gens -> Seq(Calls)]
            BY Zenon DEF TypeOK
          <6>. QED
            <7>1. CASE UNCHANGED applied
              BY <6>1, <7>1, Zenon
            <7>2. CASE m.kind = "call" /\ applied' = [applied EXCEPT ![g] = Append(@, m.call)]
              BY <2>5, <6>1, <7>2, Zenon
            <7>3. CASE m.kind = "restore" /\ applied' = [applied EXCEPT ![g] = m.data]
              BY <2>3, <6>1, <7>3, Zenon
            <7>. QED
              BY <5>1, <7>1, <7>2, <7>3, Zenon
      <4>2. pending' \in [Gens -> SUBSET Calls]
        <5>1. \/ UNCHANGED pending
              \/ m.kind = "call" /\ pending' = [pending EXCEPT ![g] = @ \cup {m.call}]
          BY <1>1, <2>7, Zenon DEF ActorStep, Apply
        <5>. HIDE DEF m
        <5>2. pending[g] \in SUBSET Calls /\ pending \in [Gens -> SUBSET Calls]
          BY Zenon DEF TypeOK
        <5>3. CASE m.kind = "call" /\ pending' = [pending EXCEPT ![g] = @ \cup {m.call}]
          <6>1. pending[g] \cup {m.call} \in SUBSET Calls
            BY <2>3, <5>2, <5>3, Zenon
          <6>. QED
            BY <5>2, <5>3, <6>1, Zenon
        <5>. QED
          BY <5>1, <5>2, <5>3, Zenon
      <4>. QED
        BY <4>1, <4>2, Zenon
    <3>3. reply' \in Seq(Seq(Calls))
      BY <1>1, <2>5, <2>7, Zenon DEF ActorStep, TypeOK
    <3>. QED
      BY <1>1, <3>1, <3>2, <3>3, Zenon DEF ActorStep, TypeOK
  <2>. QED
    BY <2>6, <2>7, Zenon
<1>2. CASE Crash(g)
  BY <1>2, TerminateType, Zenon DEF Crash, TypeOK
<1>3. ASSUME NEW c \in pending[g], Continue(g, c) PROVE TypeOK'
  <2>1. c \in Calls
    BY Zenon DEF TypeOK
  <2>2. Append(applied[g], c) \in Seq(Calls)
    BY <2>1 DEF TypeOK
  <2>. QED
    BY <1>3, <2>2, Zenon DEF Continue, Apply, TypeOK
<1>. QED
  BY <1>1, <1>2, <1>3, Zenon

\* A client's call.
LEMMA CallType ==
  ASSUME TypeOK, NEW c \in Clients, NEW s \in Svcs, Call(c, s)
  PROVE  TypeOK'
<1>1. PICK n \in 1 .. MaxCalls : LET x == [from |-> c, n |-> n, to |-> s] IN
        asked' = asked \cup {x} /\ ToProxies({s}, CallMsg(x))
  BY Zenon DEF Call
<1>. DEFINE x == [from |-> c, n |-> n, to |-> s]
<1>2. asked' = asked \cup {x} /\ ToProxies({s}, CallMsg(x))
  BY <1>1, Zenon
<1>3. x \in Calls
  BY Zenon DEF Calls
<1>. HIDE DEF x
<1>4. asked' \in SUBSET Calls
  BY <1>2, <1>3, Zenon DEF TypeOK
<1>5. pbox' \in [Svcs -> Seq(Msgs)]
  BY <1>2, <1>3, MsgTypes, ToProxiesType, Zenon DEF TypeOK
<1>. QED
  BY <1>4, <1>5, Zenon DEF Call, TypeOK, pmVars, regVars, proxyVars, actorVars, history

\* Every step keeps the types.
LEMMA ReloadTypeNext == TypeOK /\ InstanceInv /\ [Next]_vars => TypeOK'
<1>. SUFFICES ASSUME TypeOK, InstanceInv, [Next]_vars PROVE TypeOK'
  BY Zenon
<1>1. CASE UNCHANGED vars
  BY <1>1, Zenon DEF vars, TypeOK, pmVars, regVars, proxyVars, actorVars, callVars, history
<1>. QED
  BY <1>1, ManagerType, RegistryType, ProxyType, ActorType, CallType, Zenon DEF Next

\* Every variable of the plugin manager, the registry, the proxies, the actors
\* and the clients stays in its range; a mailbox holds only the messages that
\* its actor has a handler for.
THEOREM ReloadTypes == Spec => []TypeOK
<1>1. Init => TypeOK
  <2>. SUFFICES ASSUME Init PROVE TypeOK
    BY Zenon
  <2>1. asked \in SUBSET Calls
    BY Zenon DEF Init
  <2>2. 1 \in Gens /\ Services \subseteq Svcs
    BY GensArePositive, Zenon DEF Svcs
  <2>3. /\ regbox \in [Svcs -> Seq(Msgs)] /\ pbox \in [Svcs -> Seq(Msgs)]
        /\ buffered \in [Svcs -> Seq(Calls)] /\ box \in [Gens -> Seq(Msgs)]
        /\ applied \in [Gens -> Seq(Calls)] /\ reply \in Seq(Seq(Calls))
    BY DEF Init
  <2>4. /\ inst \in [Gens -> {"none", "live", "destroyed", "twice"}]
        /\ impl \in [Svcs -> Gens \cup {0}] /\ current \in [Svcs -> Gens \cup {0}]
        /\ pup \in [Svcs -> {"none", "up", "down"}] /\ up \in [Gens -> {"none", "up", "down"}]
    BY <2>2, Zenon DEF Init
  <2>5. /\ paused \in [Svcs -> BOOLEAN] /\ pending \in [Gens -> SUBSET Calls]
        /\ watchers \in [Gens -> SUBSET Svcs]
    BY <2>2, Zenon DEF Init
  <2>6. restricted \in [Svcs -> BOOLEAN]
    BY ZenonT(30) DEF Init
  <2>. QED
    BY <2>1, <2>2, <2>3, <2>4, <2>5, <2>6, Zenon DEF Init, TypeOK
<1>. QED
  BY <1>1, ReloadTypeNext, InstanceInvariant, PTL DEF Spec
-----------------------------------------------------------------------------
\* What a send to the proxies adds to their mailboxes.
LEMMA ToProxiesElements ==
  ASSUME TypeOK, NEW S, NEW m \in Msgs, ToProxies(S, m)
  PROVE  \A s \in Svcs : Elements(pbox'[s]) \subseteq Elements(pbox[s]) \cup
                           IF s \in S THEN {m} ELSE {}
<1>. SUFFICES ASSUME NEW s \in Svcs
              PROVE  Elements(pbox'[s]) \subseteq Elements(pbox[s]) \cup
                       IF s \in S THEN {m} ELSE {}
  BY Zenon
<1>1. pbox[s] \in Seq(Msgs)
  BY Zenon DEF TypeOK
<1>2. Elements(Append(pbox[s], m)) = Elements(pbox[s]) \cup {m}
  BY <1>1, ElementsAppend
<1>3. pbox'[s] = IF s \in S /\ pup[s] = "up" THEN Append(pbox[s], m) ELSE pbox[s]
  BY Zenon DEF ToProxies
<1>. QED
  BY <1>2, <1>3, Zenon

\* A proxy's new messages are the one that was sent.
LEMMA ToProxiesAdds ==
  ASSUME TypeOK, NEW S, NEW m \in Msgs, ToProxies(S, m)
  PROVE  \A s \in Svcs : \A x \in Elements(pbox'[s]) : x \in Elements(pbox[s]) \/ x = m
<1>1. \A s \in Svcs : Elements(pbox'[s]) \subseteq Elements(pbox[s]) \cup
                         IF s \in S THEN {m} ELSE {}
  BY ToProxiesElements, Zenon
<1>. QED
  BY <1>1, Zenon

\* What is delegated arrives in the mailbox of the actor it is delegated to.
LEMMA DelegateElements ==
  ASSUME TypeOK, NEW g, NEW q \in Seq(Calls), Delegate(g, q)
  PROVE  \A h \in Gens : Elements(box'[h]) \subseteq
                           Elements(box[h]) \cup {CallMsg(c) : c \in Elements(q)}
<1>. DEFINE r == [i \in DOMAIN q |-> CallMsg(q[i])]
<1>1. r \in Seq(Msgs)
  <2>1. Len(q) \in Nat /\ DOMAIN q = 1 .. Len(q) /\ \A i \in DOMAIN q : q[i] \in Calls
    OBVIOUS
  <2>2. r \in [1 .. Len(q) -> Msgs]
    BY <2>1, MsgTypes, Zenon
  <2>. HIDE DEF r
  <2>. QED
    BY <2>1, <2>2, MailboxIs, Zenon
<1>2. Elements(r) \subseteq {CallMsg(c) : c \in Elements(q)}
  BY Zenon DEF Elements
<1>3. box' = box \/ box' = [box EXCEPT ![g] = @ \o r]
  BY Zenon DEF Delegate
<1>. HIDE DEF r
<1>4. \A h \in Gens : box[h] \in Seq(Msgs)
  BY Zenon DEF TypeOK
<1>5. \A h \in Gens : Elements(box[h] \o r) = Elements(box[h]) \cup Elements(r)
  BY <1>1, <1>4, ElementsConcat
<1>6. \A h \in Gens : box'[h] = box[h] \/ box'[h] = box[h] \o r
  BY <1>3, ZenonT(30) DEF TypeOK
<1>. QED
  BY <1>2, <1>5, <1>6, Zenon

\* A step that carries no call any further keeps the ACL's invariant.
LEMMA AclFrame ==
  ASSUME AclInv,
         \A s \in Svcs : restricted[s] => restricted'[s],
         \A s \in Svcs : \A m \in Elements(pbox'[s]) : m \in Elements(pbox[s]) \/ m.kind # "call",
         \A g \in Gens : \A m \in Elements(box'[g]) :
           m \in Elements(box[g]) \/ m.kind \notin {"call", "restore"},
         reply' = << >> \/ reply' = reply,
         UNCHANGED <<buffered, pending, applied, refused>>
  PROVE  AclInv'
<1>1. Restricted => \A s \in Services : restricted'[s]
  BY Zenon DEF AclInv, Svcs
<1>2. CallsAtOwnProxy'
  BY Zenon DEF AclInv, CallsAtOwnProxy
<1>3. Restricted => OnlyLetThrough'
  BY Zenon DEF AclInv, OnlyLetThrough, LetThrough
<1>. QED
  BY <1>1, <1>2, <1>3, Zenon DEF AclInv, TrustedServed

\* The plugin manager hands the snapshot on and moves no call.
LEMMA AclManager ==
  ASSUME TypeOK, InstanceInv, AclInv, BeginReload \/ BeginUnload \/ ManagerStep \/ ManagerExit
  PROVE  AclInv'
<1>. USE DEF regVars, proxyVars, actorVars, callVars, history, answers
<1>1. CASE BeginReload \/ BeginUnload \/ Quiesced \/ ManagerExit
  BY <1>1, AclFrame, Zenon DEF BeginReload, BeginUnload, Quiesced, ManagerExit
<1>2. ASSUME NEW s \in Svcs, AskQuiesce(s) PROVE AclInv'
  <2>1. Quiesce(round) \in Msgs /\ Quiesce(round).kind = "quiesce"
    BY MsgTypes, MsgKinds, Zenon DEF TypeOK
  <2>2. \A t \in Svcs : \A m \in Elements(pbox'[t]) : m \in Elements(pbox[t]) \/ m.kind # "call"
    BY <1>2, <2>1, ToProxiesAdds, Zenon DEF AskQuiesce
  <2>. QED
    BY <1>2, <2>2, AclFrame, Zenon DEF AskQuiesce
<1>3. CASE Rollback
  <2>0. entry \in Gens
    BY <1>3, Zenon DEF Rollback, GiveUp, InstanceInv, TypeOK
  <2>1. Resume(entry) \in Msgs /\ Resume(entry).kind = "resume"
    BY <2>0, MsgTypes, MsgKinds, Zenon
  <2>2. \A t \in Svcs : \A m \in Elements(pbox'[t]) : m \in Elements(pbox[t]) \/ m.kind # "call"
    BY <1>3, <2>1, ToProxiesElements, Zenon DEF Rollback, GiveUp
  <2>. QED
    BY <1>3, <2>2, AclFrame, Zenon DEF Rollback, GiveUp
<1>4. ASSUME NEW s \in Svcs, SkipProxy(s) PROVE AclInv'
  BY <1>4, AclFrame, Zenon DEF SkipProxy
<1>5. CASE AskSave
  <2>1. Save(round) \in Msgs /\ Save(round).kind = "save"
    BY MsgTypes, MsgKinds, Zenon DEF TypeOK
  <2>2. \A g \in Gens : Elements(Append(box[g], Save(round))) = Elements(box[g]) \cup {Save(round)}
    BY <2>1, ElementsAppend DEF TypeOK
  <2>3. \A g \in Gens : box'[g] = box[g] \/ box'[g] = Append(box[g], Save(round))
    <3>1. box' = box \/ box' = [box EXCEPT ![entry] = Append(@, Save(round))]
      BY <1>5, Zenon DEF AskSave, RequestSave
    <3>. QED
      BY <3>1 DEF TypeOK
  <2>4. \A g \in Gens : Elements(box'[g]) \subseteq Elements(box[g]) \cup {Save(round)}
    BY <2>2, <2>3, Zenon
  <2>5. \A g \in Gens : \A m \in Elements(box'[g]) :
          m \in Elements(box[g]) \/ m.kind \notin {"call", "restore"}
    BY <2>1, <2>4, Zenon
  <2>. QED
    BY <1>5, <2>5, AclFrame, Zenon DEF AskSave, RequestSave
<1>6. ASSUME NEW d \in Seq(Calls), SwitchOver(d),
             Restricted => \A c \in Elements(d) : LetThrough(c)
      PROVE  AclInv'
  <2>1. ngen \in Gens /\ Resume(ngen) \in Msgs /\ Resume(ngen).kind = "resume"
    BY MsgTypes, MsgKinds, Zenon DEF TypeOK
  <2>2. \A t \in Svcs : \A m \in Elements(pbox'[t]) : m \in Elements(pbox[t]) \/ m.kind # "call"
    BY <1>6, <2>1, ToProxiesElements, Zenon DEF SwitchOver
  <2>3. CallsAtOwnProxy'
    BY <1>6, <2>2, Zenon DEF SwitchOver, AclInv, CallsAtOwnProxy
  <2>4. Elements(<<Restore(d)>>) = {Restore(d)}
    BY DEF Elements
  <2>5. \A g \in Gens : box'[g] = box[g] \/ box'[g] = <<Restore(d)>>
    BY <1>6, Zenon DEF SwitchOver, TypeOK
  <2>6. ASSUME Restricted PROVE OnlyLetThrough'
    <3>1. \A g \in Gens : \A m \in Elements(box'[g]) :
            /\ m.kind = "call" => LetThrough(m.call)
            /\ m.kind = "restore" => \A c \in Elements(m.data) : LetThrough(c)
      <4>1. ASSUME NEW g \in Gens, box'[g] = <<Restore(d)>>, NEW m \in Elements(box'[g])
            PROVE  /\ m.kind = "restore" /\ m.kind # "call"
                   /\ \A c \in Elements(m.data) : LetThrough(c)
        <5>1. m = Restore(d)
          BY <2>4, <4>1, Zenon
        <5>2. m.kind = "restore" /\ m.data = d
          BY <5>1, MsgKinds, Zenon
        <5>. QED
          BY <1>6, <2>6, <5>2, Zenon
      <4>. QED
        BY <2>5, <2>6, <4>1, Zenon DEF AclInv, OnlyLetThrough
    <3>. QED
      BY <1>6, <2>6, <3>1, Zenon DEF SwitchOver, AclInv, OnlyLetThrough, LetThrough
  <2>. QED
    BY <1>6, <2>3, <2>6, Zenon DEF SwitchOver, AclInv, TrustedServed
<1>7. CASE Withdraw
  BY <1>7, AclFrame, Zenon DEF Withdraw
<1>8. CASE Saved \/ SaveFails
  <2>1. << >> \in Seq(Calls) /\ (reply # << >> => reply[1] \in Seq(Calls))
    BY DEF TypeOK
  <2>2. Elements(<< >>) = {}
    BY DEF Elements
  <2>3. Restricted /\ reply # << >> => \A c \in Elements(reply[1]) : LetThrough(c)
    BY Zenon DEF AclInv, OnlyLetThrough
  <2>. QED
    BY <1>6, <1>7, <1>8, <2>1, <2>2, <2>3, Zenon DEF Saved, SaveFails
<1>9. CASE Retire
  <2>1. ExitMsg \in Msgs /\ <<ExitMsg>> \in Seq(Msgs) /\ Elements(<<ExitMsg>>) = {ExitMsg}
        /\ ExitMsg.kind = "exit"
    BY MsgTypes, MsgKinds DEF Elements
  <2>2. \A g \in Gens : Elements(box[g] \o <<ExitMsg>>) = Elements(box[g]) \cup {ExitMsg}
    <3>1. \A g \in Gens : Elements(box[g] \o <<ExitMsg>>) = Elements(box[g]) \cup Elements(<<ExitMsg>>)
      <4>1. \A g \in Gens : box[g] \in Seq(Msgs)
        BY Zenon DEF TypeOK
      <4>. DEFINE e == <<ExitMsg>>
      <4>2. e \in Seq(Msgs)
        BY <2>1, Zenon
      <4>. HIDE DEF e
      <4>3. \A g \in Gens : Elements(box[g] \o e) = Elements(box[g]) \cup Elements(e)
        BY <4>1, <4>2, ElementsConcat
      <4>. QED
        BY <4>3, Zenon DEF e
    <3>. QED
      BY <2>1, <3>1, Zenon
  <2>3. \A g \in Gens : box'[g] = box[g] \/ box'[g] = box[g] \o <<ExitMsg>>
    BY <1>9, Zenon DEF Retire, RetireOld, TypeOK
  <2>4. \A g \in Gens : \A m \in Elements(box'[g]) :
          m \in Elements(box[g]) \/ m.kind \notin {"call", "restore"}
    BY <2>1, <2>2, <2>3, Zenon
  <2>. QED
    BY <1>9, <2>4, AclFrame, Zenon DEF Retire, RetireOld
<1>10. ASSUME NEW g \in Gens, DownOfRetired(g) \/ DownOfEntry(g) PROVE AclInv'
  BY <1>10, AclFrame, Zenon DEF DownOfRetired, Reap, DownOfEntry
<1>. QED
  BY <1>1, <1>2, <1>3, <1>4, <1>5, <1>8, <1>9, <1>10, Zenon DEF ManagerStep

\* Nor does the registry.
LEMMA AclRegistry ==
  ASSUME TypeOK, AclInv, NEW s \in Svcs, RegistryStep(s)
  PROVE  AclInv'
<1>. USE DEF proxyVars, callVars, pmVars
<1>1. /\ UNCHANGED <<restricted, buffered, pending, applied, refused, reply, box>>
      /\ \/ UNCHANGED pbox
         \/ ToProxies({s}, SetAcl)
         \/ ToProxies({s}, ExitMsg)
         \/ \E g : pbox' = [pbox EXCEPT ![s] = <<DownOf(g)>>]
  BY Zenon DEF RegistryStep
<1>2. \A t \in Svcs : \A m \in Elements(pbox'[t]) : m \in Elements(pbox[t]) \/ m.kind # "call"
  <2>1. CASE UNCHANGED pbox
    BY <2>1, Zenon
  <2>2. ASSUME NEW m \in {SetAcl, ExitMsg}, ToProxies({s}, m)
        PROVE  \A t \in Svcs : \A x \in Elements(pbox'[t]) : x \in Elements(pbox[t]) \/ x.kind # "call"
    <3>1. m \in Msgs /\ m.kind # "call"
      BY MsgTypes, MsgKinds, Zenon
    <3>. QED
      BY <2>2, <3>1, ToProxiesElements
  <2>3. ASSUME NEW g, pbox' = [pbox EXCEPT ![s] = <<DownOf(g)>>]
        PROVE  \A t \in Svcs : \A x \in Elements(pbox'[t]) : x \in Elements(pbox[t]) \/ x.kind # "call"
    <3>1. Elements(<<DownOf(g)>>) = {DownOf(g)} /\ DownOf(g).kind = "down"
      BY MsgKinds DEF Elements
    <3>2. \A t \in Svcs : pbox'[t] = pbox[t] \/ pbox'[t] = <<DownOf(g)>>
      BY <2>3, Zenon DEF TypeOK
    <3>. QED
      BY <3>1, <3>2, Zenon
  <2>. QED
    BY <1>1, <2>1, <2>2, <2>3, Zenon
<1>. QED
  BY <1>1, <1>2, AclFrame, Zenon

\* The direct check of a call and the one at the flush agree.
LEMMA ChecksAgree ==
  ASSUME CrossNode => Remote \subseteq Allowed
  PROVE  \A c : Trusted(c) <=> TrustedAtFlush(c)
  BY Zenon DEF Trusted, TrustedAtFlush

\* A proxy buffers, refuses or forwards a call that was sent to its service.
LEMMA AclProxy ==
  ASSUME CrossNode => Remote \subseteq Allowed, TypeOK, AclInv, NEW s \in Svcs, ProxyStep(s)
  PROVE  AclInv'
<1>. DEFINE m == Head(pbox[s])
            q == buffered[s]
            rest == [pbox EXCEPT ![s] = Tail(@)]
<1>0. pbox[s] \in Seq(Msgs) /\ pbox[s] # << >> /\ q \in Seq(Calls)
  BY Zenon DEF ProxyStep, TypeOK
<1>1. m \in Msgs /\ m \in Elements(pbox[s]) /\ Elements(Tail(pbox[s])) \subseteq Elements(pbox[s])
      /\ Tail(pbox[s]) \in Seq(Msgs)
  BY <1>0, ElementsTail, Zenon
<1>2. \A t \in Svcs : Elements(rest[t]) \subseteq Elements(pbox[t])
  BY <1>1, Zenon DEF TypeOK
<1>3. ASSUME pbox' = rest \/ pbox' = [pbox EXCEPT ![s] = << >>]
      PROVE  \A t \in Svcs : Elements(pbox'[t]) \subseteq Elements(pbox[t])
  <2>1. Elements(<< >>) = {}
    BY DEF Elements
  <2>. HIDE DEF rest
  <2>2. CASE pbox' = rest
    BY <1>2, <2>2, Zenon
  <2>3. CASE pbox' = [pbox EXCEPT ![s] = << >>]
    <3>1. \A t \in Svcs : pbox'[t] = pbox[t] \/ pbox'[t] = << >>
      BY <2>3, Zenon DEF TypeOK
    <3>. QED
      BY <2>1, <3>1, Zenon
  <2>. QED
    BY <1>3, <2>2, <2>3, Zenon
<1>4. UNCHANGED <<reply, pending, applied>>
  BY Zenon DEF ProxyStep
<1>5. CASE m.kind \in {"quiesce", "set_acl"}
  <2>1. UNCHANGED <<buffered, refused, box>> /\ pbox' = rest
        /\ (UNCHANGED restricted \/ restricted' = [restricted EXCEPT ![s] = TRUE])
    BY <1>5, Zenon DEF ProxyStep, answers
  <2>2. \A t \in Svcs : restricted[t] => restricted'[t]
    BY <2>1, Zenon DEF TypeOK
  <2>3. \A t \in Svcs : Elements(pbox'[t]) \subseteq Elements(pbox[t])
    BY <1>3, <2>1, Zenon
  <2>. HIDE DEF m, q, rest
  <2>. QED
    BY <1>4, <2>1, <2>2, <2>3, AclFrame, Zenon
<1>6. CASE m.kind = "call"
  <2>. DEFINE c == m.call
  <2>0. c.to = s /\ c \in Calls
    BY <1>1, <1>6, MsgParts, Zenon DEF AclInv, CallsAtOwnProxy
  <2>1. pbox' = rest /\ UNCHANGED restricted /\ ProxyCall(s, c)
    BY <1>6, Zenon DEF ProxyStep
  <2>2. \A t \in Svcs : Elements(pbox'[t]) \subseteq Elements(pbox[t])
    BY <1>3, <2>1, Zenon
  <2>. HIDE DEF m, c, q, rest
  <2>3. CallsAtOwnProxy'
    <3>1. \A t \in Svcs : Elements(buffered'[t]) \subseteq Elements(buffered[t]) \cup
                            IF t = s THEN {c} ELSE {}
      <4>1. UNCHANGED buffered \/ buffered' = [buffered EXCEPT ![s] = Append(@, c)]
        BY <2>1, Zenon DEF ProxyCall
      <4>2. Elements(Append(buffered[s], c)) = Elements(buffered[s]) \cup {c}
        <5>1. buffered[s] \in Seq(Calls)
          BY Zenon DEF TypeOK
        <5>. QED
          BY <2>0, <5>1, CallsAppend, Zenon
      <4>. QED
        BY <4>1, <4>2, Zenon DEF TypeOK
    <3>2. \A t \in Svcs : \A x \in Elements(buffered'[t]) :
            x \in Elements(buffered[t]) \/ (t = s /\ x = c)
      BY <3>1, Zenon
    <3>. QED
      BY <2>0, <2>2, <3>2, ZenonT(30) DEF AclInv, CallsAtOwnProxy
  <2>4. TrustedServed'
    BY <2>1, Zenon DEF ProxyCall, AclInv, TrustedServed, Trusted
  <2>5. ASSUME Restricted PROVE OnlyLetThrough'
    <3>1. \A g \in Gens : \A x \in Elements(box'[g]) :
            x \in Elements(box[g]) \/ (x = CallMsg(c) /\ LetThrough(c))
      <4>1. UNCHANGED box \/ (Delegate(current[s], <<c>>) /\ (restricted[s] => Trusted(c.from)))
        BY <2>1, Zenon DEF ProxyCall
      <4>2. CASE UNCHANGED box
        BY <4>2, Zenon
      <4>3. CASE Delegate(current[s], <<c>>) /\ (restricted[s] => Trusted(c.from))
        <5>1. <<c>> \in Seq(Calls) /\ Elements(<<c>>) = {c}
          BY <2>0 DEF Elements
        <5>2. LetThrough(c)
          BY <2>0, <2>5, <4>3, Zenon DEF LetThrough, AclInv
        <5>3. \A g \in Gens : Elements(box'[g]) \subseteq Elements(box[g]) \cup {CallMsg(c)}
          BY <4>3, <5>1, DelegateElements, ZenonT(30)
        <5>. QED
          BY <5>2, <5>3, Zenon
      <4>. QED
        BY <4>1, <4>2, <4>3, Zenon
    <3>2. \A g \in Gens : \A x \in Elements(box'[g]) :
            /\ x.kind = "call" => LetThrough(x.call)
            /\ x.kind = "restore" => \A y \in Elements(x.data) : LetThrough(y)
      <4>1. CallMsg(c).kind = "call" /\ CallMsg(c).call = c
        BY MsgKinds, Zenon
      <4>2. \A x : x = CallMsg(c) /\ LetThrough(c) =>
              x.kind # "restore" /\ LetThrough(x.call)
        BY <4>1, Zenon
      <4>. QED
        BY <2>5, <3>1, <4>2, Zenon DEF AclInv, OnlyLetThrough
    <3>. QED
      BY <1>4, <2>5, <3>2, Zenon DEF AclInv, OnlyLetThrough, LetThrough
  <2>. QED
    BY <2>1, <2>3, <2>4, <2>5, Zenon DEF AclInv
<1>7. CASE m.kind = "resume"
  <2>. DEFINE ok(x) == restricted[s] => TrustedAtFlush(x.from)
              I == {i \in DOMAIN q : ok(q[i])}
              g0 == m.gen
  <2>0. g0 \in Gens
    BY <1>1, <1>7, MsgParts, Zenon
  <2>1. ProxyResume(s, g0) /\ UNCHANGED restricted
    BY <1>7, Zenon DEF ProxyStep
  <2>2. PICK r \in Kept(q, I) :
        /\ pbox' = [pbox EXCEPT ![s] = Tail(@) \o (IF up[g0] = "down" THEN <<DownOf(g0)>> ELSE << >>)]
        /\ Delegate(g0, r)
        /\ refused' = refused \cup {x \in Elements(q) : ~ok(x)}
        /\ buffered' = [buffered EXCEPT ![s] = << >>]
    BY <2>1, Zenon DEF ProxyResume, ResumeOn
  <2>3. r \in Seq(Calls) /\ \A x \in Elements(r) : x \in Elements(q) /\ ok(x)
    <3>1. \A x \in {q[i] : i \in I} : x \in Elements(q) /\ ok(x)
      BY Zenon DEF Elements
    <3>2. I \in SUBSET DOMAIN q
      BY Zenon
    <3>. HIDE DEF q, I, ok
    <3>3. r \in Seq(Calls) /\ Elements(r) \subseteq {q[i] : i \in I}
      BY <1>0, <3>2, KeptType, Zenon
    <3>. QED
      BY <3>1, <3>3, Zenon
  <2>4. Elements(<< >>) = {} /\ Elements(<<DownOf(g0)>>) = {DownOf(g0)} /\ DownOf(g0).kind = "down"
        /\ <<DownOf(g0)>> \in Seq(Msgs) /\ << >> \in Seq(Msgs)
    <3>1. DownOf(g0) \in Msgs /\ DownOf(g0).kind = "down"
      BY <2>0, MsgTypes, MsgKinds, Zenon
    <3>2. \A x \in Msgs : <<x>> \in Seq(Msgs) /\ Elements(<<x>>) = {x}
      BY ONLY DEF Elements
    <3>3. Elements(<< >>) = {} /\ << >> \in Seq(Msgs)
      BY ONLY DEF Elements
    <3>. QED
      BY <3>1, <3>2, <3>3, Zenon
  <2>. HIDE DEF m, q, I, g0, rest, ok
  <2>5. \A t \in Svcs : \A x \in Elements(pbox'[t]) : x \in Elements(pbox[t]) \/ x.kind # "call"
    <3>. DEFINE e == IF up[g0] = "down" THEN <<DownOf(g0)>> ELSE << >>
    <3>1. e \in Seq(Msgs) /\ \A x \in Elements(e) : x.kind # "call"
      BY <2>4, Zenon
    <3>2. pbox' = [pbox EXCEPT ![s] = Tail(@) \o e]
      BY <2>2, Zenon
    <3>. HIDE DEF e
    <3>3. Elements(Tail(pbox[s]) \o e) = Elements(Tail(pbox[s])) \cup Elements(e)
      <4>1. Tail(pbox[s]) \in Seq(Msgs) /\ e \in Seq(Msgs)
        BY <1>1, <3>1, Zenon
      <4>. QED
        BY ONLY <4>1, ElementsConcat, ZenonT(30)
    <3>4. \A t \in Svcs : pbox'[t] = IF t = s THEN Tail(pbox[s]) \o e ELSE pbox[t]
      BY <3>2, Zenon DEF TypeOK
    <3>. QED
      BY <1>1, <3>1, <3>3, <3>4, Zenon
  <2>6. CallsAtOwnProxy'
    <3>1. \A t \in Svcs : Elements(buffered'[t]) \subseteq Elements(buffered[t])
      <4>1. \A t \in Svcs : buffered'[t] = buffered[t] \/ buffered'[t] = << >>
        BY <2>2, Zenon DEF TypeOK
      <4>. QED
        BY <2>4, <4>1, Zenon
    <3>. QED
      BY <2>5, <3>1, Zenon DEF AclInv, CallsAtOwnProxy
  <2>7. TrustedServed'
    <3>1. \A x : ~ok(x) => ~Trusted(x.from)
      BY ChecksAgree, Zenon DEF ok
    <3>. QED
      BY <2>2, <3>1, Zenon DEF AclInv, TrustedServed, Trusted
  <2>8. ASSUME Restricted PROVE OnlyLetThrough'
    <3>1. \A x \in Elements(q) : ok(x) => LetThrough(x)
      BY <2>8, ChecksAgree, Zenon DEF q, ok, AclInv, CallsAtOwnProxy, LetThrough
    <3>2. \A g \in Gens : Elements(box'[g]) \subseteq
                            Elements(box[g]) \cup {CallMsg(x) : x \in Elements(r)}
      BY <2>2, <2>3, DelegateElements, Zenon
    <3>3. \A g \in Gens : \A x \in Elements(box'[g]) :
            /\ x.kind = "call" => LetThrough(x.call)
            /\ x.kind = "restore" => \A y \in Elements(x.data) : LetThrough(y)
      <4>. SUFFICES ASSUME NEW g \in Gens, NEW x \in Elements(box'[g])
                    PROVE  /\ x.kind = "call" => LetThrough(x.call)
                           /\ x.kind = "restore" => \A y \in Elements(x.data) : LetThrough(y)
        BY Zenon
      <4>1. CASE x \in Elements(box[g])
        BY <2>8, <4>1, Zenon DEF AclInv, OnlyLetThrough
      <4>2. ASSUME NEW y \in Elements(r), x = CallMsg(y)
            PROVE  LetThrough(x.call) /\ x.kind = "call"
        <5>1. LetThrough(y)
          BY <2>3, <3>1, Zenon
        <5>2. x.kind = "call" /\ x.call = y
          BY <4>2, MsgKinds, Zenon
        <5>. QED
          BY <5>1, <5>2, Zenon
      <4>3. x \in Elements(box[g]) \/ \E y \in Elements(r) : x = CallMsg(y)
        BY <3>2, Zenon
      <4>. QED
        BY <4>1, <4>2, <4>3, Zenon
    <3>. QED
      BY <1>4, <2>8, <3>3, Zenon DEF AclInv, OnlyLetThrough, LetThrough
  <2>. QED
    BY <2>1, <2>6, <2>7, <2>8, Zenon DEF AclInv
<1>8. CASE m.kind \in {"down", "exit"}
  <2>1. /\ UNCHANGED <<restricted, box, refused>>
        /\ pbox' = rest \/ pbox' = [pbox EXCEPT ![s] = << >>]
        /\ UNCHANGED buffered \/ buffered' = [buffered EXCEPT ![s] = << >>]
    BY <1>8, Zenon DEF ProxyStep, ProxyDown, ProxyQuits
  <2>2. \A t \in Svcs : Elements(pbox'[t]) \subseteq Elements(pbox[t])
    BY <1>3, <2>1, Zenon
  <2>. HIDE DEF m, q, rest
  <2>3. \A t \in Svcs : Elements(buffered'[t]) \subseteq Elements(buffered[t])
    <3>1. \A t \in Svcs : buffered'[t] = buffered[t] \/ buffered'[t] = << >>
      BY <2>1, Zenon DEF TypeOK
    <3>2. Elements(<< >>) = {}
      BY DEF Elements
    <3>. QED
      BY <3>1, <3>2, Zenon
  <2>4. CallsAtOwnProxy'
    BY <2>2, <2>3, Zenon DEF AclInv, CallsAtOwnProxy
  <2>5. Restricted => OnlyLetThrough'
    BY <1>4, <2>1, Zenon DEF AclInv, OnlyLetThrough, LetThrough
  <2>. QED
    BY <2>1, <2>4, <2>5, Zenon DEF AclInv, TrustedServed
<1>. QED
  BY <1>5, <1>6, <1>7, <1>8, Zenon DEF ProxyStep

\* An actor carries out what was let through to it.
LEMMA AclActor ==
  ASSUME TypeOK, AclInv, NEW g \in Gens,
         ActorStep(g) \/ Crash(g) \/ \E c \in pending[g] : Continue(g, c)
  PROVE  AclInv'
<1>. USE DEF pmVars, proxyVars
<1>1. UNCHANGED <<restricted, buffered, refused>>
  BY Zenon DEF ActorStep, Crash, Continue
<1>2. ASSUME Terminate(g), UNCHANGED <<applied, reply>> PROVE AclInv'
  <2>1. DownOf(g) \in Msgs /\ DownOf(g).kind = "down" /\ Elements(<< >>) = {}
    BY MsgTypes, MsgKinds, MailboxEmpty, Zenon
  <2>2. \A t \in Svcs : \A x \in Elements(pbox'[t]) : x \in Elements(pbox[t]) \/ x.kind # "call"
    <3>1. PICK S : ToProxies(S, DownOf(g))
      BY <1>2, Zenon DEF Terminate
    <3>2. \A t \in Svcs : Elements(pbox'[t]) \subseteq Elements(pbox[t]) \cup
                             IF t \in S THEN {DownOf(g)} ELSE {}
      BY <2>1, <3>1, ToProxiesElements, Zenon
    <3>. QED
      BY <2>1, <3>2, Zenon
  <2>3. CallsAtOwnProxy'
    BY <1>1, <2>2, Zenon DEF AclInv, CallsAtOwnProxy
  <2>4. \A h \in Gens : /\ box'[h] = box[h] \/ box'[h] = << >>
                        /\ pending'[h] \subseteq pending[h]
    BY <1>2, Zenon DEF Terminate, TypeOK
  <2>5. \A h \in Gens : Elements(box'[h]) \subseteq Elements(box[h])
    BY <2>1, <2>4, Zenon
  <2>6. Restricted => OnlyLetThrough'
    BY <1>2, <2>4, <2>5, Zenon DEF AclInv, OnlyLetThrough, LetThrough
  <2>. QED
    BY <1>1, <2>3, <2>6, Zenon DEF AclInv, TrustedServed
<1>3. ASSUME NEW c, c \in Calls, Restricted => LetThrough(c), UNCHANGED <<pbox, reply>>,
             \A h \in Gens : /\ Elements(applied'[h]) \subseteq Elements(applied[h]) \cup {c}
                             /\ pending'[h] \subseteq pending[h] \cup {c}
                             /\ Elements(box'[h]) \subseteq Elements(box[h])
      PROVE  AclInv'
  <2>1. Restricted => OnlyLetThrough'
    BY <1>3, Zenon DEF AclInv, OnlyLetThrough, LetThrough
  <2>. QED
    BY <1>1, <1>3, <2>1, Zenon DEF AclInv, TrustedServed, CallsAtOwnProxy
<1>4. ASSUME NEW c \in Calls, Apply(g, c)
      PROVE  \A h \in Gens : Elements(applied'[h]) \subseteq Elements(applied[h]) \cup {c}
  <2>1. Elements(Append(applied[g], c)) = Elements(applied[g]) \cup {c}
    BY ElementsAppend DEF TypeOK
  <2>. QED
    BY <1>4, <2>1, Zenon DEF Apply, TypeOK
<1>5. ASSUME NEW c \in pending[g], Continue(g, c) PROVE AclInv'
  <2>1. c \in Calls /\ (Restricted => LetThrough(c))
    BY Zenon DEF TypeOK, AclInv, OnlyLetThrough
  <2>2. \A h \in Gens : pending'[h] \subseteq pending[h]
    BY <1>5, Zenon DEF Continue, TypeOK
  <2>. QED
    BY <1>3, <1>4, <1>5, <2>1, <2>2, Zenon DEF Continue
<1>6. CASE ActorStep(g)
  <2>. DEFINE m == Head(box[g])
  <2>1. box[g] \in Seq(Msgs) /\ box[g] # << >>
    BY <1>6, Zenon DEF ActorStep, TypeOK
  <2>2. m \in Msgs /\ m \in Elements(box[g]) /\ Elements(Tail(box[g])) \subseteq Elements(box[g])
    BY <2>1, ElementsTail, Zenon
  <2>3. ASSUME box' = [box EXCEPT ![g] = Tail(@)]
        PROVE  \A h \in Gens : Elements(box'[h]) \subseteq Elements(box[h])
    BY <2>2, <2>3, Zenon DEF TypeOK
  <2>4. CASE m.kind = "call"
    <3>1. m.call \in Calls /\ (Restricted => LetThrough(m.call))
      BY <2>2, <2>4, MsgParts, Zenon DEF AclInv, OnlyLetThrough
    <3>2. /\ UNCHANGED <<pbox, reply>> /\ box' = [box EXCEPT ![g] = Tail(@)]
          /\ \/ Apply(g, m.call) /\ UNCHANGED pending
             \/ pending' = [pending EXCEPT ![g] = @ \cup {m.call}] /\ UNCHANGED applied
      BY <1>6, <2>4, Zenon DEF ActorStep
    <3>. HIDE DEF m
    <3>3. \A h \in Gens : Elements(applied'[h]) \subseteq Elements(applied[h]) \cup {m.call}
      BY <1>4, <3>1, <3>2, Zenon
    <3>4. \A h \in Gens : pending'[h] \subseteq pending[h] \cup {m.call}
      BY <3>2, Zenon DEF TypeOK
    <3>. QED
      BY <1>3, <2>3, <3>1, <3>2, <3>3, <3>4, Zenon
  <2>5. CASE m.kind = "save"
    <3>1. /\ UNCHANGED <<pbox, applied, pending>> /\ box' = [box EXCEPT ![g] = Tail(@)]
          /\ reply' = reply \/ reply' = <<applied[g]>>
      BY <1>6, <2>5, Zenon DEF ActorStep
    <3>. HIDE DEF m
    <3>2. Restricted => OnlyLetThrough'
      <4>1. Restricted /\ reply' # << >> => \A c \in Elements(reply'[1]) : LetThrough(c)
        <5>1. <<applied[g]>>[1] = applied[g]
          BY Zenon
        <5>. QED
          BY <3>1, <5>1, Zenon DEF AclInv, OnlyLetThrough
      <4>. QED
        BY <2>3, <3>1, <4>1, Zenon DEF AclInv, OnlyLetThrough, LetThrough
    <3>. QED
      BY <1>1, <3>1, <3>2, Zenon DEF AclInv, TrustedServed, CallsAtOwnProxy
  <2>6. CASE m.kind = "restore"
    <3>1. /\ UNCHANGED <<pbox, reply, pending>> /\ box' = [box EXCEPT ![g] = Tail(@)]
          /\ applied' = [applied EXCEPT ![g] = m.data]
      BY <1>6, <2>6, Zenon DEF ActorStep
    <3>2. Restricted => \A c \in Elements(m.data) : LetThrough(c)
      BY <2>2, <2>6, Zenon DEF AclInv, OnlyLetThrough
    <3>. HIDE DEF m
    <3>3. \A h \in Gens : applied'[h] = applied[h] \/ applied'[h] = m.data
      BY <3>1, Zenon DEF TypeOK
    <3>4. Restricted => OnlyLetThrough'
      BY <2>3, <3>1, <3>2, <3>3, Zenon DEF AclInv, OnlyLetThrough, LetThrough
    <3>. QED
      BY <1>1, <3>1, <3>4, Zenon DEF AclInv, TrustedServed, CallsAtOwnProxy
  <2>7. CASE m.kind = "exit"
    BY <1>2, <1>6, <2>7, Zenon DEF ActorStep
  <2>. QED
    BY <1>6, <2>4, <2>5, <2>6, <2>7, Zenon DEF ActorStep
<1>7. CASE Crash(g)
  BY <1>2, <1>7, Zenon DEF Crash
<1>. QED
  BY <1>5, <1>6, <1>7, Zenon

\* Every step keeps the ACL's invariant.
LEMMA AclNext ==
  ASSUME CrossNode => Remote \subseteq Allowed
  PROVE  AclInv /\ TypeOK /\ InstanceInv /\ [Next]_vars => AclInv'
<1>. SUFFICES ASSUME AclInv, TypeOK, InstanceInv, [Next]_vars PROVE AclInv'
  BY Zenon
<1>1. ASSUME NEW c \in Clients, NEW s \in Svcs, Call(c, s) PROVE AclInv'
  <2>0. PICK n \in 1 .. MaxCalls : LET x == [from |-> c, n |-> n, to |-> s] IN
          asked' = asked \cup {x} /\ ToProxies({s}, CallMsg(x))
    BY <1>1, Zenon DEF Call
  <2>. DEFINE x == [from |-> c, n |-> n, to |-> s]
  <2>1. ToProxies({s}, CallMsg(x)) /\ x.to = s /\ asked' = asked \cup {x}
    BY <2>0, Zenon
  <2>2. UNCHANGED <<restricted, buffered, refused, pending, applied, box, reply>>
    BY <1>1, Zenon DEF Call, pmVars, proxyVars, actorVars
  <2>. HIDE DEF x
  <2>3. TypeOK'
    BY <1>1, CallType, Zenon
  <2>4. x \in Calls
    BY <2>1, <2>3, Zenon DEF TypeOK
  <2>5. \A t \in Svcs : Elements(pbox'[t]) \subseteq Elements(pbox[t]) \cup
                          IF t \in {s} THEN {CallMsg(x)} ELSE {}
    BY <2>1, <2>4, MsgTypes, ToProxiesElements, Zenon
  <2>6. CallsAtOwnProxy'
    <3>. SUFFICES ASSUME NEW t \in Svcs, NEW y \in Elements(pbox'[t]), y.kind = "call"
                  PROVE  y.call.to = t
      BY <2>2, Zenon DEF AclInv, CallsAtOwnProxy
    <3>1. CASE y \in Elements(pbox[t])
      BY <3>1, Zenon DEF AclInv, CallsAtOwnProxy
    <3>2. CASE y \notin Elements(pbox[t])
      <4>1. y = CallMsg(x) /\ t = s
        BY <2>5, <3>2, Zenon
      <4>. QED
        BY <2>1, <4>1, MsgKinds, Zenon
    <3>. QED
      BY <3>1, <3>2, Zenon
  <2>. QED
    BY <2>2, <2>6, Zenon DEF AclInv, TrustedServed, OnlyLetThrough, LetThrough
<1>2. CASE UNCHANGED vars
  BY <1>2, AclFrame, Zenon DEF vars, pmVars, proxyVars, actorVars, callVars
<1>. QED
  BY <1>1, <1>2, AclManager, AclRegistry, AclProxy, AclActor, Zenon DEF Next

\* When a remote client that allow_cross_node lets through is in acl_allow too,
\* the default handler's check of a call and the check of resume_atom decide
\* alike, through any number of reloads: no actor carries out a call that the
\* ACL refuses, and no trusted call is refused (service_registry.cpp:74-100).
THEOREM AclThroughReloads ==
  ASSUME CrossNode => Remote \subseteq Allowed
  PROVE  Spec => []AclHolds
<1>1. Init => AclInv
  <2>. SUFFICES ASSUME Init PROVE AclInv
    BY Zenon
  <2>1. Elements(<< >>) = {}
    BY DEF Elements
  <2>2. CallsAtOwnProxy /\ OnlyLetThrough /\ TrustedServed
    BY <2>1, Zenon DEF Init, CallsAtOwnProxy, OnlyLetThrough, TrustedServed
  <2>3. Restricted => \A s \in Services : restricted[s]
    BY Zenon DEF Init, Svcs
  <2>. QED
    BY <2>2, <2>3, Zenon DEF AclInv
<1>2. AclInv => AclHolds
  BY Zenon DEF AclInv, AclHolds, UntrustedBlocked, OnlyLetThrough, LetThrough
<1>. QED
  BY <1>1, <1>2, AclNext, ReloadTypes, InstanceInvariant, PTL DEF Spec
-----------------------------------------------------------------------------
\* A service that a step does not touch.
LEMMA ServiceFrame ==
  ASSUME TypeOK, NEW s \in Svcs, ServiceInv(s),
         target' = target, round' = round,
         \A g \in Gens : up[g] = "down" => up'[g] = "down",
         impl'[s] = impl[s], regbox'[s] = regbox[s], pup'[s] = pup[s],
         pbox'[s] = pbox[s], current'[s] = current[s], paused'[s] = paused[s],
         HeldNow(s)' <=> HeldNow(s),
         "quiesce" \in Kinds(pbox[s]) /\ Awaited(s) => Awaited(s)'
  PROVE  ServiceInv(s)'
<1>1. pbox[s] \in Seq(Msgs)
  BY Zenon DEF TypeOK
<1>2. LedgerInv(s) => LedgerInv(s)'
  BY Zenon DEF LedgerInv
<1>3. ASSUME ProxyInv(s) PROVE ProxyInv(s)'
  <2>1. Arrives(pbox[s], current[s], target, up')
    <3>1. \A i \in DOMAIN pbox[s] : pbox[s][i].kind = "down" => pbox[s][i].gen \in Gens
      <4>1. \A i \in DOMAIN pbox[s] : pbox[s][i] \in Msgs
        BY <1>1, MailboxElements, Zenon
      <4>. QED
        BY <4>1, MsgParts, Zenon
    <3>. QED
      BY <1>3, <3>1, Zenon DEF ProxyInv, Arrives
  <2>2. Arrives(pbox[s], current[s], target, up)'
    BY <2>1, Zenon
  <2>3. \A m \in Elements(pbox[s]) : m.kind = "quiesce" => Awaited(s)' /\ m.round = round
    BY <1>3, Zenon DEF ProxyInv, Kinds
  <2>. QED
    BY <1>3, <2>2, <2>3, Zenon DEF ProxyInv
<1>. QED
  BY <1>2, <1>3, Zenon DEF ServiceInv

\* When the manager does not wait for an answer no quiesce is on its way.
LEMMA NoQuiesce ==
  ASSUME TypeOK, NEW s \in Svcs, ServiceInv(s), ~Awaited(s)
  PROVE  "quiesce" \notin Kinds(pbox[s])
<1>1. CASE pbox[s] = << >>
  BY <1>1 DEF Kinds, Elements
<1>2. CASE pbox[s] # << >>
  <2>1. ProxyInv(s)
    BY <1>2, Zenon DEF ServiceInv, LedgerInv
  <2>. QED
    BY <2>1, Zenon DEF ProxyInv, Kinds
<1>. QED
  BY <1>1, <1>2, Zenon

\* The plugin is not provided again after an unload.
LEMMA ProvidedBefore ==
  ASSUME TypeOK, InstanceInv, [Next]_vars, Provided' PROVE Provided
<1>. USE DEF pmVars
<1>1. CASE UNCHANGED <<op, pc, entry>>
  BY <1>1, Zenon DEF Provided
<1>2. CASE BeginReload \/ BeginUnload \/ ManagerExit
  BY <1>2, Zenon DEF Provided, InstanceInv, BeginReload, BeginUnload, ManagerExit
<1>3. CASE ManagerStep
  <2>1. CASE Quiesced \/ AskSave \/ Rollback
    BY <2>1, Zenon DEF Provided, Quiesced, Rollback, GiveUp, AskSave, RequestSave
  <2>4. ASSUME NEW s \in Svcs, AskQuiesce(s) \/ SkipProxy(s) PROVE Provided
    BY <2>4, Zenon DEF Provided, AskQuiesce, SkipProxy, QuiesceFails
  <2>5. ASSUME NEW g \in Gens, DownOfRetired(g) \/ DownOfEntry(g) PROVE Provided
    <3>1. op = "idle" /\ entry' \in {0, entry}
      BY <2>5, Zenon DEF DownOfRetired, Reap, DownOfEntry
    <3>. QED
      BY <3>1, Zenon DEF Provided
  <2>2. CASE Saved \/ SaveFails
    BY <2>2, Zenon DEF Provided, InstanceInv, Saved, SaveFails, SwitchOver, Withdraw
  <2>3. CASE Retire
    BY <2>3, Zenon DEF Provided, InstanceInv, Retire, RetireOld
  <2>. QED
    BY <1>3, <2>1, <2>2, <2>3, <2>4, <2>5, Zenon DEF ManagerStep
<1>. QED
  BY <1>1, <1>2, <1>3, Zenon DEF Next, vars, RegistryStep, ProxyStep, ActorStep, Continue, Crash, Call

\* A quiesce request finds its proxy, which answers it.
LEMMA NoneFails ==
  ASSUME ~QuiesceMayTimeout, TypeOK, InstanceInv, ReachInv, Provided,
         NEW s \in Svcs, s \in todo, QuiesceFails(s)
  PROVE  FALSE
<1>1. op \in {"reload", "unload"} /\ pc \in {"start", "ack"}
  BY Zenon DEF QuiesceFails, InstanceInv
<1>2. target = entry
  BY <1>1, Zenon DEF target
<1>3. s \in Provides(target) /\ ServiceInv(s)
  BY <1>1, <1>2, Zenon DEF ReachInv, OperationInv
<1>4. LedgerInv(s) /\ entry # 0
  BY <1>3, Zenon DEF ServiceInv, Provided
<1>5. regbox[s] = << >>
  BY <1>1, Zenon DEF QuiesceFails, ReachInv, OperationInv
<1>6. <<Switch(target)>> # << >> /\ <<Register(target)>> # << >> /\ <<Register(target), SetAcl>> # << >>
  BY Zenon
<1>7. impl[s] = entry /\ pup[s] = "up"
  BY <1>2, <1>4, <1>5, <1>6, Zenon DEF LedgerInv
<1>. QED
  BY <1>4, <1>7, Zenon DEF QuiesceFails

\* The manager begins an operation, and goes on when a proxy has answered.
LEMMA ReachControl ==
  ASSUME TypeOK, InstanceInv, ReachInv, Provided,
         BeginReload \/ BeginUnload \/ Quiesced \/ AskSave \/ Retire,
         Provided'
  PROVE  ReachInv'
<1>. USE DEF regVars, proxyVars, actorVars
<1>0. target' = target
  BY Zenon DEF BeginReload, BeginUnload, Quiesced, AskSave, RequestSave, Retire, RetireOld, target,
     InstanceInv, Provided
<1>1. UNCHANGED <<impl, regbox, pup, pbox, current, paused, up>>
  BY Zenon DEF BeginReload, BeginUnload, Quiesced, AskSave, RequestSave, Retire, RetireOld
<1>2. ASSUME NEW s \in Svcs
      PROVE  /\ HeldNow(s)' <=> HeldNow(s)
             /\ ~Awaited(s) \/ Quiesced
             /\ Quiesced => ~Awaited(s)
  <2>1. CASE BeginReload \/ BeginUnload
    BY <2>1, Zenon DEF BeginReload, BeginUnload, HeldNow, Awaited, Operating, InstanceInv
  <2>2. CASE Quiesced
    BY <2>2, Zenon DEF Quiesced, HeldNow, Awaited, Operating, InstanceInv
  <2>3. CASE AskSave
    BY <2>3, Zenon DEF AskSave, RequestSave, HeldNow, Awaited, Operating, InstanceInv
  <2>4. CASE Retire
    BY <2>4, Zenon DEF Retire, RetireOld, HeldNow, Awaited, Operating, InstanceInv
  <2>. QED
    BY <2>1, <2>2, <2>3, <2>4, Zenon
<1>3. ASSUME NEW s \in Svcs PROVE ServiceInv(s)'
  <2>1. ServiceInv(s) /\ ~Awaited(s)
    BY <1>2, Zenon DEF ReachInv
  <2>2. "quiesce" \notin Kinds(pbox[s])
    BY <2>1, NoQuiesce, Zenon
  <2>3. CASE UNCHANGED round
    BY <1>0, <1>1, <1>2, <2>1, <2>2, <2>3, ServiceFrame, Zenon
  <2>4. CASE BeginReload \/ BeginUnload
    <3>1. \A m \in Elements(pbox[s]) : m.kind # "quiesce"
      BY <2>2, Zenon DEF Kinds
    <3>2. LedgerInv(s) => LedgerInv(s)'
      BY <1>0, <1>1, Zenon DEF LedgerInv
    <3>3. ProxyInv(s) => ProxyInv(s)'
      BY <1>0, <1>1, <1>2, <3>1, Zenon DEF ProxyInv
    <3>. QED
      BY <1>0, <1>1, <2>1, <3>2, <3>3, Zenon DEF ServiceInv
  <2>. QED
    BY <2>3, <2>4, Zenon DEF Quiesced, AskSave, RequestSave, Retire, RetireOld
<1>4. up'[target'] = "up" /\ "exit" \notin Kinds(box'[target'])
  <2>1. up'[target'] = "up"
    BY <1>0, <1>1, Zenon DEF ReachInv
  <2>2. target \in Gens
    BY Zenon DEF target, TypeOK, Provided
  <2>3. CASE UNCHANGED box
    BY <1>0, <2>1, <2>3, Zenon DEF ReachInv
  <2>4. CASE AskSave
    <3>1. Save(round) \in Msgs /\ Save(round).kind = "save"
      BY MsgTypes, MsgKinds, Zenon DEF TypeOK
    <3>2. box[target] \in Seq(Msgs) /\ box \in [Gens -> Seq(Msgs)]
      BY <2>2, Zenon DEF TypeOK
    <3>3. Kinds(Append(box[target], Save(round))) = Kinds(box[target]) \cup {Save(round).kind}
      BY <3>1, <3>2, KindsAppend, Zenon
    <3>4. box'[target] = box[target] \/ box'[target] = Append(box[target], Save(round))
      BY <2>2, <2>4, <3>2, Zenon DEF AskSave, RequestSave
    <3>5. Kinds(box'[target]) \subseteq Kinds(box[target]) \cup {"save"}
      BY <3>1, <3>3, <3>4, Zenon
    <3>6. "exit" \notin Kinds(box'[target])
      BY <3>5, Zenon DEF ReachInv
    <3>. QED
      BY <1>0, <2>1, <3>6, Zenon
  <2>5. CASE Retire
    <3>1. op = "reload"
      BY <2>5, Zenon DEF Retire, RetireOld, InstanceInv, Provided
    <3>2. target = ngen /\ entry # ngen
      <4>1. pc = "retire"
        BY <2>5, Zenon DEF Retire, RetireOld
      <4>2. entry < ngen /\ ngen \in Nat /\ entry \in Nat
        BY <3>1 DEF InstanceInv, Gens
      <4>. QED
        BY <3>1, <4>1, <4>2 DEF target
    <3>3. box'[target] = box[target]
      BY <2>2, <2>5, <3>2, Zenon DEF Retire, RetireOld, TypeOK
    <3>. QED
      BY <1>0, <2>1, <3>3, Zenon DEF ReachInv
  <2>. QED
    BY <2>1, <2>3, <2>4, <2>5, Zenon DEF BeginReload, BeginUnload, Quiesced
<1>5. OperationInv'
  <2>1. CASE BeginReload \/ BeginUnload
    <3>1. pc = "start" /\ asking = NoService
      BY <2>1, Zenon DEF BeginReload, BeginUnload, InstanceInv, TypeOK
    <3>. QED
      BY <2>1, <3>1, ServicesAssumption, Zenon DEF BeginReload, BeginUnload, OperationInv
  <2>2. CASE Quiesced
    <3>1. op \in {"reload", "unload"} /\ asking \in todo /\ OperationInv
      BY <2>2, Zenon DEF Quiesced, InstanceInv, ReachInv, OperationInv
    <3>2. held' \cup todo' = Provides(entry) /\ held' \cap todo' = {}
      BY <2>2, <3>1, Zenon DEF Quiesced, OperationInv
    <3>3. \A s \in Svcs : s \in held' \/ asking' = s => regbox'[s] = << >>
      BY <2>2, <3>1, ServicesAssumption, Zenon DEF Quiesced, OperationInv
    <3>. QED
      BY <2>2, <3>2, <3>3, Zenon DEF Quiesced, OperationInv
  <2>3. CASE AskSave
    BY <2>3, Zenon DEF AskSave, RequestSave, OperationInv, ReachInv
  <2>4. CASE Retire
    BY <2>4, Zenon DEF Retire, RetireOld, OperationInv
  <2>. QED
    BY <2>1, <2>2, <2>3, <2>4, Zenon
<1>. QED
  BY <1>3, <1>4, <1>5, Zenon DEF ReachInv

\* The manager asks a proxy that it does not hold.
LEMMA ReachAsk ==
  ASSUME TypeOK, InstanceInv, ReachInv, Provided, NEW s \in Svcs, AskQuiesce(s)
  PROVE  ReachInv'
<1>. USE DEF regVars, proxyVars, actorVars
<1>0. /\ op \in {"reload", "unload"} /\ pc = "start" /\ s \in todo /\ regbox[s] = << >>
      /\ pup[s] = "up" /\ pc' = "ack" /\ asking' = s /\ acked' = FALSE
      /\ ToProxies({s}, Quiesce(round))
      /\ UNCHANGED <<op, todo, held, round, ngen, entry, impl, regbox, pup, current, paused, up, box>>
  BY Zenon DEF AskQuiesce
<1>1. target = entry /\ target' = target
  BY <1>0, Zenon DEF target
<1>2. OperationInv /\ \A t \in Svcs : ServiceInv(t)
  BY Zenon DEF ReachInv
<1>3. s \in Provides(target) /\ s \notin held
  BY <1>0, <1>1, <1>2, Zenon DEF OperationInv
<1>4. \A t \in Svcs : ~Awaited(t) /\ (HeldNow(t) <=> t \in held) /\ (HeldNow(t)' <=> t \in held)
  BY <1>0, Zenon DEF Awaited, HeldNow, Operating
<1>5. ASSUME NEW t \in Svcs, t # s PROVE ServiceInv(t)'
  <2>1. pbox'[t] = pbox[t]
    BY <1>0, <1>5, Zenon DEF ToProxies
  <2>2. "quiesce" \notin Kinds(pbox[t])
    BY <1>2, <1>4, NoQuiesce, Zenon
  <2>. QED
    BY <1>0, <1>1, <1>2, <1>4, <2>1, <2>2, ServiceFrame, Zenon
<1>6. ServiceInv(s)'
  <2>. DEFINE q == pbox[s]
              m == Quiesce(round)
  <2>1. q \in Seq(Msgs) /\ m \in Msgs /\ m.kind = "quiesce" /\ m.round = round
    BY MsgTypes, MsgKinds, Zenon DEF TypeOK
  <2>2. pbox'[s] = Append(q, m)
    BY <1>0, Zenon DEF ToProxies
  <2>3. LedgerInv(s) /\ ProxyInv(s) /\ "quiesce" \notin Kinds(q)
    BY <1>0, <1>2, <1>3, <1>4, NoQuiesce, Zenon DEF ServiceInv
  <2>4. Kinds(Append(q, m)) = Kinds(q) \cup {"quiesce"} /\ Elements(Append(q, m)) = Elements(q) \cup {m}
    BY <2>1, KindsAppend, ElementsAppend
  <2>5. Arrives(q, current[s], target, up)
    BY <2>3, Zenon DEF ProxyInv
  <2>6. Arrives(Append(q, m), current[s], target, up)
    <3>. HIDE DEF q, m
    <3>. QED
      BY <2>1, <2>3, <2>5, ArrivesAppend, Zenon
  <2>7. Awaited(s)'
    BY <1>0, Zenon DEF Awaited, Operating
  <2>8. \A x \in Elements(q) : x.kind # "quiesce"
    BY <2>3, Zenon DEF Kinds
  <2>9. /\ paused[s] => HeldNow(s) \/ "resume" \in Kinds(q)
        /\ HeldNow(s) => "resume" \notin Kinds(q)
    BY <2>3, Zenon DEF ProxyInv
  <2>. HIDE DEF q, m
  <2>10. ProxyInv(s)'
    <3>1. Arrives(pbox[s], current[s], target, up)'
      BY <1>0, <1>1, <2>2, <2>6, Zenon
    <3>2. \A x \in Elements(pbox'[s]) : x.kind = "quiesce" => Awaited(s)' /\ x.round = round'
      BY <1>0, <2>1, <2>2, <2>4, <2>7, <2>8, Zenon
    <3>3. /\ paused'[s] => HeldNow(s)' \/ "resume" \in Kinds(pbox'[s])
          /\ HeldNow(s)' => "resume" \notin Kinds(pbox'[s])
      <4>1. "resume" \in Kinds(pbox'[s]) <=> "resume" \in Kinds(q)
        <5>1. Kinds(pbox'[s]) = Kinds(q) \cup {"quiesce"}
          BY <2>2, <2>4, Zenon
        <5>. QED
          BY <5>1, Zenon
      <4>2. HeldNow(s)' <=> HeldNow(s)
        BY <1>4, Zenon
      <4>3. paused'[s] = paused[s]
        BY <1>0, Zenon
      <4>. QED
        BY <2>9, <4>1, <4>2, <4>3, Zenon
    <3>. QED
      BY <3>1, <3>2, <3>3, Zenon DEF ProxyInv
  <2>11. LedgerInv(s)'
    BY <1>0, <1>1, <2>3, Zenon DEF LedgerInv
  <2>. QED
    BY <1>1, <1>3, <2>10, <2>11, Zenon DEF ServiceInv
<1>7. OperationInv'
  BY <1>0, <1>2, ServicesAssumption, Zenon DEF OperationInv, TypeOK
<1>. QED
  BY <1>0, <1>1, <1>5, <1>6, <1>7, Zenon DEF ReachInv

\* The switch-over: every held proxy is sent its resume, the ledger its changes.
LEMMA ReachSwitch ==
  ASSUME TypeOK, InstanceInv, ReachInv, Provided, pc = "save", NEW d \in Seq(Calls), SwitchOver(d)
  PROVE  ReachInv'
<1>. USE DEF proxyVars
<1>0. /\ op = "reload" /\ pc' = "retire"
      /\ up' = [up EXCEPT ![ngen] = "up"]
      /\ box' = IF d = << >> THEN box ELSE [box EXCEPT ![ngen] = <<Restore(d)>>]
      /\ regbox' = [s \in Svcs |-> regbox[s] \o LedgerMessages(s)]
      /\ ToProxies(held, Resume(ngen))
      /\ UNCHANGED <<op, todo, asking, held, round, ngen, entry, impl, pup, current, paused>>
  BY Zenon DEF SwitchOver
<1>1. /\ target = entry /\ target' = ngen /\ ngen \in Gens /\ entry \in Gens
      /\ entry < ngen /\ up[ngen] = "none"
  BY <1>0, Zenon DEF target, InstanceInv, TypeOK, Provided
<1>2. Provides(ngen) = Svcs
  BY <1>1, GensArePositive DEF Provides
<1>3. OperationInv /\ \A t \in Svcs : ServiceInv(t)
  BY Zenon DEF ReachInv
<1>4. held = Provides(entry) /\ todo = {} /\ asking = NoService
  BY <1>0, <1>3, Zenon DEF OperationInv, TypeOK
<1>5. \A t \in Svcs : regbox[t] = << >>
  BY <1>0, <1>1, <1>3, <1>4, Zenon DEF OperationInv, ServiceInv
<1>6. \A t \in Svcs : regbox'[t] = LedgerMessages(t)
  <2>1. \A t \in Svcs : LedgerMessages(t) \in Seq(Msgs)
    BY <1>1, MsgTypes DEF LedgerMessages
  <2>2. \A t \in Svcs : << >> \o LedgerMessages(t) = LedgerMessages(t)
    BY <2>1, MailboxNothing, Zenon
  <2>. QED
    BY <1>0, <1>5, <2>2, Zenon
<1>7. \A g \in Gens : up[g] = "down" => up'[g] = "down"
  BY <1>0, <1>1, Zenon DEF TypeOK
<1>8. up'[ngen] = "up" /\ "exit" \notin Kinds(box'[ngen])
  <2>1. box[ngen] = << >>
    BY <1>1, Zenon DEF InstanceInv
  <2>2. Kinds(<< >>) = {}
    BY MailboxEmpty, Zenon DEF Kinds
  <2>3. Kinds(<<Restore(d)>>) = {"restore"}
    <3>1. Elements(<<Restore(d)>>) = {Restore(d)}
      <4>1. Restore(d) \in {Restore(d)}
        BY Zenon
      <4>. QED
        BY <4>1, MailboxOne, Zenon
    <3>2. Kinds(<<Restore(d)>>) = {Restore(d).kind}
      BY ONLY <3>1, KindsOne, Zenon
    <3>3. Restore(d).kind = "restore"
      BY ONLY MsgKinds, Zenon
    <3>. QED
      BY ONLY <3>2, <3>3, Zenon
  <2>4. box'[ngen] = << >> \/ box'[ngen] = <<Restore(d)>>
    BY <1>0, <1>1, <2>1, Zenon DEF TypeOK
  <2>5. Kinds(box'[ngen]) \subseteq {"restore"}
    BY <2>2, <2>3, <2>4, Zenon
  <2>6. up'[ngen] = "up"
    BY <1>0, <1>1, Zenon DEF TypeOK
  <2>. QED
    BY <2>5, <2>6, Zenon
<1>9. \A t \in Svcs : /\ ~Awaited(t) /\ (HeldNow(t) <=> t \in held)
                      /\ ~Awaited(t)' /\ ~HeldNow(t)'
  BY <1>0, Zenon DEF Awaited, HeldNow, Operating
<1>10. ASSUME NEW s \in Svcs, s \in held PROVE LedgerInv(s)' /\ ProxyInv(s)'
  <2>. DEFINE q == pbox[s]
              m == Resume(ngen)
  <2>1. q \in Seq(Msgs) /\ m \in Msgs /\ m.kind = "resume"
    BY <1>1, MsgTypes, MsgKinds, Zenon DEF TypeOK
  <2>2. LedgerInv(s) /\ (pup[s] = "up" => ProxyInv(s))
    BY <1>1, <1>3, <1>4, <1>10, Zenon DEF ServiceInv
  <2>3. <<Switch(target)>> # << >> /\ <<Register(target)>> # << >> /\ <<Register(target), SetAcl>> # << >>
    BY Zenon
  <2>4. impl[s] = entry /\ pup[s] = "up" /\ entry # 0
    BY <1>1, <1>5, <2>2, <2>3, GensArePositive, Zenon DEF LedgerInv
  <2>5. pbox'[s] = Append(q, m)
    BY <1>0, <1>10, <2>4, Zenon DEF ToProxies
  <2>6. "quiesce" \notin Kinds(q) /\ "resume" \notin Kinds(q)
    BY <1>3, <1>9, <1>10, <2>2, <2>4, NoQuiesce, Zenon DEF ProxyInv
  <2>7. Arrives(q, current[s], target, up)
    BY <2>2, <2>4, Zenon DEF ProxyInv
  <2>8. Kinds(Append(q, m)) = Kinds(q) \cup {"resume"} /\ Elements(Append(q, m)) = Elements(q) \cup {m}
    BY <2>1, KindsAppend, ElementsAppend
  <2>9. Arrives(Append(q, m), current[s], ngen, up')
    <3>. HIDE DEF q
    <3>. QED
      BY <1>1, <1>7, <2>1, <2>6, <2>7, ArrivesResume, Zenon
  <2>10. \A x \in Elements(q) : x.kind # "quiesce"
    BY <2>6, Zenon DEF Kinds
  <2>. HIDE DEF q, m
  <2>11. ProxyInv(s)'
    <3>1. Arrives(pbox[s], current[s], target, up)'
      BY <1>0, <1>1, <2>5, <2>9, Zenon
    <3>2. \A x \in Elements(pbox'[s]) : x.kind # "quiesce"
      BY <2>1, <2>5, <2>8, <2>10, Zenon
    <3>3. "resume" \in Kinds(pbox'[s])
      BY <2>5, <2>8, Zenon
    <3>. QED
      BY <1>9, <3>1, <3>2, <3>3, Zenon DEF ProxyInv
  <2>12. LedgerInv(s)'
    <3>1. regbox'[s] = <<Switch(ngen)>>
      BY <1>4, <1>6, <1>10, Zenon DEF LedgerMessages
    <3>. QED
      BY <1>0, <1>1, <2>4, <3>1, Zenon DEF LedgerInv
  <2>. QED
    BY <2>11, <2>12, Zenon
<1>11. ASSUME NEW s \in Svcs, s \notin held PROVE LedgerInv(s)' /\ pup'[s] = "none"
  <2>1. impl[s] = 0 /\ pup[s] = "none" /\ pbox[s] = << >> /\ ~paused[s]
    BY <1>1, <1>3, <1>4, <1>11, Zenon DEF ServiceInv
  <2>2. pbox'[s] = pbox[s]
    BY <1>0, <1>11, Zenon DEF ToProxies
  <2>3. regbox'[s] \in {<<Register(ngen)>>, <<Register(ngen), SetAcl>>}
    BY <1>4, <1>6, <1>11, Zenon DEF LedgerMessages
  <2>. QED
    BY <1>0, <1>1, <2>1, <2>2, <2>3, Zenon DEF LedgerInv
<1>12. \A s \in Svcs : ServiceInv(s)'
  BY <1>1, <1>2, <1>10, <1>11, Zenon DEF ServiceInv
<1>13. OperationInv'
  BY <1>0, <1>3, <1>4, Zenon DEF OperationInv
<1>. QED
  BY <1>1, <1>8, <1>12, <1>13, Zenon DEF ReachInv

\* Steps that touch neither the ledger nor the proxies nor the operation.
LEMMA ReachFrame ==
  ASSUME TypeOK, ReachInv, Provided,
         UNCHANGED <<op, pc, todo, asking, held, acked, round, ngen, entry, up, impl, regbox,
                     pup, pbox, current, paused>>,
         "exit" \notin Kinds(box[target]) => "exit" \notin Kinds(box'[target])
  PROVE  ReachInv'
<1>1. target' = target
  BY Zenon DEF target
<1>2. \A s \in Svcs : (HeldNow(s)' <=> HeldNow(s)) /\ (Awaited(s)' <=> Awaited(s))
  BY Zenon DEF HeldNow, Awaited, Operating
<1>3. ASSUME NEW s \in Svcs PROVE ServiceInv(s)'
  BY <1>1, <1>2, ServiceFrame, Zenon DEF ReachInv
<1>4. OperationInv'
  BY Zenon DEF ReachInv, OperationInv
<1>. QED
  BY <1>1, <1>3, <1>4, Zenon DEF ReachInv

\* The plugin manager.
LEMMA ReachManager ==
  ASSUME ~QuiesceMayTimeout, TypeOK, InstanceInv, ReachInv, Provided, Provided',
         BeginReload \/ BeginUnload \/ ManagerStep \/ ManagerExit
  PROVE  ReachInv'
<1>. USE DEF regVars, proxyVars, actorVars
<1>1. ~ManagerExit
  BY Zenon DEF ManagerExit, Provided
<1>2. ~Rollback
  BY NoneFails, Zenon DEF Rollback, GiveUp, TypeOK
<1>3. \A s \in Svcs : ~SkipProxy(s)
  BY NoneFails, Zenon DEF SkipProxy
<1>4. pc = "save" => ~Withdraw
  BY Zenon DEF Withdraw, Provided
<1>5. CASE Saved \/ SaveFails
  <2>1. << >> \in Seq(Calls) /\ (reply # << >> => reply[1] \in Seq(Calls))
    BY DEF TypeOK
  <2>. QED
    BY <1>4, <1>5, <2>1, ReachSwitch, Zenon DEF Saved, SaveFails
<1>6. ASSUME NEW g \in Gens, DownOfRetired(g) \/ DownOfEntry(g) PROVE ReachInv'
  <2>1. UNCHANGED <<op, pc, todo, asking, held, acked, round, ngen, entry, up, impl, regbox,
                    pup, pbox, current, paused, box>>
    <3>1. CASE DownOfRetired(g)
      BY <3>1, Zenon DEF DownOfRetired, Reap
    <3>2. CASE DownOfEntry(g)
      BY <3>2, Zenon DEF DownOfEntry, Provided
    <3>. QED
      BY <1>6, <3>1, <3>2, Zenon
  <2>. QED
    BY <2>1, ReachFrame, Zenon
<1>. QED
  BY <1>1, <1>2, <1>3, <1>5, <1>6, ReachControl, ReachAsk, Zenon DEF ManagerStep

\* The registry's handler leaves the other services and the operation alone.
LEMMA ReachOthers ==
  ASSUME TypeOK, InstanceInv, ReachInv, Provided, NEW s \in Svcs,
         UNCHANGED <<op, pc, todo, asking, held, round, ngen, entry, up>>,
         \A t \in Svcs \ {s} : /\ impl'[t] = impl[t] /\ regbox'[t] = regbox[t]
                               /\ pup'[t] = pup[t] /\ pbox'[t] = pbox[t]
                               /\ current'[t] = current[t] /\ paused'[t] = paused[t],
         acked' = acked \/ asking = s,
         regbox[s] = << >> => regbox'[s] = << >>,
         Kinds(box'[target]) \subseteq Kinds(box[target]) \cup {"call"},
         ServiceInv(s)'
  PROVE  ReachInv'
<1>1. target' = target
  BY Zenon DEF target
<1>2. ASSUME NEW t \in Svcs, t # s PROVE ServiceInv(t)'
  <2>1. (HeldNow(t)' <=> HeldNow(t)) /\ (Awaited(t)' <=> Awaited(t))
    BY <1>2 DEF HeldNow, Awaited, Operating
  <2>2. ServiceInv(t)
    BY Zenon DEF ReachInv
  <2>. QED
    BY <1>1, <1>2, <2>1, <2>2, ServiceFrame, Zenon
<1>3. OperationInv'
  BY Zenon DEF ReachInv, OperationInv
<1>. QED
  BY <1>1, <1>2, <1>3, Zenon DEF ReachInv

\* The registry brings the ledger to what it was told.
LEMMA ReachRegistry ==
  ASSUME TypeOK, InstanceInv, ReachInv, Provided, NEW s \in Svcs, RegistryStep(s)
  PROVE  ReachInv'
<1>. USE DEF pmVars
<1>0. /\ UNCHANGED <<op, pc, todo, asking, held, acked, round, ngen, entry, up, box>>
      /\ regbox[s] # << >> /\ regbox' = [regbox EXCEPT ![s] = Tail(@)]
  BY Zenon DEF RegistryStep
<1>1. target' = target /\ target \in Gens /\ up[target] = "up" /\ target # 0
  BY <1>0, GensArePositive, Zenon DEF target, ReachInv, Provided, TypeOK
<1>2. ServiceInv(s)
  BY Zenon DEF ReachInv
<1>3. s \in Provides(target) /\ LedgerInv(s) /\ (pup[s] = "up" => ProxyInv(s))
  BY <1>0, <1>2, Zenon DEF ServiceInv
<1>4. (HeldNow(s)' <=> HeldNow(s)) /\ (Awaited(s)' <=> Awaited(s))
  BY <1>0, Zenon DEF HeldNow, Awaited, Operating
<1>5. regbox'[s] = Tail(regbox[s])
  BY <1>0, Zenon DEF TypeOK
<1>6. SUFFICES /\ LedgerInv(s)' /\ (pup'[s] = "up" => ProxyInv(s)')
               /\ \A t \in Svcs \ {s} : /\ impl'[t] = impl[t]
                                        /\ pup'[t] = pup[t] /\ pbox'[t] = pbox[t]
                                        /\ current'[t] = current[t] /\ paused'[t] = paused[t]
  <2>1. ServiceInv(s)'
    BY <1>1, <1>3, <1>6, Zenon DEF ServiceInv
  <2>2. \A t \in Svcs \ {s} : regbox'[t] = regbox[t]
    BY <1>0, Zenon DEF TypeOK
  <2>. QED
    BY <1>0, <1>6, <2>1, <2>2, ReachOthers, Zenon
<1>7. ASSUME UNCHANGED <<pup, pbox, current, paused>>, ProxyInv(s) PROVE ProxyInv(s)'
  BY <1>0, <1>1, <1>4, <1>7, Zenon DEF ProxyInv
<1>8. CASE regbox[s] = <<SetAcl>>
  <2>0. SetAcl \in Msgs /\ SetAcl.kind = "set_acl"
    BY MsgTypes, MsgKinds, Zenon
  <2>1. Head(regbox[s]) = SetAcl /\ Tail(regbox[s]) = << >> /\ SetAcl \in Msgs /\ SetAcl.kind = "set_acl"
    BY <1>8, <2>0, RegistryMail, Zenon
  <2>2. <<SetAcl>> # <<Switch(target)>> /\ <<SetAcl>> # <<Register(target)>>
        /\ <<SetAcl>> # <<Register(target), SetAcl>>
    BY RegistryMail, Zenon
  <2>3. impl[s] = target /\ pup[s] = "up" /\ ProxyInv(s)
    BY <1>3, <1>8, <2>2, Zenon DEF LedgerInv
  <2>4. ToProxies({s}, SetAcl) /\ UNCHANGED <<impl, pup, current, paused>>
    BY <1>1, <2>1, <2>3, Zenon DEF RegistryStep, proxyVars
  <2>5. LedgerInv(s)'
    BY <1>1, <1>5, <2>1, <2>3, <2>4, Zenon DEF LedgerInv
  <2>6. ProxyInv(s)'
    <3>. DEFINE q == pbox[s]
    <3>1. q \in Seq(Msgs)
      BY Zenon DEF TypeOK
    <3>2. pbox'[s] = Append(q, SetAcl)
      BY <2>3, <2>4, Zenon DEF ToProxies
    <3>3. Kinds(Append(q, SetAcl)) = Kinds(q) \cup {"set_acl"}
          /\ Elements(Append(q, SetAcl)) = Elements(q) \cup {SetAcl}
      <4>. HIDE DEF q
      <4>1. Kinds(Append(q, SetAcl)) = Kinds(q) \cup {SetAcl.kind}
            /\ Elements(Append(q, SetAcl)) = Elements(q) \cup {SetAcl}
        BY <2>1, <3>1, KindsAppend, MsgsAppend, Zenon
      <4>. QED
        BY <2>1, <4>1, Zenon
    <3>4. Arrives(q, current[s], target, up)
      BY <2>3, Zenon DEF ProxyInv
    <3>5. Arrives(Append(q, SetAcl), current[s], target, up)
      <4>. HIDE DEF q
      <4>. QED
        BY <2>1, <3>1, <3>4, ArrivesAppend, Zenon
    <3>6. Arrives(pbox[s], current[s], target, up)'
      BY <1>0, <1>1, <2>4, <3>2, <3>5
    <3>7. \A x \in Elements(pbox'[s]) : x.kind = "quiesce" => Awaited(s)' /\ x.round = round'
      BY <1>0, <1>4, <2>1, <2>3, <3>2, <3>3, Zenon DEF ProxyInv
    <3>8. "resume" \in Kinds(pbox'[s]) <=> "resume" \in Kinds(pbox[s])
      BY <2>1, <3>1, <3>2, MsgsAppend, Zenon
    <3>. QED
      BY <1>4, <2>3, <2>4, <3>6, <3>7, <3>8, Zenon DEF ProxyInv
  <2>. QED
    BY <2>4, <2>5, <2>6, Zenon DEF ToProxies
<1>9. CASE regbox[s] = <<Switch(target)>>
  <2>1. Head(regbox[s]) = Switch(target) /\ Tail(regbox[s]) = << >>
        /\ Switch(target).kind = "hot_reload" /\ Switch(target).gen = target
    <3>1. Head(regbox[s]) = Switch(target) /\ Tail(regbox[s]) = << >>
      BY <1>9, RegistryMail, Zenon
    <3>2. Switch(target).kind = "hot_reload" /\ Switch(target).gen = target
      BY MsgKinds, Zenon
    <3>. QED
      BY <3>1, <3>2, Zenon
  <2>2. <<Switch(target)>> # <<SetAcl>> /\ <<Switch(target)>> # <<Register(target)>>
        /\ <<Switch(target)>> # <<Register(target), SetAcl>> /\ <<Switch(target)>> # << >>
    BY RegistryMail, Zenon
  <2>3. impl[s] # 0 /\ pup[s] = "up" /\ ProxyInv(s)
    BY <1>3, <1>9, <2>2, Zenon DEF LedgerInv
  <2>4. impl' = [impl EXCEPT ![s] = target] /\ UNCHANGED <<pup, pbox, current, paused>>
    BY <2>1, <2>3, Zenon DEF RegistryStep, proxyVars
  <2>5. LedgerInv(s)'
    BY <1>1, <1>5, <2>1, <2>3, <2>4, Zenon DEF LedgerInv, TypeOK
  <2>. QED
    BY <1>7, <2>3, <2>4, <2>5, Zenon DEF TypeOK
<1>10. CASE regbox[s] \in {<<Register(target)>>, <<Register(target), SetAcl>>}
  <2>1. Head(regbox[s]) = Register(target) /\ Tail(regbox[s]) \in {<< >>, <<SetAcl>>}
        /\ Register(target).kind = "register" /\ Register(target).gen = target
    <3>0. Register(target).kind = "register" /\ Register(target).gen = target
      BY MsgKinds, Zenon
    <3>1. CASE regbox[s] = <<Register(target)>>
      <4>1. Head(regbox[s]) = Register(target) /\ Tail(regbox[s]) = << >>
        BY <3>1, RegistryMail, Zenon
      <4>. QED
        BY <3>0, <4>1, Zenon
    <3>2. CASE regbox[s] = <<Register(target), SetAcl>>
      <4>. DEFINE a == Register(target)
                  e == SetAcl
      <4>1. Head(<<a, e>>) = a /\ Tail(<<a, e>>) = <<e>>
        <5>. HIDE DEF a, e
        <5>. QED
          OBVIOUS
      <4>. QED
        BY <3>0, <3>2, <4>1, Zenon
    <3>. QED
      BY <1>10, <3>1, <3>2, Zenon
  <2>2. regbox[s] # <<SetAcl>> /\ regbox[s] # <<Switch(target)>> /\ regbox[s] # << >>
    BY <1>10, RegistryMail, Zenon
  <2>3. impl[s] = 0 /\ pup[s] = "none" /\ pbox[s] = << >> /\ ~paused[s]
    BY <1>3, <2>2, Zenon DEF LedgerInv
  <2>4. /\ impl' = [impl EXCEPT ![s] = target] /\ pup' = [pup EXCEPT ![s] = "up"]
        /\ current' = [current EXCEPT ![s] = target] /\ UNCHANGED <<pbox, paused>>
    BY <1>1, <2>1, <2>3, Zenon DEF RegistryStep
  <2>5. LedgerInv(s)'
    BY <1>1, <1>5, <2>1, <2>4, Zenon DEF LedgerInv, TypeOK
  <2>6. ProxyInv(s)'
    <3>1. current'[s] = target /\ pbox'[s] = << >> /\ ~paused'[s]
      BY <2>3, <2>4, Zenon DEF TypeOK
    <3>2. DOMAIN << >> = {} /\ Elements(<< >>) = {} /\ Kinds(<< >>) = {}
      BY DEF Elements, Kinds
    <3>3. Arrives(<< >>, target, target, up)
      BY <3>2, Zenon DEF Arrives
    <3>. QED
      BY <1>0, <1>1, <3>1, <3>2, <3>3, Zenon DEF ProxyInv
  <2>. QED
    BY <2>4, <2>5, <2>6, Zenon DEF TypeOK
<1>. QED
  BY <1>0, <1>3, <1>8, <1>9, <1>10, Zenon DEF LedgerInv

\* The proxies bring their callers to the new actor.
LEMMA ReachProxy ==
  ASSUME TypeOK, InstanceInv, ReachInv, Provided, NEW s \in Svcs, ProxyStep(s)
  PROVE  ReachInv'
<1>. DEFINE q == pbox[s]
            m == Head(q)
<1>0. /\ UNCHANGED <<op, pc, todo, asking, held, round, ngen, entry, up, impl, regbox>>
      /\ q # << >> /\ q \in Seq(Msgs)
  BY Zenon DEF ProxyStep, regVars, TypeOK
<1>1. target' = target /\ target \in Gens /\ up[target] = "up"
  BY <1>0, Zenon DEF target, ReachInv, Provided, TypeOK
<1>2. ServiceInv(s)
  BY DEF ReachInv
<1>3. s \in Provides(target) /\ LedgerInv(s) /\ pup[s] = "up" /\ ProxyInv(s)
  BY <1>0, <1>2, Zenon DEF ServiceInv, LedgerInv
<1>4. /\ m \in Msgs /\ m \in Elements(q) /\ Tail(q) \in Seq(Msgs)
      /\ Elements(Tail(q)) \subseteq Elements(q)
      /\ Kinds(q) = Kinds(Tail(q)) \cup {m.kind}
  BY <1>0, ElementsTail, KindsTail, Zenon
<1>5. /\ Arrives(q, current[s], target, up)
      /\ \A x \in Elements(q) : x.kind = "quiesce" => Awaited(s) /\ x.round = round
      /\ paused[s] => HeldNow(s) \/ "resume" \in Kinds(q)
      /\ HeldNow(s) => "resume" \notin Kinds(q)
  BY <1>3, Zenon DEF ProxyInv
<1>6. m.kind \in {"call", "quiesce", "resume", "down", "set_acl"}
  <2>1. 1 \in DOMAIN q /\ m = q[1]
    BY <1>0, MailboxFirst, Zenon
  <2>. HIDE DEF q
  <2>. QED
    BY <1>5, <2>1, Zenon DEF Arrives
<1>. HIDE DEF m, q
<1>7. m.kind # "resume" => /\ Arrives(Tail(q), current[s], target, up)
                           /\ m.kind = "down" => m.gen # current[s]
                           /\ m.kind = "quiesce" => {"quiesce", "resume"} \cap Kinds(Tail(q)) = {}
  BY <1>0, <1>5, ArrivesTail, Zenon DEF m
<1>8. m.kind = "resume" => /\ m.gen = target /\ Arrives(Tail(q), target, target, up)
                           /\ "resume" \notin Kinds(Tail(q))
  BY <1>0, <1>1, <1>5, ArrivesResumed, Zenon DEF m
<1>9. /\ UNCHANGED pup /\ pbox' = [pbox EXCEPT ![s] = Tail(q)]
      /\ \A t \in Svcs \ {s} : current'[t] = current[t] /\ paused'[t] = paused[t]
  <2>1. CASE m.kind \in {"call", "quiesce", "set_acl"}
    BY <1>6, <2>1, Zenon DEF ProxyStep, ProxyQuiesce, TypeOK, m, q
  <2>2. CASE m.kind = "down"
    <3>1. ProxyDown(s, m.gen) /\ UNCHANGED <<current, paused>>
      BY <2>2, Zenon DEF ProxyStep, m, q
    <3>. QED
      BY <1>7, <2>2, <3>1, Zenon DEF ProxyDown, q
  <2>3. CASE m.kind = "resume"
    <3>1. ProxyResume(s, m.gen) /\ UNCHANGED pup
      BY <2>3, Zenon DEF ProxyStep, m, q
    <3>2. /\ pbox' = [pbox EXCEPT ![s] = Tail(@) \o (IF up[target] = "down" THEN <<DownOf(target)>>
                                                   ELSE << >>)]
          /\ current' = [current EXCEPT ![s] = target]
          /\ paused' = [paused EXCEPT ![s] = FALSE]
      BY <1>8, <2>3, <3>1, Zenon DEF ProxyResume, ResumeOn
    <3>3. Tail(q) \o << >> = Tail(q)
      BY <1>4, MailboxNothing, Zenon
    <3>. QED
      BY <1>1, <3>1, <3>2, <3>3, Zenon DEF TypeOK, q
  <2>. QED
    BY <1>6, <2>1, <2>2, <2>3, Zenon
<1>10. pbox'[s] = Tail(q) /\ \A t \in Svcs \ {s} : pbox'[t] = pbox[t]
  BY <1>9, Zenon DEF TypeOK
<1>11. LedgerInv(s)'
  <2>1. impl'[s] = impl[s] /\ regbox'[s] = regbox[s] /\ pup'[s] = "up"
    BY <1>0, <1>3, <1>9, Zenon
  <2>. QED
    BY <1>1, <1>3, <2>1, Zenon DEF LedgerInv
<1>12. ASSUME acked' = acked \/ asking = s, ProxyInv(s)' PROVE ReachInv'
  <2>1. Kinds(box'[target]) \subseteq Kinds(box[target]) \cup {"call"}
    <3>1. box[target] \in Seq(Msgs)
      BY <1>1, Zenon DEF TypeOK
    <3>2. TypeOK'
      BY ProxyType, Zenon
    <3>3. Elements(box'[target]) \subseteq Elements(box[target]) \cup {CallMsg(c) : c \in Calls}
      <4>1. CASE UNCHANGED box
        BY <4>1, Zenon
      <4>2. CASE m.kind = "call"
        <5>1. m.call \in Calls
          BY <1>4, <4>2, MsgParts, Zenon
        <5>2. UNCHANGED box \/ Delegate(current[s], <<m.call>>)
          BY <4>2, Zenon DEF ProxyStep, ProxyCall, m, q
        <5>3. <<m.call>> \in Seq(Calls) /\ Elements(<<m.call>>) = {m.call}
          BY <5>1, OneCall, Zenon
        <5>4. CASE Delegate(current[s], <<m.call>>)
          BY <1>1, <5>1, <5>3, <5>4, DelegateElements, Zenon
        <5>. QED
          BY <4>1, <5>2, <5>4, Zenon
      <4>3. CASE m.kind = "resume"
        <5>. DEFINE b == buffered[s]
                    I == {i \in DOMAIN b : restricted[s] => TrustedAtFlush(b[i].from)}
        <5>1. PICK r \in Kept(b, I) : Delegate(m.gen, r)
          BY <4>3, Zenon DEF ProxyStep, ProxyResume, ResumeOn, m, q
        <5>2. b \in Seq(Calls) /\ I \in SUBSET DOMAIN b
          BY Zenon DEF TypeOK
        <5>. HIDE DEF b, I
        <5>3. r \in Seq(Calls)
          BY <5>2, KeptType, Zenon
        <5>4. Elements(r) \subseteq Calls
          BY <5>3, MailboxElements, Zenon
        <5>. QED
          BY <1>1, <5>1, <5>3, <5>4, DelegateElements, Zenon
      <4>. QED
        BY <1>6, <4>1, <4>2, <4>3, Zenon DEF ProxyStep, m, q
    <3>4. \A x \in Elements(box'[target]) : x \in Elements(box[target]) \/ x.kind = "call"
      BY <3>3, MailboxElements, Zenon
    <3>. QED
      BY <3>4, Zenon DEF Kinds
  <2>2. ServiceInv(s)'
    BY <1>1, <1>3, <1>11, <1>12, Zenon DEF ServiceInv
  <2>. QED
    BY <1>0, <1>9, <1>10, <1>12, <2>1, <2>2, ReachOthers, Zenon
<1>13. CASE m.kind \in {"call", "down", "set_acl"}
  <2>1. UNCHANGED <<acked, current, paused>>
    BY <1>13, Zenon DEF ProxyStep, m, q
  <2>2. (HeldNow(s)' <=> HeldNow(s)) /\ (Awaited(s)' <=> Awaited(s))
    BY <1>0, <2>1, Zenon DEF HeldNow, Awaited, Operating
  <2>3. Arrives(pbox[s], current[s], target, up)'
    BY <1>0, <1>1, <1>7, <1>10, <1>13, <2>1, Zenon
  <2>4. "resume" \in Kinds(pbox'[s]) <=> "resume" \in Kinds(q)
    BY <1>4, <1>10, <1>13, Zenon
  <2>5. \A x \in Elements(pbox'[s]) : x.kind = "quiesce" => Awaited(s)' /\ x.round = round'
    BY <1>0, <1>4, <1>5, <1>10, <2>2, Zenon
  <2>6. ProxyInv(s)'
    BY <1>5, <2>1, <2>2, <2>3, <2>4, <2>5, Zenon DEF ProxyInv
  <2>. QED
    BY <1>12, <2>1, <2>6, Zenon
<1>14. CASE m.kind = "quiesce"
  <2>1. UNCHANGED current /\ ProxyQuiesce(s, m.round)
    BY <1>14, Zenon DEF ProxyStep, m, q
  <2>2. Awaited(s) /\ m.round = round
    BY <1>4, <1>5, <1>14, Zenon
  <2>3. acked' /\ asking = s
    BY <2>1, <2>2, Zenon DEF ProxyQuiesce, Awaited
  <2>4. HeldNow(s)'
    BY <1>0, <2>2, <2>3, Zenon DEF HeldNow, Awaited, Operating
  <2>5. Arrives(pbox[s], current[s], target, up)'
    BY <1>0, <1>1, <1>7, <1>10, <1>14, <2>1, Zenon
  <2>6. "resume" \notin Kinds(pbox'[s]) /\ "quiesce" \notin Kinds(pbox'[s])
    BY <1>7, <1>10, <1>14, Zenon
  <2>7. \A x \in Elements(pbox'[s]) : x.kind # "quiesce"
    BY <2>6, Zenon DEF Kinds
  <2>8. ProxyInv(s)'
    BY <2>4, <2>5, <2>6, <2>7, Zenon DEF ProxyInv
  <2>. QED
    BY <1>12, <2>3, <2>8, Zenon
<1>15. CASE m.kind = "resume"
  <2>1. ProxyResume(s, m.gen) /\ UNCHANGED acked
    BY <1>15, Zenon DEF ProxyStep, m, q
  <2>2. current'[s] = target /\ paused'[s] = FALSE
    BY <1>8, <1>15, <2>1, Zenon DEF ProxyResume, ResumeOn, TypeOK
  <2>3. (HeldNow(s)' <=> HeldNow(s)) /\ (Awaited(s)' <=> Awaited(s))
    BY <1>0, <2>1, Zenon DEF HeldNow, Awaited, Operating
  <2>4. Arrives(pbox[s], current[s], target, up)'
    BY <1>0, <1>1, <1>8, <1>10, <1>15, <2>2, Zenon
  <2>5. "resume" \notin Kinds(pbox'[s])
    BY <1>8, <1>10, <1>15, Zenon
  <2>6. \A x \in Elements(pbox'[s]) : x.kind = "quiesce" => Awaited(s)' /\ x.round = round'
    BY <1>0, <1>4, <1>5, <1>10, <2>3, Zenon
  <2>7. ProxyInv(s)'
    BY <2>2, <2>4, <2>5, <2>6, Zenon DEF ProxyInv
  <2>. QED
    BY <1>12, <2>1, <2>7, Zenon
<1>. QED
  BY <1>6, <1>13, <1>14, <1>15, Zenon

\* Only an actor that was told to exit stops, which the target was not.
LEMMA ReachActor ==
  ASSUME TypeOK, InstanceInv, ReachInv, Provided, NEW g \in Gens, ActorStep(g)
  PROVE  ReachInv'
<1>. DEFINE m == Head(box[g])
<1>0. /\ UNCHANGED <<op, pc, todo, asking, held, acked, round, ngen, entry, impl, regbox,
                     pup, current, paused>>
      /\ box[g] # << >> /\ box[g] \in Seq(Msgs)
  BY Zenon DEF ActorStep, regVars, proxyVars, TypeOK
<1>1. target' = target /\ target \in Gens /\ up[target] = "up" /\ "exit" \notin Kinds(box[target])
  BY <1>0, Zenon DEF target, ReachInv, Provided, TypeOK
<1>2. Kinds(Tail(box[g])) \subseteq Kinds(box[g]) /\ m.kind \in Kinds(box[g])
  BY <1>0, KindsTail, Zenon
<1>. HIDE DEF m
<1>3. CASE m.kind # "exit"
  <2>1. box' = [box EXCEPT ![g] = Tail(@)] /\ UNCHANGED <<up, pbox>>
    BY <1>3, Zenon DEF ActorStep, m
  <2>2. "exit" \notin Kinds(box'[target])
    BY <1>1, <1>2, <2>1, Zenon DEF TypeOK
  <2>. QED
    BY <1>0, <2>1, <2>2, ReachFrame, Zenon
<1>4. CASE m.kind = "exit"
  <2>1. Terminate(g) /\ g # target
    BY <1>1, <1>2, <1>4, Zenon DEF ActorStep, m
  <2>2. /\ \A h \in Gens : up[h] = "down" => up'[h] = "down"
        /\ up'[g] = "down" /\ up'[target] = "up" /\ box'[target] = box[target]
        /\ ToProxies(watchers[g], DownOf(g))
    BY <1>1, <2>1, Zenon DEF Terminate, TypeOK
  <2>3. \A s \in Svcs : (HeldNow(s)' <=> HeldNow(s)) /\ (Awaited(s)' <=> Awaited(s))
    BY <1>0, Zenon DEF HeldNow, Awaited, Operating
  <2>4. ASSUME NEW s \in Svcs PROVE ServiceInv(s)'
    <3>1. ServiceInv(s)
      BY Zenon DEF ReachInv
    <3>2. CASE pbox'[s] = pbox[s]
      BY <1>0, <1>1, <2>2, <2>3, <3>1, <3>2, ServiceFrame, Zenon
    <3>3. CASE pbox'[s] # pbox[s]
      <4>. DEFINE q == pbox[s]
                  d == DownOf(g)
      <4>1. pup[s] = "up" /\ pbox'[s] = Append(q, d)
        BY <2>2, <3>3, Zenon DEF ToProxies
      <4>2. q \in Seq(Msgs) /\ d \in Msgs /\ d.kind = "down" /\ d.gen = g
        BY MsgTypes, MsgKinds, Zenon DEF TypeOK
      <4>3. s \in Provides(target) /\ LedgerInv(s) /\ ProxyInv(s)
        BY <3>1, <4>1, Zenon DEF ServiceInv
      <4>4. Arrives(q, current[s], target, up)
        BY <4>3, Zenon DEF ProxyInv
      <4>5. Kinds(Append(q, d)) = Kinds(q) \cup {"down"} /\ Elements(Append(q, d)) = Elements(q) \cup {d}
        BY <4>2, KindsAppend, ElementsAppend
      <4>. HIDE DEF q, d
      <4>6. Arrives(Append(q, d), current[s], target, up')
        BY <2>1, <2>2, <4>2, <4>4, ArrivesAppend, Zenon
      <4>7. Arrives(pbox[s], current[s], target, up)'
        BY <1>0, <1>1, <4>1, <4>6, Zenon
      <4>8. \A x \in Elements(pbox'[s]) : x.kind = "quiesce" => Awaited(s)' /\ x.round = round'
        BY <1>0, <2>3, <4>1, <4>2, <4>3, <4>5, Zenon DEF ProxyInv, q
      <4>9. "resume" \in Kinds(pbox'[s]) <=> "resume" \in Kinds(pbox[s])
        BY <4>1, <4>5 DEF q
      <4>10. ProxyInv(s)'
        BY <1>0, <2>3, <4>3, <4>7, <4>8, <4>9, Zenon DEF ProxyInv
      <4>11. LedgerInv(s)'
        BY <1>0, <1>1, <4>1, <4>3, Zenon DEF LedgerInv
      <4>. QED
        BY <1>1, <4>3, <4>10, <4>11, Zenon DEF ServiceInv
    <3>. QED
      BY <3>2, <3>3, Zenon
  <2>5. OperationInv'
    BY <1>0, Zenon DEF ReachInv, OperationInv
  <2>. QED
    BY <1>1, <2>2, <2>4, <2>5, Zenon DEF ReachInv
<1>. QED
  BY <1>3, <1>4, Zenon

\* A call waits in the mailbox of the proxy.
LEMMA ReachCall ==
  ASSUME TypeOK, InstanceInv, ReachInv, Provided, NEW c \in Clients, NEW s \in Svcs, Call(c, s)
  PROVE  ReachInv'
<1>. PICK n \in 1 .. MaxCalls : LET x == [from |-> c, n |-> n, to |-> s] IN
       asked' = asked \cup {x} /\ ToProxies({s}, CallMsg(x))
  BY Zenon DEF Call
<1>. DEFINE x == [from |-> c, n |-> n, to |-> s]
            m == CallMsg(x)
<1>0. /\ UNCHANGED <<op, pc, todo, asking, held, acked, round, ngen, entry, up, box, impl, regbox,
                     pup, current, paused>>
      /\ ToProxies({s}, m) /\ asked' = asked \cup {x}
  BY Zenon DEF Call, pmVars, regVars, proxyVars, actorVars
<1>. HIDE DEF x
<1>1. x \in Calls
  <2>1. TypeOK'
    BY CallType, Zenon
  <2>. QED
    BY <1>0, <2>1, Zenon DEF TypeOK
<1>2. m \in Msgs /\ m.kind = "call"
  BY <1>1, MsgTypes, MsgKinds, Zenon
<1>. HIDE DEF m
<1>3. target' = target
  BY <1>0, Zenon DEF target
<1>4. (HeldNow(s)' <=> HeldNow(s)) /\ (Awaited(s)' <=> Awaited(s))
  BY <1>0, Zenon DEF HeldNow, Awaited, Operating
<1>5. ServiceInv(s)
  BY Zenon DEF ReachInv
<1>6. ServiceInv(s)'
  <2>1. CASE pbox'[s] = pbox[s]
    BY <1>0, <1>3, <1>4, <1>5, <2>1, ServiceFrame, Zenon
  <2>2. CASE pbox'[s] # pbox[s]
    <3>. DEFINE q == pbox[s]
    <3>1. pup[s] = "up" /\ pbox'[s] = Append(q, m) /\ q \in Seq(Msgs)
      BY <1>0, <2>2, Zenon DEF ToProxies, TypeOK
    <3>2. s \in Provides(target) /\ LedgerInv(s) /\ ProxyInv(s)
      BY <1>5, <3>1, Zenon DEF ServiceInv
    <3>3. Arrives(q, current[s], target, up)
      BY <3>2, Zenon DEF ProxyInv
    <3>4. Kinds(Append(q, m)) = Kinds(q) \cup {"call"} /\ Elements(Append(q, m)) = Elements(q) \cup {m}
      BY <1>2, <3>1, KindsAppend, MsgsAppend, Zenon
    <3>. HIDE DEF q
    <3>5. Arrives(Append(q, m), current[s], target, up)
      BY <1>2, <3>1, <3>3, ArrivesAppend, Zenon
    <3>6. Arrives(pbox[s], current[s], target, up)'
      BY <1>0, <1>3, <3>1, <3>5, Zenon
    <3>7. \A y \in Elements(pbox'[s]) : y.kind = "quiesce" => Awaited(s)' /\ y.round = round'
      BY <1>0, <1>2, <1>4, <3>1, <3>2, <3>4, Zenon DEF ProxyInv, q
    <3>8. "resume" \in Kinds(pbox'[s]) <=> "resume" \in Kinds(pbox[s])
      BY <1>2, <3>1, MsgsAppend, Zenon DEF q
    <3>9. ProxyInv(s)'
      BY <1>0, <1>4, <3>2, <3>6, <3>7, <3>8, Zenon DEF ProxyInv
    <3>10. LedgerInv(s)'
      BY <1>0, <1>3, <3>1, <3>2, Zenon DEF LedgerInv
    <3>. QED
      BY <1>3, <3>2, <3>9, <3>10, Zenon DEF ServiceInv
  <2>. QED
    BY <2>1, <2>2, Zenon
<1>7. \A t \in Svcs \ {s} : pbox'[t] = pbox[t]
  BY <1>0, Zenon DEF ToProxies
<1>. QED
  BY <1>0, <1>6, <1>7, ReachOthers, Zenon

\* Every step keeps the services reachable.
LEMMA ReachNext ==
  ASSUME CrashWhen = "never", ~QuiesceMayTimeout
  PROVE  ReachInv /\ TypeOK /\ InstanceInv /\ [Next]_vars => ReachInv'
<1>. SUFFICES ASSUME ReachInv, TypeOK, InstanceInv, [Next]_vars PROVE ReachInv'
  BY Zenon
<1>1. CASE ~Provided'
  BY <1>1, Zenon DEF ReachInv
<1>2. CASE Provided'
  <2>1. Provided
    BY <1>2, ProvidedBefore, Zenon
  <2>2. ASSUME NEW g \in Gens, NEW c \in pending[g], Continue(g, c) PROVE ReachInv'
    BY <2>1, <2>2, ReachFrame, Zenon DEF Continue, pmVars, regVars, proxyVars
  <2>3. \A g \in Gens : ~Crash(g)
    BY Zenon DEF Crash
  <2>4. CASE UNCHANGED vars
    BY <2>1, <2>4, ReachFrame, Zenon DEF vars, pmVars, regVars, proxyVars, actorVars
  <2>. QED
    BY <1>2, <2>1, <2>2, <2>3, <2>4, ReachManager, ReachRegistry, ReachProxy, ReachActor,
       ReachCall, Zenon DEF Next
<1>. QED
  BY <1>1, <1>2, Zenon

\* When no plugin actor terminates by itself and every proxy answers quiesce_atom
\* in time, a plugin that no operation is working on can be reached: its services
\* are registered with its current actor, and each proxy forwards to that actor or
\* has the resume that makes it do so in its mailbox, whatever reloads, calls and
\* down_msgs are on their way (plugin_manager.cpp:179-263).
THEOREM ServicesStayReachable ==
  ASSUME CrashWhen = "never", ~QuiesceMayTimeout
  PROVE  Spec => []ServicesReachable
<1>1. Init => ReachInv
  <2>. SUFFICES ASSUME Init PROVE ReachInv
    BY Zenon
  <2>1. target = 1 /\ Provides(1) = Services /\ 1 \in Gens
    BY GensArePositive, Zenon DEF Init, target, Provides
  <2>2. DOMAIN << >> = {} /\ Elements(<< >>) = {} /\ Kinds(<< >>) = {}
    BY DEF Elements, Kinds
  <2>3. \A u : Arrives(<< >>, 1, 1, u)
    BY <2>2, Zenon DEF Arrives
  <2>4. \A s \in Svcs : ~HeldNow(s)
    BY Zenon DEF Init, HeldNow, Operating
  <2>5. ASSUME NEW s \in Svcs PROVE ServiceInv(s)
    <3>1. CASE s \in Services
      <4>1. /\ regbox[s] = << >> /\ impl[s] = 1 /\ pup[s] = "up" /\ pbox[s] = << >>
            /\ current[s] = 1 /\ paused[s] = FALSE
        BY <3>1, Zenon DEF Init
      <4>2. LedgerInv(s)
        BY <2>1, <4>1, Zenon DEF LedgerInv
      <4>3. ProxyInv(s)
        BY <2>1, <2>2, <2>3, <2>4, <4>1, Zenon DEF ProxyInv
      <4>. QED
        BY <2>1, <3>1, <4>2, <4>3, Zenon DEF ServiceInv
    <3>2. CASE s \notin Services
      BY <2>1, <3>2, Zenon DEF Init, ServiceInv
    <3>. QED
      BY <3>1, <3>2, Zenon
  <2>. QED
    BY <2>1, <2>2, <2>5, Zenon DEF Init, ReachInv, OperationInv
<1>2. TypeOK /\ ReachInv => ServicesReachable
  <2>. SUFFICES ASSUME TypeOK, ReachInv, op = "idle", entry # 0, up[entry] = "up",
                       NEW s \in Provides(entry)
                PROVE  /\ regbox[s] = << >> => impl[s] = entry /\ pup[s] = "up"
                       /\ (pup[s] = "up" /\ \A m \in Elements(pbox[s]) : m.kind # "resume")
                            => current[s] = entry /\ ~paused[s]
    BY Zenon DEF ServicesReachable
  <2>1. target = entry /\ Provided /\ s \in Svcs
    BY Zenon DEF target, Provided, Provides, Svcs
  <2>2. LedgerInv(s) /\ (pup[s] = "up" => ProxyInv(s))
    BY <2>1, Zenon DEF ReachInv, ServiceInv
  <2>3. <<Switch(target)>> # << >> /\ <<Register(target)>> # << >> /\ <<Register(target), SetAcl>> # << >>
    BY Zenon
  <2>4. regbox[s] = << >> => impl[s] = entry /\ pup[s] = "up"
    BY <2>1, <2>2, <2>3, Zenon DEF LedgerInv
  <2>5. ASSUME pup[s] = "up", \A m \in Elements(pbox[s]) : m.kind # "resume"
        PROVE  current[s] = entry /\ ~paused[s]
    <3>1. "resume" \notin Kinds(pbox[s])
      BY <2>5, Zenon DEF Kinds
    <3>2. ~HeldNow(s)
      BY Zenon DEF HeldNow, Operating
    <3>. QED
      BY <2>1, <2>2, <2>5, <3>1, <3>2, Zenon DEF ProxyInv, Arrives
  <2>. QED
    BY <2>4, <2>5, Zenon
<1>. QED
  BY <1>1, <1>2, ReachNext, ReloadTypes, InstanceInvariant, PTL DEF Spec
=============================================================================
