--------------------------- MODULE Protocols_proofs ---------------------------
(* For any processes, urls and overrides: types; that nobody is asked for a *)
(* password over http(s) before ssh was refused; that only a preference for *)
(* ssh hides a server that answers everybody; and that, while processes do  *)
(* not overlap, a list starts with what the last one succeeded with.        *)
EXTENDS Protocols, TLAPS

-----------------------------------------------------------------------------
(* The lists of protocols.                                                 *)

\* ssh is in the list before every protocol that asks for a password.
SshFirst(list) ==
    \A i \in 1..Len(list) : list[i] \in Interactive =>
        \E j \in 1..(i - 1) : list[j] = "ssh"

\* Neither list of protocols is empty, and both have ssh before what asks.
LEMMA DefaultLists ==
    ASSUME NEW scheme
    PROVE  \A list \in {ReadProtocols(scheme), WriteProtocols(scheme)} :
              /\ list \in Seq(Protocols)
              /\ Len(list) >= 1
              /\ SshFirst(list)
<1> DEFINE Good(list) == list \in Seq(Protocols) /\ Len(list) >= 1 /\ SshFirst(list)
<1>1. ASSUME NEW p \in Protocols, NEW q \in Protocols, p \notin Interactive,
             p = "ssh" \/ q \notin Interactive
      PROVE  Good(<<p, q>>)
  <2> DEFINE list == <<p, q>>
  <2>1. list \in Seq(Protocols) /\ Len(list) = 2 /\ list[1] = p /\ list[2] = q
    OBVIOUS
  <2>2. "ssh" \notin Interactive
    BY DEF Interactive
  <2> HIDE DEF list
  <2>3. ASSUME NEW i \in 1..2, list[i] \in Interactive
        PROVE  \E j \in 1..(i - 1) : list[j] = "ssh"
    <3>1. i = 2 /\ p = "ssh"
      BY <1>1, <2>1, <2>2, <2>3
    <3> QED
      BY <2>1, <3>1
  <2> QED
    BY <2>1, <2>3 DEF SshFirst, list
<1>2. ASSUME NEW p \in Protocols, NEW q \in Protocols, p \notin Interactive
      PROVE  Good(<<p, "ssh", q>>)
  <2> DEFINE list == <<p, "ssh", q>>
  <2>0. "ssh" \in Protocols
    BY DEF Protocols
  <2>1. list \in Seq(Protocols) /\ Len(list) = 3
    BY <2>0
  <2>2. list[1] = p /\ list[2] = "ssh" /\ list[3] = q
    OBVIOUS
  <2>3. "ssh" \notin Interactive
    BY DEF Interactive
  <2> HIDE DEF list
  <2>4. ASSUME NEW i \in 1..3, list[i] \in Interactive
        PROVE  \E j \in 1..(i - 1) : list[j] = "ssh"
    <3>1. i = 3
      BY <1>2, <2>2, <2>3, <2>4
    <3> QED
      BY <2>2, <3>1
  <2> QED
    BY <2>1, <2>4 DEF SshFirst, list
<1>3. ReadProtocols(scheme) \in {<<"unauth http", "ssh", "http">>, <<"ftp", "ssh">>,
                                 <<"unauth https", "ssh", "https">>}
  BY DEF ReadProtocols
<1>4. WriteProtocols(scheme) \in {<<"ssh", "http">>, <<"ssh", "ftp">>, <<"ssh", "https">>}
  BY DEF WriteProtocols
<1>5. /\ {"ssh", "http", "https", "ftp", "unauth http", "unauth https"} \subseteq Protocols
      /\ {"ssh", "ftp", "unauth http", "unauth https"} \cap Interactive = {}
  BY DEF Protocols, Interactive
<1> HIDE DEF Good
<1>6. Good(<<"unauth http", "ssh", "http">>) /\ Good(<<"unauth https", "ssh", "https">>)
  BY <1>2, <1>5
<1>7. Good(<<"ftp", "ssh">>)
  BY <1>1, <1>5
<1>8. Good(<<"ssh", "http">>) /\ Good(<<"ssh", "ftp">>) /\ Good(<<"ssh", "https">>)
  BY <1>1, <1>5
<1> QED
  BY <1>3, <1>4, <1>6, <1>7, <1>8 DEF Good

\* Promoting keeps the length, and the members.
LEMMA PromoteType ==
    ASSUME NEW list \in Seq(Protocols), Len(list) >= 1, NEW preferred
    PROVE  /\ Promote(list, preferred) \in Seq(Protocols)
           /\ Len(Promote(list, preferred)) = Len(list)
<1>1. CASE ~\E i \in DOMAIN list : list[i] = preferred
  BY <1>1 DEF Promote
<1>2. CASE \E i \in DOMAIN list : list[i] = preferred
  <2> DEFINE pos == CHOOSE i \in DOMAIN list : list[i] = preferred
             new == [i \in DOMAIN list |-> IF i = 1 THEN preferred
                                           ELSE IF i <= pos THEN list[i - 1] ELSE list[i]]
  <2>1. pos \in 1..Len(list) /\ list[pos] = preferred
    BY <1>2
  <2>2. Promote(list, preferred) = new
    BY <1>2 DEF Promote
  <2>3. \A i \in 1..Len(list) : new[i] \in Protocols
    <3> SUFFICES ASSUME NEW i \in 1..Len(list) PROVE new[i] \in Protocols
      OBVIOUS
    <3> HIDE DEF pos
    <3>1. list[pos] \in Protocols /\ list[i] \in Protocols
      BY <2>1
    <3>2. i # 1 => list[i - 1] \in Protocols
      OBVIOUS
    <3> QED
      BY <2>1, <3>1, <3>2
  <2>4. new \in Seq(Protocols) /\ Len(new) = Len(list)
    <3> HIDE DEF pos
    <3>1. new = [i \in 1..Len(list) |-> new[i]]
      OBVIOUS
    <3> HIDE DEF new
    <3>2. new \in [1..Len(list) -> Protocols]
      BY <2>3, <3>1
    <3> QED
      BY <3>2
  <2> QED
    BY <2>2, <2>4
<1> QED
  BY <1>1, <1>2

\* It only puts a protocol that asks for a password before ssh if that is the
\* preferred one.
LEMMA PromoteSshFirst ==
    ASSUME NEW list \in Seq(Protocols), Len(list) >= 1, SshFirst(list),
           NEW preferred, preferred \notin Interactive
    PROVE  SshFirst(Promote(list, preferred))
<1>1. CASE ~\E i \in DOMAIN list : list[i] = preferred
  BY <1>1 DEF Promote
<1>2. CASE \E i \in DOMAIN list : list[i] = preferred
  <2> DEFINE pos == CHOOSE i \in DOMAIN list : list[i] = preferred
             new == [i \in DOMAIN list |-> IF i = 1 THEN preferred
                                           ELSE IF i <= pos THEN list[i - 1] ELSE list[i]]
  <2>1. pos \in 1..Len(list) /\ list[pos] = preferred
    BY <1>2
  <2>2. Promote(list, preferred) = new
    BY <1>2 DEF Promote
  <2>3. Len(new) = Len(list)
    BY <2>2, PromoteType
  <2> HIDE DEF pos
  <2>4. ASSUME NEW i \in 1..Len(list), new[i] \in Interactive
        PROVE  \E j \in 1..(i - 1) : new[j] = "ssh"
    <3>1. i # 1
      BY <2>4
    <3>2. CASE i <= pos
      <4>1. new[i] = list[i - 1] /\ i - 1 \in 1..Len(list)
        BY <3>1, <3>2
      <4>2. PICK j \in 1..(i - 2) : list[j] = "ssh"
        BY <4>1, <2>4 DEF SshFirst
      <4>3. new[j + 1] = list[j] /\ j + 1 \in 1..(i - 1)
        BY <4>2, <3>2, <2>1
      <4> QED
        BY <4>2, <4>3
    <3>3. CASE i > pos
      <4>1. new[i] = list[i]
        BY <3>1, <3>3, <2>1
      <4>2. PICK j \in 1..(i - 1) : list[j] = "ssh"
        BY <4>1, <2>4 DEF SshFirst
      <4>3. CASE j < pos
        <5>1. new[j + 1] = list[j] /\ j + 1 \in 1..(i - 1)
          BY <4>2, <4>3, <3>3, <2>1
        <5> QED
          BY <4>2, <5>1
      <4>4. CASE j = pos
        <5>1. new[1] = preferred /\ 1 \in 1..(i - 1)
          BY <3>1, <2>1
        <5> QED
          BY <4>2, <4>4, <5>1, <2>1
      <4>5. CASE j > pos
        <5>1. new[j] = list[j]
          BY <4>2, <4>5, <2>1
        <5> QED
          BY <4>2, <5>1
      <4> HIDE DEF new
      <4>6. j \in Nat /\ pos \in Nat
        BY <4>2, <2>1
      <4> QED
        BY <4>3, <4>4, <4>5, <4>6
    <3> HIDE DEF new
    <3>4. i \in Nat /\ pos \in Nat
      BY <2>1
    <3> QED
      BY <3>2, <3>3, <3>4
  <2> QED
    BY <2>2, <2>3, <2>4 DEF SshFirst
<1> QED
  BY <1>1, <1>2

\* The preferred protocol comes first if it is in the list, before the one that
\* was first; nothing comes in that was not in the list.
LEMMA PromoteMembers ==
    ASSUME NEW list \in Seq(Protocols), Len(list) >= 1, NEW preferred
    PROVE  /\ \A i \in 1..Len(list) : \E j \in 1..Len(list) :
                  Promote(list, preferred)[i] = list[j]
           /\ (\E i \in 1..Len(list) : list[i] = preferred)
                 => Promote(list, preferred)[1] = preferred
           /\ \/ Promote(list, preferred)[1] = list[1]
              \/ Len(list) >= 2 /\ Promote(list, preferred)[2] = list[1]
<1>1. CASE ~\E i \in DOMAIN list : list[i] = preferred
  BY <1>1 DEF Promote
<1>2. CASE \E i \in DOMAIN list : list[i] = preferred
  <2> DEFINE pos == CHOOSE i \in DOMAIN list : list[i] = preferred
             new == [i \in DOMAIN list |-> IF i = 1 THEN preferred
                                           ELSE IF i <= pos THEN list[i - 1] ELSE list[i]]
  <2>1. pos \in 1..Len(list) /\ list[pos] = preferred
    BY <1>2
  <2>2. Promote(list, preferred) = new
    BY <1>2 DEF Promote
  <2> HIDE DEF pos
  <2>3. ASSUME NEW i \in 1..Len(list)
        PROVE  \E j \in 1..Len(list) : new[i] = list[j]
    <3>1. CASE i = 1
      BY <2>1, <3>1
    <3>2. CASE i # 1 /\ i <= pos
      <4>1. new[i] = list[i - 1] /\ i - 1 \in 1..Len(list)
        BY <3>2
      <4> QED
        BY <4>1
    <3>3. CASE i # 1 /\ ~(i <= pos)
      BY <3>3
    <3> QED
      BY <3>1, <3>2, <3>3
  <2>4. new[1] = preferred
    OBVIOUS
  <2>5. new[1] = list[1] \/ (Len(list) >= 2 /\ new[2] = list[1])
    <3>1. CASE pos = 1
      BY <2>1, <2>4, <3>1
    <3>2. CASE pos # 1
      BY <2>1, <3>2
    <3> QED
      BY <3>1, <3>2
  <2> HIDE DEF new
  <2> QED
    BY <2>2, <2>3, <2>4, <2>5
<1> QED
  BY <1>1, <1>2

-----------------------------------------------------------------------------
(* Types.                                                                  *)

\* The nostr url or the server leaves no choice.
Fixed(u, override) == override # NoProtocol \/ u.scheme = "filesystem"

\* The protocols of an attempt are a sequence of protocols.
LEMMA OrderType ==
    ASSUME TypeOK, NEW kind \in Kinds, NEW u \in Urls, NEW override \in Overrides
    PROVE  /\ Order(kind, u, override) \in Seq(Protocols)
           /\ Len(Order(kind, u, override)) >= 1
           /\ Fixed(u, override) => Len(Order(kind, u, override)) = 1
           /\ u.scheme = "filesystem" => Order(kind, u, override)[1] = "filesystem"
<1>1. "filesystem" \in Protocols /\ (override # NoProtocol => override \in Protocols)
  BY ProtocolsAssumption DEF Protocols
<1>2. u.scheme = "filesystem" => Order(kind, u, override)[1] = "filesystem"
  BY DEF Order, ReadOrder, WriteOrder
<1>3. CASE Fixed(u, override)
  <2>1. \E p \in Protocols : Order(kind, u, override) = <<p>>
    BY <1>1, <1>3 DEF Order, ReadOrder, WriteOrder, Fixed
  <2>2. ASSUME NEW p \in Protocols PROVE <<p>> \in Seq(Protocols) /\ Len(<<p>>) = 1
    OBVIOUS
  <2> QED
    BY <1>2, <1>3, <2>1, <2>2
<1>4. CASE ~Fixed(u, override)
  <2>1. \/ Order(kind, u, override) =
               Promote(ReadProtocols(u.scheme), prefs["fetch"][ShortName(u)])
        \/ Order(kind, u, override) =
               Promote(WriteProtocols(u.scheme), prefs["push"][ShortName(u)])
    BY <1>4 DEF Order, ReadOrder, WriteOrder, Fixed
  <2> QED
    BY <1>2, <1>4, <2>1, DefaultLists, PromoteType
<1> QED
  BY <1>3, <1>4

\* An attempt under way is at one of the protocols.
LEMMA CurrentType ==
    ASSUME TypeOK, NEW h \in Procs, attempt[h] # NoAttempt
    PROVE  /\ attempt[h] \in Attempt
           /\ Current(attempt[h]) \in Protocols
           /\ ShortName(attempt[h].url) \in Names
<1>1. /\ attempt[h] \in Attempt
      /\ attempt[h].next <= Len(attempt[h].order)
  BY DEF TypeOK
<1>2. /\ attempt[h].order \in Seq(Protocols)
      /\ attempt[h].next \in 1..Len(attempt[h].order)
      /\ attempt[h].url \in Urls
  BY <1>1 DEF Attempt
<1> QED
  BY <1>1, <1>2 DEF Current, Names

\* The config items stay well formed when one pair is replaced.
LEMMA RewrittenType ==
    ASSUME TypeOK, NEW h \in Procs, attempt[h] # NoAttempt
    PROVE  Rewritten(attempt[h]) \in Preferences
<1>1. attempt[h].read \in Preferences
  BY CurrentType DEF Attempt
<1> QED
  BY <1>1, CurrentType DEF Rewritten, Preferences

\* What an attempt saves is a preference.
LEMMA RememberedType ==
    ASSUME TypeOK, NEW h \in Procs, attempt[h] # NoAttempt
    PROVE  Remembered(attempt[h]) \in Preferences
<1>1. worked \in Preferences
  BY DEF TypeOK
<1> QED
  BY <1>1, CurrentType DEF Remembered, Preferences

\* Whatever the processes, servers and config: every variable keeps its type,
\* and an attempt never runs off the end of its protocols.
THEOREM TypeCorrect == Spec => []TypeOK
<1>1. Init => TypeOK
  BY DEF Init, TypeOK, NothingKnown, Preferences
<1>2. TypeOK /\ [Next]_vars => TypeOK'
  <2> SUFFICES ASSUME TypeOK, [Next]_vars PROVE TypeOK'
    OBVIOUS
  <2> USE DEF TypeOK
  <2>1. ASSUME NEW h \in Procs, NEW kind \in Kinds, NEW u \in Urls,
               NEW override \in Overrides, Start(h, kind, u, override)
        PROVE  TypeOK'
    <3>1. PICK open \in BOOLEAN : attempt' = [attempt EXCEPT ![h] =
              [kind |-> kind, url |-> u, override |-> override,
               order |-> Order(kind, u, override), next |-> 1, open |-> open,
               step |-> "try", read |-> NothingKnown]]
      BY <2>1 DEF Start
    <3>2. NothingKnown \in Preferences
      BY DEF NothingKnown, Preferences
    <3>3. [kind |-> kind, url |-> u, override |-> override,
           order |-> Order(kind, u, override), next |-> 1, open |-> open,
           step |-> "try", read |-> NothingKnown] \in Attempt
      BY <3>2, OrderType DEF Attempt
    <3>4. 1 <= Len(Order(kind, u, override))
      BY OrderType
    <3> QED
      BY <2>1, <3>1, <3>3, <3>4 DEF Start
  <2>2. ASSUME NEW h \in Procs, Succeed(h) PROVE TypeOK'
    <3>1. attempt[h] # NoAttempt /\ attempt[h] \in Attempt
      BY <2>2, CurrentType DEF Succeed, Trying
    <3>2. prefs[SavedFor(attempt[h].kind)] \in Preferences
      BY DEF SavedFor, Directions
    <3>3. [attempt[h] EXCEPT !.step = "save", !.read = prefs[SavedFor(attempt[h].kind)]]
              \in Attempt
      BY <3>1, <3>2 DEF Attempt
    <3>4. attempt' \in [Procs -> Attempt \cup {NoAttempt}]
      BY <2>2, <3>3 DEF Succeed
    <3>5. \A g \in Procs : attempt'[g] # NoAttempt => attempt'[g].next <= Len(attempt'[g].order)
      BY <2>2, <3>1 DEF Succeed, Attempt
    <3>6. worked' \in Preferences
      BY <2>2, <3>1, RememberedType DEF Succeed
    <3> QED
      BY <2>2, <3>4, <3>5, <3>6 DEF Succeed
  <2>3. ASSUME NEW h \in Procs, Fail(h) PROVE TypeOK'
    <3>1. attempt[h] # NoAttempt /\ attempt[h] \in Attempt
      BY <2>3, CurrentType DEF Fail, Trying
    <3>2. PICK failure \in Failures :
             /\ attempt' = [attempt EXCEPT ![h] =
                   IF Last(attempt[h], failure) THEN [attempt[h] EXCEPT !.step = "err"]
                   ELSE [attempt[h] EXCEPT !.next = @ + 1]]
             /\ sshRefused' = IF Current(attempt[h]) = "ssh" /\ failure = "authentication"
                              THEN sshRefused \cup {ShortName(attempt[h].url)}
                              ELSE sshRefused
      BY <2>3 DEF Fail
    <3>3. /\ [attempt[h] EXCEPT !.step = "err"] \in Attempt
          /\ [attempt[h] EXCEPT !.next = @ + 1] \in Attempt
      BY <3>1 DEF Attempt
    <3>4. attempt' \in [Procs -> Attempt \cup {NoAttempt}]
      BY <3>2, <3>3
    <3>5. ~Last(attempt[h], failure) => attempt[h].next + 1 <= Len(attempt[h].order)
      BY <3>1 DEF Last, Attempt
    <3>6. \A g \in Procs : attempt'[g] # NoAttempt => attempt'[g].next <= Len(attempt'[g].order)
      BY <3>1, <3>2, <3>5 DEF Attempt
    <3>7. sshRefused' \subseteq Names
      BY <3>1, <3>2, CurrentType
    <3> QED
      BY <2>3, <3>4, <3>6, <3>7 DEF Fail
  <2>4. ASSUME NEW h \in Procs, SetProtocolPreference(h) PROVE TypeOK'
    <3>1. attempt[h] # NoAttempt
      BY <2>4 DEF SetProtocolPreference
    <3>2. prefs' \in [Directions -> Preferences] /\ worked' \in Preferences
      BY <2>4, <3>1, RewrittenType, RememberedType DEF SetProtocolPreference
    <3> QED
      BY <2>4, <3>2 DEF SetProtocolPreference
  <2>5. ASSUME NEW h \in Procs, ReturnError(h) PROVE TypeOK'
    BY <2>5 DEF ReturnError
  <2>6. CASE UNCHANGED vars
    BY <2>6 DEF vars
  <2> QED
    BY <2>1, <2>2, <2>3, <2>4, <2>5, <2>6 DEF Next
<1> QED
  BY <1>1, <1>2, PTL DEF Spec

-----------------------------------------------------------------------------
(* Nobody is asked for a password before ssh was refused.                  *)

\* A config item prefers passwords only for servers that refused ssh.
Learned(item, refused) == \A n \in Names : item[n] \in Interactive => n \in refused

\* What an attempt has still to try, and what it will write.
Justified(a, refused) ==
    /\ Learned(a.read, refused)
    /\ Fixed(a.url, a.override) => Len(a.order) = 1
    /\ a.url.scheme = "filesystem" => a.order[1] = "filesystem"
    /\ a.step = "save" => a.next > 1
    /\ ~Fixed(a.url, a.override) =>
          \A i \in a.next..Len(a.order) : a.order[i] \in Interactive =>
              \/ ShortName(a.url) \in refused
              \/ \E j \in a.next..(i - 1) : a.order[j] = "ssh"

JustifiedInv ==
    /\ \A d \in Directions : Learned(prefs[d], sshRefused)
    /\ \A h \in Procs : attempt[h] # NoAttempt => Justified(attempt[h], sshRefused)

\* Refusals are never forgotten, so what was justified stays so.
LEMMA Monotone ==
    ASSUME NEW a, NEW item, NEW refused, NEW more, refused \subseteq more
    PROVE  /\ Learned(item, refused) => Learned(item, more)
           /\ Justified(a, refused) => Justified(a, more)
  BY DEF Learned, Justified

\* A new attempt tries ssh first, or knows that the server refuses it.
LEMMA OrderSafe ==
    ASSUME TypeOK, JustifiedInv, NEW kind \in Kinds, NEW u \in Urls,
           NEW override \in Overrides, ~Fixed(u, override)
    PROVE  ShortName(u) \in sshRefused \/ SshFirst(Order(kind, u, override))
<1>1. SUFFICES ASSUME ShortName(u) \notin sshRefused
               PROVE  SshFirst(Order(kind, u, override))
  OBVIOUS
<1>2. /\ prefs["fetch"][ShortName(u)] \notin Interactive
      /\ prefs["push"][ShortName(u)] \notin Interactive
  BY <1>1 DEF JustifiedInv, Learned, Directions, Names
<1>3. \/ Order(kind, u, override) =
             Promote(ReadProtocols(u.scheme), prefs["fetch"][ShortName(u)])
      \/ Order(kind, u, override) =
             Promote(WriteProtocols(u.scheme), prefs["push"][ShortName(u)])
  BY DEF Order, ReadOrder, WriteOrder, Fixed
<1> QED
  BY <1>2, <1>3, DefaultLists, PromoteSshFirst

\* An attempt that starts.
LEMMA StartJustified ==
    ASSUME TypeOK, JustifiedInv, NEW h \in Procs, NEW kind \in Kinds, NEW u \in Urls,
           NEW override \in Overrides, Start(h, kind, u, override)
    PROVE  JustifiedInv'
<1>1. PICK open \in BOOLEAN : attempt' = [attempt EXCEPT ![h] =
          [kind |-> kind, url |-> u, override |-> override,
           order |-> Order(kind, u, override), next |-> 1, open |-> open,
           step |-> "try", read |-> NothingKnown]]
  BY DEF Start
<1> DEFINE a == [kind |-> kind, url |-> u, override |-> override,
                 order |-> Order(kind, u, override), next |-> 1, open |-> open,
                 step |-> "try", read |-> NothingKnown]
<1>2. Learned(NothingKnown, sshRefused)
  BY ProtocolsAssumption DEF Learned, NothingKnown, Interactive, Protocols
<1>3. /\ Fixed(u, override) => Len(Order(kind, u, override)) = 1
      /\ u.scheme = "filesystem" => Order(kind, u, override)[1] = "filesystem"
  BY OrderType
<1>4. ~Fixed(u, override) => ShortName(u) \in sshRefused \/ SshFirst(Order(kind, u, override))
  BY OrderSafe
<1>5. Justified(a, sshRefused)
  BY <1>2, <1>3, <1>4 DEF Justified, SshFirst
<1>6. attempt' = [attempt EXCEPT ![h] = a]
  BY <1>1
<1>7. \A g \in Procs : attempt'[g] = IF g = h THEN a ELSE attempt[g]
  BY <1>6 DEF TypeOK
<1> HIDE DEF a
<1> QED
  BY <1>5, <1>7 DEF Start, JustifiedInv

\* A protocol that works.
LEMMA SucceedJustified ==
    ASSUME TypeOK, JustifiedInv, NEW h \in Procs, Succeed(h)
    PROVE  JustifiedInv'
<1> DEFINE a == attempt[h]
           b == [a EXCEPT !.step = "save", !.read = prefs[SavedFor(a.kind)]]
<1>1. a # NoAttempt /\ a \in Attempt /\ Justified(a, sshRefused)
  BY CurrentType DEF Succeed, Trying, JustifiedInv
<1>2. Learned(prefs[SavedFor(a.kind)], sshRefused)
  BY DEF JustifiedInv, SavedFor, Directions
<1>3. a.next > 1 => Justified(b, sshRefused)
  BY <1>1, <1>2 DEF Justified, Attempt
<1>4. \A g \in Procs : attempt'[g] = IF g = h THEN IF a.next = 1 THEN NoAttempt ELSE b
                                     ELSE attempt[g]
  BY DEF Succeed, TypeOK
<1>5. a.next # 1 => a.next > 1
  BY <1>1 DEF Attempt
<1> HIDE DEF a, b
<1> QED
  BY <1>3, <1>4, <1>5 DEF Succeed, JustifiedInv

\* A protocol that fails.
LEMMA FailJustified ==
    ASSUME TypeOK, JustifiedInv, NEW h \in Procs, Fail(h)
    PROVE  JustifiedInv'
<1> DEFINE a == attempt[h]
           ended == [a EXCEPT !.step = "err"]
           later == [a EXCEPT !.next = @ + 1]
<1>1. a # NoAttempt /\ a \in Attempt /\ Justified(a, sshRefused) /\ a.step = "try"
  BY CurrentType DEF Fail, Trying, JustifiedInv
<1>2. PICK failure \in Failures :
         /\ attempt' = [attempt EXCEPT ![h] = IF Last(a, failure) THEN ended ELSE later]
         /\ sshRefused' = IF Current(a) = "ssh" /\ failure = "authentication"
                          THEN sshRefused \cup {ShortName(a.url)} ELSE sshRefused
  BY DEF Fail
<1>3. sshRefused \subseteq sshRefused'
  BY <1>2
<1>4. Justified(ended, sshRefused)
  BY <1>1 DEF Justified, Attempt
<1>5. ASSUME ~Last(a, failure) PROVE Justified(later, sshRefused')
  <2>1. Current(a) = "ssh" => ShortName(a.url) \in sshRefused'
    BY <1>2, <1>5 DEF Last, Stops
  <2>2. Justified(a, sshRefused')
    BY <1>1, <1>3, Monotone
  <2>3. /\ later.order = a.order /\ later.url = a.url /\ later.override = a.override
        /\ later.read = a.read /\ later.step = a.step /\ later.next = a.next + 1
        /\ a.next \in Nat /\ Len(a.order) \in Nat
    BY <1>1 DEF Attempt
  <2>4. ASSUME ~Fixed(a.url, a.override), NEW i \in (a.next + 1)..Len(a.order),
               a.order[i] \in Interactive
        PROVE  \/ ShortName(a.url) \in sshRefused'
               \/ \E j \in (a.next + 1)..(i - 1) : a.order[j] = "ssh"
    <3>1. SUFFICES ASSUME ShortName(a.url) \notin sshRefused'
                   PROVE  \E j \in (a.next + 1)..(i - 1) : a.order[j] = "ssh"
      OBVIOUS
    <3>2. PICK j \in a.next..(i - 1) : a.order[j] = "ssh"
      BY <2>2, <2>3, <2>4, <3>1 DEF Justified
    <3>3. j # a.next
      BY <2>1, <3>1, <3>2 DEF Current
    <3> QED
      BY <2>3, <3>2, <3>3
  <2> HIDE DEF a, later
  <2> QED
    BY <1>1, <2>2, <2>3, <2>4 DEF Justified
<1>6. \A g \in Procs : attempt'[g] = IF g = h THEN IF Last(a, failure) THEN ended ELSE later
                                     ELSE attempt[g]
  BY <1>2 DEF TypeOK
<1>7. Justified(ended, sshRefused')
  BY <1>3, <1>4, Monotone
<1>8. prefs' = prefs
  BY DEF Fail
<1> HIDE DEF a, ended, later
<1>9. ASSUME NEW g \in Procs, attempt'[g] # NoAttempt
      PROVE  Justified(attempt'[g], sshRefused')
  <2>1. CASE g = h
    BY <2>1, <1>5, <1>6, <1>7
  <2>2. CASE g # h
    BY <2>2, <1>3, <1>6, <1>9, Monotone DEF JustifiedInv
  <2> QED
    BY <2>1, <2>2
<1>10. ASSUME NEW d \in Directions PROVE Learned(prefs'[d], sshRefused')
  BY <1>3, <1>8, Monotone DEF JustifiedInv
<1> QED
  BY <1>9, <1>10 DEF JustifiedInv

\* A preference that is saved.
LEMMA SaveJustified ==
    ASSUME TypeOK, JustifiedInv, NEW h \in Procs, SetProtocolPreference(h)
    PROVE  JustifiedInv'
<1> DEFINE a == attempt[h]
<1>1. a # NoAttempt /\ a \in Attempt /\ Justified(a, sshRefused) /\ a.step = "save"
  BY CurrentType DEF SetProtocolPreference, JustifiedInv
<1>2. a.next \in 1..Len(a.order)
  BY <1>1 DEF TypeOK, Attempt
<1>3. a.next > 1 /\ ~Fixed(a.url, a.override)
  <2>1. a.next > 1 /\ (Fixed(a.url, a.override) => Len(a.order) = 1)
    BY <1>1 DEF Justified
  <2>2. a.order \in Seq(Protocols) /\ a.next \in Nat /\ a.next <= Len(a.order)
    BY <1>1 DEF TypeOK, Attempt
  <2>3. \A m, n \in Nat : m > 1 /\ m <= n => n # 1
    OBVIOUS
  <2> HIDE DEF a
  <2>4. Len(a.order) \in Nat
    BY <2>2
  <2> QED
    BY <2>1, <2>2, <2>3, <2>4
<1>4. Current(a) \in Interactive => ShortName(a.url) \in sshRefused
  BY <1>1, <1>2, <1>3 DEF Justified, Current
<1>5. Learned(Rewritten(a), sshRefused)
  <2>1. a.read \in [Names -> Protocols \cup {NoProtocol}]
    BY <1>1 DEF Attempt, Preferences
  <2>2. \A n \in Names : Rewritten(a)[n] = IF n = ShortName(a.url) THEN Current(a) ELSE a.read[n]
    BY <2>1 DEF Rewritten
  <2> HIDE DEF a
  <2> QED
    BY <1>1, <1>4, <2>2 DEF Learned, Justified
<1>6. \A d \in Directions : prefs'[d] \in {prefs[d], Rewritten(a)}
  BY DEF SetProtocolPreference, TypeOK
<1>7. \A g \in Procs : attempt'[g] \in {attempt[g], NoAttempt}
  BY DEF SetProtocolPreference, TypeOK
<1>8. sshRefused' = sshRefused
  BY DEF SetProtocolPreference
<1> QED
  BY <1>5, <1>6, <1>7, <1>8 DEF JustifiedInv

\* A password over http(s) is asked for only if the nostr url says so or the
\* server has refused ssh, whatever other processes save meanwhile.
THEOREM PasswordsJustified == Spec => []PromptsJustified
<1>1. Init => JustifiedInv
  BY ProtocolsAssumption DEF Init, JustifiedInv, Learned, NothingKnown, Interactive, Protocols
<1>2. TypeOK /\ JustifiedInv /\ [Next]_vars => JustifiedInv'
  <2> SUFFICES ASSUME TypeOK, JustifiedInv, [Next]_vars PROVE JustifiedInv'
    OBVIOUS
  <2>1. ASSUME NEW h \in Procs, ReturnError(h) PROVE JustifiedInv'
    <3>1. \A g \in Procs : attempt'[g] \in {attempt[g], NoAttempt}
      BY <2>1 DEF ReturnError, TypeOK
    <3> QED
      BY <2>1, <3>1 DEF ReturnError, JustifiedInv
  <2>2. CASE UNCHANGED vars
    BY <2>2 DEF vars, JustifiedInv
  <2> QED
    BY <2>1, <2>2, StartJustified, SucceedJustified, FailJustified, SaveJustified DEF Next
<1>3. TypeOK /\ JustifiedInv => PromptsJustified
  <2> SUFFICES ASSUME TypeOK, JustifiedInv, NEW h \in Procs, Trying(attempt[h]),
                      Current(attempt[h]) \in Interactive,
                      attempt[h].override = NoProtocol
               PROVE  ShortName(attempt[h].url) \in sshRefused
    BY DEF PromptsJustified
  <2>1. /\ attempt[h] # NoAttempt
        /\ Justified(attempt[h], sshRefused)
    BY DEF Trying, JustifiedInv
  <2>2. attempt[h].next \in 1..Len(attempt[h].order)
    BY <2>1, CurrentType DEF TypeOK, Attempt
  <2>3. CASE attempt[h].url.scheme = "filesystem"
    <3>1. attempt[h].order[1] = "filesystem" /\ Len(attempt[h].order) = 1
      BY <2>1, <2>3 DEF Justified, Fixed
    <3> QED
      BY <2>2, <3>1 DEF Current, Interactive
  <2>4. CASE attempt[h].url.scheme # "filesystem"
    BY <2>1, <2>2, <2>4 DEF Justified, Fixed, Current
  <2> QED
    BY <2>3, <2>4
<1> QED
  BY <1>1, <1>2, <1>3, TypeCorrect, PTL DEF Spec

-----------------------------------------------------------------------------
(* Only a preference for ssh hides a server that answers everybody.        *)

\* The list has a protocol without credentials that no ssh comes before.
OpenFirst(order) ==
    \E i \in 1..Len(order) : /\ order[i] \in Unauthenticated
                             /\ \A j \in 1..(i - 1) : order[j] # "ssh"

\* A list or fetch from a server that answers everybody, and that did not
\* start with ssh, has still such a protocol to try, and has not failed.
OpenAhead(a) ==
    a.open /\ a.kind # "push" /\ a.order[1] # "ssh" =>
        /\ a.step # "err"
        /\ \E i \in 1..Len(a.order) :
              /\ a.order[i] \in Unauthenticated
              /\ \A j \in 1..(i - 1) : a.order[j] # "ssh"
              /\ a.step = "try" => a.next <= i

OpenInv == \A h \in Procs : attempt[h] # NoAttempt => OpenAhead(attempt[h])

\* The protocols of a list or a fetch: if one of them needs no credentials, one
\* such comes before ssh, unless ssh is the first.
LEMMA OrderOpenFirst ==
    ASSUME TypeOK, NEW kind \in Kinds, kind # "push", NEW u \in Urls,
           NEW override \in Overrides,
           NEW i \in DOMAIN Order(kind, u, override),
           Order(kind, u, override)[i] \in Unauthenticated,
           Order(kind, u, override)[1] # "ssh"
    PROVE  OpenFirst(Order(kind, u, override))
<1> DEFINE order == Order(kind, u, override)
           base == ReadProtocols(u.scheme)
<1>1. order \in Seq(Protocols) /\ Len(order) >= 1
  BY OrderType
<1>2. CASE Fixed(u, override)
  <2>1. Len(order) = 1
    BY <1>2, OrderType
  <2> HIDE DEF order
  <2>2. i = 1
    BY <1>1, <2>1 DEF order
  <2> QED
    BY <1>1, <2>1, <2>2 DEF OpenFirst, order
<1>3. CASE ~Fixed(u, override)
  <2>1. order = Promote(base, prefs["fetch"][ShortName(u)])
    BY <1>3 DEF Order, ReadOrder, Fixed
  <2>2. base \in Seq(Protocols) /\ Len(base) >= 1
    BY DefaultLists
  <2>3. Len(order) = Len(base) /\ i \in 1..Len(base)
    BY <1>1, <2>1, <2>2, PromoteType
  <2>4. base[1] \in Unauthenticated \/ base = <<"ftp", "ssh">>
    BY DEF ReadProtocols, Unauthenticated
  <2>5. base[1] \in Unauthenticated
    <3>1. PICK j \in 1..Len(base) : order[i] = base[j]
      BY <2>1, <2>2, <2>3, PromoteMembers
    <3>2. base[j] \in Unauthenticated
      BY <3>1
    <3>3. base = <<"ftp", "ssh">> => base[j] \in {"ftp", "ssh"}
      BY <3>1
    <3> QED
      BY <2>4, <3>2, <3>3 DEF Unauthenticated
  <2>6. order[1] = base[1] \/ (Len(base) >= 2 /\ order[2] = base[1])
    BY <2>1, <2>2, PromoteMembers
  <2>7. order[1] # "ssh"
    OBVIOUS
  <2> HIDE DEF order, base
  <2>8. ASSUME order[1] = base[1] PROVE OpenFirst(order)
    <3>1. order[1] \in Unauthenticated /\ 1 \in 1..Len(order)
      BY <2>2, <2>3, <2>5, <2>8
    <3>2. \A j \in 1..(1 - 1) : order[j] # "ssh"
      OBVIOUS
    <3> QED
      BY <3>1, <3>2 DEF OpenFirst
  <2>9. ASSUME Len(base) >= 2, order[2] = base[1] PROVE OpenFirst(order)
    <3>1. \A j \in 1..(2 - 1) : order[j] # "ssh"
      BY <2>7
    <3>2. 2 \in 1..Len(order)
      BY <2>2, <2>3, <2>9
    <3>3. order[2] \in Unauthenticated
      BY <2>5, <2>9
    <3> QED
      BY <3>1, <3>2, <3>3 DEF OpenFirst
  <2> QED
    BY <2>6, <2>8, <2>9 DEF order
<1> QED
  BY <1>2, <1>3

\* An attempt that starts.
LEMMA StartOpen ==
    ASSUME TypeOK, OpenInv, NEW h \in Procs, NEW kind \in Kinds, NEW u \in Urls,
           NEW override \in Overrides, Start(h, kind, u, override)
    PROVE  OpenInv'
<1> DEFINE order == Order(kind, u, override)
<1>1. PICK open \in {FALSE} \cup {\E i \in DOMAIN order : order[i] \in Unauthenticated} :
          attempt' = [attempt EXCEPT ![h] =
              [kind |-> kind, url |-> u, override |-> override,
               order |-> order, next |-> 1, open |-> open,
               step |-> "try", read |-> NothingKnown]]
  BY DEF Start
<1> DEFINE a == [kind |-> kind, url |-> u, override |-> override,
                 order |-> order, next |-> 1, open |-> open,
                 step |-> "try", read |-> NothingKnown]
<1>2. open => \E i \in DOMAIN order : order[i] \in Unauthenticated
  BY <1>1
<1>3. open /\ kind # "push" /\ order[1] # "ssh" => OpenFirst(order)
  BY <1>2, OrderOpenFirst
<1> HIDE DEF order
<1>4. OpenAhead(a)
  <2> SUFFICES ASSUME open, kind # "push", order[1] # "ssh"
               PROVE  \E i \in 1..Len(order) :
                         /\ order[i] \in Unauthenticated
                         /\ \A j \in 1..(i - 1) : order[j] # "ssh"
                         /\ 1 <= i
    BY DEF OpenAhead
  <2>1. PICK i \in 1..Len(order) : /\ order[i] \in Unauthenticated
                                   /\ \A j \in 1..(i - 1) : order[j] # "ssh"
    BY <1>3 DEF OpenFirst
  <2>2. 1 <= i
    BY <2>1
  <2> QED
    BY <2>1, <2>2
<1>5. attempt' = [attempt EXCEPT ![h] = a]
  BY <1>1
<1>6. \A g \in Procs : attempt'[g] = IF g = h THEN a ELSE attempt[g]
  BY <1>5 DEF TypeOK
<1> HIDE DEF a
<1> QED
  BY <1>4, <1>6 DEF OpenInv

\* A protocol that works.
LEMMA SucceedOpen ==
    ASSUME TypeOK, OpenInv, NEW h \in Procs, Succeed(h)
    PROVE  OpenInv'
<1> DEFINE a == attempt[h]
           b == [a EXCEPT !.step = "save", !.read = prefs[SavedFor(a.kind)]]
<1>1. a # NoAttempt /\ a \in Attempt /\ OpenAhead(a)
  BY CurrentType DEF Succeed, Trying, OpenInv
<1>2. OpenAhead(b)
  <2>1. /\ b.open = a.open /\ b.kind = a.kind /\ b.order = a.order /\ b.step = "save"
    BY <1>1 DEF Attempt
  <2> HIDE DEF a, b
  <2> QED
    BY <1>1, <2>1 DEF OpenAhead
<1>3. \A g \in Procs : attempt'[g] = IF g = h THEN IF a.next = 1 THEN NoAttempt ELSE b
                                     ELSE attempt[g]
  BY DEF Succeed, TypeOK
<1> HIDE DEF a, b
<1> QED
  BY <1>2, <1>3 DEF OpenInv

\* A protocol that fails: not the one without credentials, nor one after it.
LEMMA FailOpen ==
    ASSUME TypeOK, OpenInv, NEW h \in Procs, Fail(h)
    PROVE  OpenInv'
<1> DEFINE a == attempt[h]
           ended == [a EXCEPT !.step = "err"]
           later == [a EXCEPT !.next = @ + 1]
<1>1. a # NoAttempt /\ a \in Attempt /\ OpenAhead(a) /\ a.step = "try"
  BY CurrentType DEF Fail, Trying, OpenInv
<1>2. PICK failure \in Outcomes(a) \cap Failures :
         attempt' = [attempt EXCEPT ![h] = IF Last(a, failure) THEN ended ELSE later]
  BY DEF Fail
<1>3. /\ a.next \in Nat /\ a.next >= 1 /\ a.next <= Len(a.order)
      /\ a.order \in Seq(Protocols) /\ Len(a.order) \in Nat
  BY <1>1 DEF TypeOK, Attempt
<1>4. ~(a.open /\ Current(a) \in Unauthenticated)
  BY <1>2 DEF Outcomes, Failures
<1>5. /\ ended.open = a.open /\ ended.kind = a.kind /\ ended.order = a.order
      /\ later.open = a.open /\ later.kind = a.kind /\ later.order = a.order
      /\ later.step = a.step /\ later.next = a.next + 1
  BY <1>1 DEF Attempt
<1>6. \A g \in Procs : attempt'[g] = IF g = h THEN IF Last(a, failure) THEN ended ELSE later
                                     ELSE attempt[g]
  BY <1>2 DEF TypeOK
<1> HIDE DEF a, ended, later
<1>7. ASSUME a.open, a.kind # "push", a.order[1] # "ssh"
      PROVE  /\ ~Last(a, failure)
             /\ OpenAhead(later)
  <2>1. PICK i \in 1..Len(a.order) : /\ a.order[i] \in Unauthenticated
                                     /\ \A j \in 1..(i - 1) : a.order[j] # "ssh"
                                     /\ a.step = "try" => a.next <= i
    BY <1>1, <1>7 DEF OpenAhead
  <2>2. a.next # i
    BY <1>4, <1>7, <2>1 DEF Current
  <2>3. a.next \in 1..(i - 1) /\ a.next + 1 <= i /\ a.next # Len(a.order)
    BY <1>1, <1>3, <2>1, <2>2
  <2>4. Current(a) # "ssh"
    BY <2>1, <2>3 DEF Current
  <2>5. ~Last(a, failure)
    BY <1>7, <2>3, <2>4 DEF Last, Stops
  <2> QED
    BY <1>1, <1>5, <2>1, <2>3, <2>5 DEF OpenAhead
<1>8. ~(a.open /\ a.kind # "push" /\ a.order[1] # "ssh")
         => OpenAhead(ended) /\ OpenAhead(later)
  BY <1>5 DEF OpenAhead
<1> QED
  BY <1>6, <1>7, <1>8 DEF OpenInv

\* For all servers, urls and preferences, and whatever is saved meanwhile: a
\* list or a fetch fails on a server that answers without credentials only if
\* it tried ssh first.
THEOREM OnlySsh == Spec => []OnlySshHides
<1>1. Init => OpenInv
  BY DEF Init, OpenInv
<1>2. TypeOK /\ OpenInv /\ [Next]_vars => OpenInv'
  <2> SUFFICES ASSUME TypeOK, OpenInv, [Next]_vars PROVE OpenInv'
    OBVIOUS
  <2>1. ASSUME NEW h \in Procs, SetProtocolPreference(h) \/ ReturnError(h) PROVE OpenInv'
    <3>1. \A g \in Procs : attempt'[g] \in {attempt[g], NoAttempt}
      BY <2>1 DEF SetProtocolPreference, ReturnError, TypeOK
    <3> QED
      BY <3>1 DEF OpenInv
  <2>2. CASE UNCHANGED vars
    BY <2>2 DEF vars, OpenInv
  <2> QED
    BY <2>1, <2>2, StartOpen, SucceedOpen, FailOpen DEF Next
<1>3. OpenInv => OnlySshHides
  BY DEF OpenInv, OpenAhead, OnlySshHides
<1> QED
  BY <1>1, <1>2, <1>3, TypeCorrect, PTL DEF Spec

-----------------------------------------------------------------------------
(* A list starts with what the last one succeeded with.                    *)

\* An operation of a process that is alone: what it has read of git config is
\* what git config has, and its protocols are those of its server.
AsConfigured(a, config) ==
    /\ a.kind = "list" => a.order = ReadOrder(a.url, a.override, config["fetch"])
    /\ a.step = "save" => a.next > 1 /\ a.read = config[SavedFor(a.kind)]

\* Processes that take turns.
OneAtATime == \A g, h \in Procs : attempt[g] # NoAttempt /\ attempt[h] # NoAttempt => g = h

TurnsInv ==
    /\ "overlap" \in Env => worked = NothingKnown
    /\ "overlap" \notin Env =>
          /\ OneAtATime
          /\ \A h \in Procs : attempt[h] # NoAttempt => AsConfigured(attempt[h], prefs)

WorkedInv == TypeOK /\ TurnsInv /\ ListsWhereItWorked

\* The protocol that is saved is one of the server's, and the next list starts
\* with it.
LEMMA SavedIsPromoted ==
    ASSUME TypeOK, NEW h \in Procs, attempt[h] # NoAttempt, attempt[h].kind = "list",
           attempt[h].next > 1, AsConfigured(attempt[h], prefs)
    PROVE  /\ ~Fixed(attempt[h].url, attempt[h].override)
           /\ Promote(ReadProtocols(attempt[h].url.scheme), Current(attempt[h]))[1]
                 = Current(attempt[h])
<1> DEFINE a == attempt[h]
           base == ReadProtocols(a.url.scheme)
<1>1. a \in Attempt /\ a.next <= Len(a.order)
  BY CurrentType DEF TypeOK
<1>2. /\ a.url \in Urls /\ a.override \in Overrides /\ a.next \in Nat
      /\ a.order \in Seq(Protocols)
  BY <1>1 DEF Attempt
<1>3. a.order = Order("list", a.url, a.override) /\ "list" \in Kinds
  BY DEF AsConfigured, Order, Kinds
<1>4. a.next > 1
  OBVIOUS
<1>5. base \in Seq(Protocols) /\ Len(base) >= 1
  BY DefaultLists
<1>6. Fixed(a.url, a.override) => Len(a.order) = 1
  BY <1>2, <1>3, OrderType
<1>7. a.order = ReadOrder(a.url, a.override, prefs["fetch"])
  BY DEF AsConfigured
<1> HIDE DEF a
<1>8. ~Fixed(a.url, a.override)
  <2>1. Len(a.order) \in Nat
    BY <1>2
  <2>2. \A m, n \in Nat : m > 1 /\ m <= n => n # 1
    OBVIOUS
  <2> QED
    BY <1>1, <1>2, <1>4, <1>6, <2>1, <2>2
<1>9. a.order = Promote(base, prefs["fetch"][ShortName(a.url)])
  BY <1>7, <1>8 DEF ReadOrder, Fixed
<1> HIDE DEF base
<1>10. Len(a.order) = Len(base)
  BY <1>5, <1>9, PromoteType
<1>11. a.next \in 1..Len(base)
  BY <1>1, <1>2, <1>4, <1>10
<1>12. \E j \in 1..Len(base) : Current(a) = base[j]
  BY <1>5, <1>9, <1>11, PromoteMembers DEF Current
<1>13. Promote(base, Current(a))[1] = Current(a)
  BY <1>5, <1>12, PromoteMembers
<1> QED
  BY <1>8, <1>13 DEF a, base

\* An operation starts.
LEMMA StartWorked ==
    ASSUME WorkedInv, NEW h \in Procs, NEW kind \in Kinds, NEW u \in Urls,
           NEW override \in Overrides, Start(h, kind, u, override)
    PROVE  TurnsInv' /\ ListsWhereItWorked'
<1>1. PICK open \in BOOLEAN : attempt' = [attempt EXCEPT ![h] =
          [kind |-> kind, url |-> u, override |-> override,
           order |-> Order(kind, u, override), next |-> 1, open |-> open,
           step |-> "try", read |-> NothingKnown]]
  BY DEF Start
<1> DEFINE a == [kind |-> kind, url |-> u, override |-> override,
                 order |-> Order(kind, u, override), next |-> 1, open |-> open,
                 step |-> "try", read |-> NothingKnown]
<1>2. attempt' = [attempt EXCEPT ![h] = a]
  BY <1>1
<1>3. prefs' = prefs /\ worked' = worked
  BY DEF Start
<1>4. AsConfigured(a, prefs')
  BY <1>3 DEF AsConfigured, Order
<1>5. \A g \in Procs : attempt'[g] = IF g = h THEN a ELSE attempt[g]
  BY <1>2 DEF WorkedInv, TypeOK
<1> HIDE DEF a
<1>6. TurnsInv'
  <2>1. "overlap" \in Env => worked' = NothingKnown'
    BY <1>3 DEF WorkedInv, TurnsInv, NothingKnown
  <2>2. ASSUME "overlap" \notin Env
        PROVE  /\ OneAtATime'
               /\ \A g \in Procs : attempt'[g] # NoAttempt => AsConfigured(attempt'[g], prefs')
    <3>1. \A g \in Procs : attempt[g] = NoAttempt
      BY <2>2 DEF Start, MayRun
    <3>2. \A g \in Procs : attempt'[g] # NoAttempt => g = h /\ attempt'[g] = a
      BY <1>5, <3>1
    <3> QED
      BY <1>4, <3>2 DEF OneAtATime
  <2> QED
    BY <2>1, <2>2 DEF TurnsInv
<1>7. ListsWhereItWorked'
  BY <1>3 DEF WorkedInv, ListsWhereItWorked, ReadOrder
<1> QED
  BY <1>6, <1>7

\* A protocol that works: it is saved, or it is the first already.
LEMMA SucceedWorked ==
    ASSUME WorkedInv, NEW h \in Procs, Succeed(h)
    PROVE  TurnsInv' /\ ListsWhereItWorked'
<1> DEFINE a == attempt[h]
           b == [a EXCEPT !.step = "save", !.read = prefs[SavedFor(a.kind)]]
<1>1. a # NoAttempt /\ a \in Attempt /\ a.step = "try"
  BY CurrentType DEF Succeed, Trying, WorkedInv
<1>2. prefs' = prefs
  BY DEF Succeed
<1>3. \A g \in Procs : attempt'[g] = IF g = h THEN IF a.next = 1 THEN NoAttempt ELSE b
                                     ELSE attempt[g]
  BY DEF Succeed, WorkedInv, TypeOK
<1>4. worked' = IF a.next = 1 /\ a.override = NoProtocol THEN Remembered(a) ELSE worked
  BY DEF Succeed
<1>5. /\ b.kind = a.kind /\ b.url = a.url /\ b.override = a.override /\ b.order = a.order
      /\ b.next = a.next /\ b.step = "save" /\ b.read = prefs[SavedFor(a.kind)]
  BY <1>1 DEF Attempt
<1>6. /\ a.next \in Nat /\ a.next >= 1 /\ a.url \in Urls
  BY <1>1 DEF Attempt
<1>7. worked \in [Names -> Protocols \cup {NoProtocol}] /\ ShortName(a.url) \in Names
  BY <1>1, CurrentType DEF WorkedInv, TypeOK, Preferences
<1>8. "overlap" \notin Env => OneAtATime /\ AsConfigured(a, prefs)
  BY <1>1 DEF WorkedInv, TurnsInv
<1> HIDE DEF a, b
<1>9. TurnsInv'
  <2>1. "overlap" \in Env => worked' = NothingKnown'
    BY <1>4 DEF WorkedInv, TurnsInv, NothingKnown, Remembered
  <2>2. ASSUME "overlap" \notin Env
        PROVE  /\ OneAtATime'
               /\ \A g \in Procs : attempt'[g] # NoAttempt => AsConfigured(attempt'[g], prefs')
    <3>1. \A g \in Procs : g # h => attempt[g] = NoAttempt
      BY <1>1, <1>8, <2>2 DEF OneAtATime, a
    <3>2. \A g \in Procs : attempt'[g] # NoAttempt => g = h /\ attempt'[g] = b /\ a.next # 1
      BY <1>3, <3>1
    <3>3. a.next # 1 => AsConfigured(b, prefs')
      BY <1>2, <1>5, <1>6, <1>8, <2>2 DEF AsConfigured
    <3> QED
      BY <3>2, <3>3 DEF OneAtATime
  <2> QED
    BY <2>1, <2>2 DEF TurnsInv
<1>10. ListsWhereItWorked'
  <2> SUFFICES ASSUME NEW u \in Urls, worked'[ShortName(u)] # NoProtocol,
                      \A v \in Urls : ShortName(v) = ShortName(u) => v = u
               PROVE  ReadOrder(u, NoProtocol, prefs["fetch"])[1] = worked'[ShortName(u)]
    BY <1>2 DEF ListsWhereItWorked, ReadOrder
  <2>1. CASE worked'[ShortName(u)] = worked[ShortName(u)]
    BY <2>1 DEF WorkedInv, ListsWhereItWorked
  <2>2. CASE worked'[ShortName(u)] # worked[ShortName(u)]
    <3>1. /\ a.next = 1 /\ a.override = NoProtocol /\ a.kind = "list"
          /\ "overlap" \notin Env
          /\ worked' = [worked EXCEPT ![ShortName(a.url)] = Current(a)]
      BY <1>4, <2>2 DEF Remembered
    <3>2. ShortName(u) = ShortName(a.url) /\ worked'[ShortName(u)] = Current(a)
      BY <1>7, <2>2, <3>1
    <3>3. u = a.url
      BY <1>6, <3>2
    <3>4. a.order = ReadOrder(u, NoProtocol, prefs["fetch"])
      BY <1>8, <3>1, <3>3 DEF AsConfigured
    <3> QED
      BY <3>1, <3>2, <3>4 DEF Current
  <2> QED
    BY <2>1, <2>2
<1> QED
  BY <1>9, <1>10

\* A protocol that fails, or an error that is returned.
LEMMA FailWorked ==
    ASSUME WorkedInv, NEW h \in Procs, Fail(h) \/ ReturnError(h)
    PROVE  TurnsInv' /\ ListsWhereItWorked'
<1> DEFINE a == attempt[h]
           ended == [a EXCEPT !.step = "err"]
           later == [a EXCEPT !.next = @ + 1]
<1>1. a # NoAttempt /\ a \in Attempt /\ (Fail(h) => a.step = "try")
  BY CurrentType DEF Fail, ReturnError, Trying, WorkedInv
<1>2. prefs' = prefs /\ worked' = worked
  BY DEF Fail, ReturnError
<1>3. \A g \in Procs : attempt'[g] = attempt[g] \/ (g = h /\ attempt'[h] \in {NoAttempt, ended})
                         \/ (g = h /\ attempt'[h] = later /\ Fail(h))
  BY DEF Fail, ReturnError, WorkedInv, TypeOK
<1>4. /\ ended.kind = a.kind /\ ended.url = a.url /\ ended.override = a.override
      /\ ended.order = a.order /\ ended.step = "err"
      /\ later.kind = a.kind /\ later.url = a.url /\ later.override = a.override
      /\ later.order = a.order /\ later.step = a.step
  BY <1>1 DEF Attempt
<1>5. "overlap" \notin Env => OneAtATime /\ AsConfigured(a, prefs)
  BY <1>1 DEF WorkedInv, TurnsInv
<1>6. /\ AsConfigured(a, prefs) => AsConfigured(ended, prefs)
      /\ AsConfigured(a, prefs) /\ Fail(h) => AsConfigured(later, prefs)
  <2> HIDE DEF a, ended, later
  <2> QED
    BY <1>1, <1>4 DEF AsConfigured
<1>7. TurnsInv'
  <2>1. "overlap" \in Env => worked' = NothingKnown'
    BY <1>2 DEF WorkedInv, TurnsInv, NothingKnown
  <2>2. ASSUME "overlap" \notin Env
        PROVE  /\ OneAtATime'
               /\ \A g \in Procs : attempt'[g] # NoAttempt => AsConfigured(attempt'[g], prefs')
    <3>1. \A g \in Procs : g # h => attempt[g] = NoAttempt
      BY <1>1, <1>5, <2>2 DEF OneAtATime
    <3> HIDE DEF ended, later
    <3>2. \A g \in Procs : attempt'[g] # NoAttempt => g = h
      BY <1>3, <3>1
    <3>3. attempt'[h] # NoAttempt => AsConfigured(attempt'[h], prefs)
      BY <1>3, <1>5, <1>6, <2>2
    <3> QED
      BY <1>2, <3>2, <3>3 DEF OneAtATime
  <2> QED
    BY <2>1, <2>2 DEF TurnsInv
<1>8. ListsWhereItWorked'
  BY <1>2 DEF WorkedInv, ListsWhereItWorked, ReadOrder
<1> QED
  BY <1>7, <1>8

\* A protocol is saved, or git config is locked.
LEMMA SaveWorked ==
    ASSUME WorkedInv, NEW h \in Procs, SetProtocolPreference(h)
    PROVE  TurnsInv' /\ ListsWhereItWorked'
<1> DEFINE a == attempt[h]
<1>1. a # NoAttempt /\ a \in Attempt /\ a.step = "save"
  BY CurrentType DEF SetProtocolPreference, WorkedInv
<1>2. /\ a.url \in Urls /\ ShortName(a.url) \in Names /\ a.kind \in Kinds
      /\ Current(a) \in Protocols
  BY <1>1, CurrentType DEF WorkedInv, Attempt
<1>3. "overlap" \notin Env => OneAtATime /\ AsConfigured(a, prefs)
  BY <1>1 DEF WorkedInv, TurnsInv
<1>4. \A g \in Procs : attempt'[g] = IF g = h THEN NoAttempt ELSE attempt[g]
  BY DEF SetProtocolPreference, WorkedInv, TypeOK
<1>5. /\ worked' \in {worked, Remembered(a)}
      /\ \/ prefs' = prefs /\ worked' = worked
         \/ /\ prefs' = [prefs EXCEPT ![SavedFor(a.kind)] = Rewritten(a)]
            /\ worked' = Remembered(a)
  BY DEF SetProtocolPreference
<1>6. worked \in [Names -> Protocols \cup {NoProtocol}]
  BY DEF WorkedInv, TypeOK, Preferences
<1>7. prefs \in [{"fetch", "push"} -> [Names -> Protocols \cup {NoProtocol}]]
  BY DEF WorkedInv, TypeOK, Preferences, Directions
<1>8. "overlap" \notin Env /\ a.kind = "list" =>
          /\ ~Fixed(a.url, a.override)
          /\ Promote(ReadProtocols(a.url.scheme), Current(a))[1] = Current(a)
  <2> SUFFICES ASSUME "overlap" \notin Env, attempt[h].kind = "list"
               PROVE  /\ ~Fixed(attempt[h].url, attempt[h].override)
                      /\ Promote(ReadProtocols(attempt[h].url.scheme), Current(attempt[h]))[1]
                            = Current(attempt[h])
    OBVIOUS
  <2>1. attempt[h].next > 1 /\ AsConfigured(attempt[h], prefs)
    BY <1>1, <1>3 DEF AsConfigured
  <2> QED
    BY <1>1, <2>1, SavedIsPromoted DEF WorkedInv
<1> HIDE DEF a
<1>9. TurnsInv'
  <2>1. "overlap" \in Env => worked' = NothingKnown'
    BY <1>5 DEF WorkedInv, TurnsInv, NothingKnown, Remembered
  <2>2. ASSUME "overlap" \notin Env PROVE \A g \in Procs : attempt'[g] = NoAttempt
    BY <1>1, <1>3, <1>4, <2>2 DEF OneAtATime, a
  <2> QED
    BY <2>1, <2>2 DEF TurnsInv, OneAtATime
<1>10. ListsWhereItWorked'
  <2> SUFFICES ASSUME NEW u \in Urls, worked'[ShortName(u)] # NoProtocol,
                      \A v \in Urls : ShortName(v) = ShortName(u) => v = u
               PROVE  ReadOrder(u, NoProtocol, prefs'["fetch"])[1] = worked'[ShortName(u)]
    BY DEF ListsWhereItWorked, ReadOrder
  <2>1. ASSUME prefs'["fetch"][ShortName(u)] = prefs["fetch"][ShortName(u)],
               worked'[ShortName(u)] = worked[ShortName(u)]
        PROVE  ReadOrder(u, NoProtocol, prefs'["fetch"])[1] = worked'[ShortName(u)]
    <3>1. ReadOrder(u, NoProtocol, prefs'["fetch"]) = ReadOrder(u, NoProtocol, prefs["fetch"])
      BY <2>1 DEF ReadOrder
    <3> QED
      BY <2>1, <3>1 DEF WorkedInv, ListsWhereItWorked
  <2>2. CASE "overlap" \in Env
    BY <1>9, <2>2 DEF TurnsInv, NothingKnown, Names
  <2>3. CASE "overlap" \notin Env /\ a.kind # "list"
    <3>1. worked' = worked /\ prefs'["fetch"] = prefs["fetch"]
      BY <1>5, <1>7, <2>3 DEF Remembered, SavedFor
    <3> QED
      BY <2>1, <3>1
  <2>4. CASE prefs' = prefs /\ worked' = worked
    BY <2>1, <2>4
  <2>5. CASE /\ "overlap" \notin Env /\ a.kind = "list"
             /\ prefs' = [prefs EXCEPT !["fetch"] = Rewritten(a)]
             /\ worked' = [worked EXCEPT ![ShortName(a.url)] = Current(a)]
    <3>1. a.read = prefs["fetch"]
      BY <1>1, <1>3, <2>5 DEF AsConfigured, SavedFor
    <3>2. prefs'["fetch"] = [prefs["fetch"] EXCEPT ![ShortName(a.url)] = Current(a)]
      BY <1>7, <2>5, <3>1 DEF Rewritten
    <3>3. CASE ShortName(u) # ShortName(a.url)
      <4>1. prefs'["fetch"][ShortName(u)] = prefs["fetch"][ShortName(u)]
        BY <1>7, <3>2, <3>3 DEF Names
      <4>2. worked'[ShortName(u)] = worked[ShortName(u)]
        BY <1>6, <2>5, <3>3 DEF Names
      <4> QED
        BY <2>1, <4>1, <4>2
    <3>4. CASE ShortName(u) = ShortName(a.url)
      <4>1. u = a.url
        BY <1>2, <3>4
      <4>2. prefs'["fetch"][ShortName(u)] = Current(a)
        BY <1>2, <1>7, <3>2, <3>4
      <4>3. worked'[ShortName(u)] = Current(a)
        BY <1>2, <1>6, <2>5, <3>4
      <4>4. ReadOrder(u, NoProtocol, prefs'["fetch"])
               = Promote(ReadProtocols(u.scheme), Current(a))
        BY <1>8, <2>5, <4>1, <4>2 DEF ReadOrder, Fixed
      <4> QED
        BY <1>8, <2>5, <4>1, <4>3, <4>4
    <3> QED
      BY <3>3, <3>4
  <2> QED
    BY <1>5, <2>2, <2>3, <2>4, <2>5 DEF Remembered, SavedFor
<1> QED
  BY <1>9, <1>10

\* While processes do not overlap, and whether or not git config can be
\* written, a list first tries what the last list of its server succeeded with
\* and saved, whatever pushes and fetches there were since.
THEOREM ListsRemember == Spec => []ListsWhereItWorked
<1>1. Init => TurnsInv /\ ListsWhereItWorked
  BY DEF Init, TurnsInv, OneAtATime, ListsWhereItWorked, NothingKnown, Names
<1>2. WorkedInv /\ [Next]_vars => TurnsInv' /\ ListsWhereItWorked'
  <2> SUFFICES ASSUME WorkedInv, [Next]_vars PROVE TurnsInv' /\ ListsWhereItWorked'
    OBVIOUS
  <2>1. CASE UNCHANGED vars
    BY <2>1 DEF vars, WorkedInv, TurnsInv, OneAtATime, AsConfigured, ListsWhereItWorked,
                ReadOrder, NothingKnown
  <2> QED
    BY <2>1, StartWorked, SucceedWorked, FailWorked, SaveWorked DEF Next
<1> QED
  BY <1>1, <1>2, TypeCorrect, PTL DEF Spec, WorkedInv
=============================================================================
