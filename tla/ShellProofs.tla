----------------------------- MODULE ShellProofs -----------------------------
(***************************************************************************)
(* Type correctness of Shell, the soundness of the history's links, that   *)
(* ENTER runs what is seen and that the history keeps the commands that    *)
(* were run, for every heap, every HOIS_SIZE, every set of commands and    *)
(* every length of str.                                                    *)
(***************************************************************************)
EXTENDS Shell, WellFoundedInduction, TLAPS

\* RingOK for any links and any set of nodes.
Ring(a, b, L) ==
  \A n \in L : a[n] \in L /\ b[a[n]] = n /\ b[n] \in L /\ a[b[n]] = n

IInv == TypeOK /\ RingOK

USE HeapAssumption, HoisAssumption, NamesAssumption, LettersAssumption, SizeAssumption
    DEF HeapAssumption, HoisAssumption, NamesAssumption, LettersAssumption, SizeAssumption

-----------------------------------------------------------------------------
(* The ring.                                                               *)

\* install_head links a fresh node between the head and its neighbour.
LEMMA LinkKeepsRing ==
  ASSUME live \subseteq Blocks, HeadNode \in live,
         after \in [Blocks -> Blocks], before \in [Blocks -> Blocks],
         RingOK, NEW node \in Blocks \ live
  PROVE  /\ LinkedAfter(node) \in [Blocks -> Blocks]
         /\ LinkedBefore(node) \in [Blocks -> Blocks]
         /\ Ring(LinkedAfter(node), LinkedBefore(node), live \cup {node})
<1> DEFINE A == LinkedAfter(node)
           B == LinkedBefore(node)
           next == after[HeadNode]
<1>1. next \in live /\ next \in Blocks /\ before[next] = HeadNode
  BY DEF RingOK
<1>2. A \in [Blocks -> Blocks] /\ B \in [Blocks -> Blocks]
  BY <1>1 DEF LinkedAfter, LinkedBefore
<1>3. /\ A[node] = next /\ A[HeadNode] = node
      /\ \A n \in live \ {HeadNode} : A[n] = after[n]
  BY <1>1 DEF LinkedAfter
<1>4. /\ B[node] = HeadNode /\ B[next] = node
      /\ \A n \in live \ {next} : B[n] = before[n]
  BY <1>1 DEF LinkedBefore
<1> HIDE DEF A, B, next
<1>5. ASSUME NEW n \in live
      PROVE  A[n] \in live \cup {node} /\ B[A[n]] = n
  <2>1. CASE n = HeadNode
    BY <1>3, <1>4, <2>1
  <2>2. CASE n # HeadNode
    <3>1. A[n] = after[n] /\ after[n] \in live /\ before[after[n]] = n
      BY <1>3, <2>2 DEF RingOK
    <3>2. after[n] # next
      BY <1>1, <2>2, <3>1
    <3> QED BY <1>4, <3>1, <3>2
  <2> QED BY <2>1, <2>2
<1>6. ASSUME NEW n \in live
      PROVE  B[n] \in live \cup {node} /\ A[B[n]] = n
  <2>1. CASE n = next
    BY <1>3, <1>4, <2>1
  <2>2. CASE n # next
    <3>1. B[n] = before[n] /\ before[n] \in live /\ after[before[n]] = n
      BY <1>4, <2>2 DEF RingOK
    <3>2. before[n] # HeadNode
      BY <2>2, <3>1 DEF next
    <3> QED BY <1>3, <3>1, <3>2
  <2> QED BY <2>1, <2>2
<1>7. A[node] \in live /\ B[A[node]] = node /\ B[node] \in live /\ A[B[node]] = node
  BY <1>1, <1>3, <1>4
<1>8. Ring(A, B, live \cup {node})
  BY <1>5, <1>6, <1>7 DEF Ring
<1> QED BY <1>2, <1>8 DEF A, B

\* deleter_end takes the last node out of a ring, and leaves a ring.
LEMMA CutKeepsRing ==
  ASSUME NEW a \in [Blocks -> Blocks], NEW b \in [Blocks -> Blocks],
         NEW L \in SUBSET Blocks, HeadNode \in L, Ring(a, b, L), ~Few(a, b)
  PROVE  /\ CutAfter(a, b) \in [Blocks -> Blocks]
         /\ CutBefore(a, b) \in [Blocks -> Blocks]
         /\ HeadNode \in L \ {Oldest(a, b)}
         /\ Ring(CutAfter(a, b), CutBefore(a, b), L \ {Oldest(a, b)})
<1> DEFINE last == b[HeadNode]
           prev == b[last]
           A == CutAfter(a, b)
           B == CutBefore(a, b)
<1>1. last \in L /\ a[last] = HeadNode /\ prev \in L /\ a[prev] = last
  BY DEF Ring
<1>2. last # HeadNode
  <2>1. last = HeadNode => a[HeadNode] = b[HeadNode]
    BY <1>1
  <2> QED BY <2>1 DEF Few
<1>3. prev # last
  BY <1>1, <1>2
<1>4. A \in [Blocks -> Blocks] /\ B \in [Blocks -> Blocks]
  BY <1>1 DEF CutAfter, CutBefore, Oldest
<1>5. A[prev] = HeadNode /\ \A n \in L \ {prev} : A[n] = a[n]
  BY <1>1 DEF CutAfter, Oldest
<1>6. B[HeadNode] = prev /\ \A n \in L \ {HeadNode} : B[n] = b[n]
  BY <1>1 DEF CutBefore, Oldest
<1> DEFINE M == L \ {last}
<1>7. prev \in M /\ HeadNode \in M
  BY <1>1, <1>2, <1>3
<1>8. \A n \in L : a[n] \in L /\ b[a[n]] = n /\ b[n] \in L /\ a[b[n]] = n
  BY DEF Ring
<1> HIDE DEF A, B, last, prev
<1>9. ASSUME NEW n \in M PROVE A[n] \in M /\ B[A[n]] = n
  <2>1. CASE n = prev
    BY <1>5, <1>6, <1>7, <2>1
  <2>2. CASE n # prev
    <3>1. A[n] = a[n] /\ a[n] \in L /\ b[a[n]] = n
      BY <1>5, <1>8, <2>2
    <3>2. a[n] # last
      BY <2>2, <3>1 DEF prev
    <3>3. a[n] # HeadNode
      BY <3>1 DEF last
    <3> QED BY <1>6, <3>1, <3>2, <3>3
  <2> QED BY <2>1, <2>2
<1>10. ASSUME NEW n \in M PROVE B[n] \in M /\ A[B[n]] = n
  <2>1. CASE n = HeadNode
    BY <1>5, <1>6, <1>7, <2>1
  <2>2. CASE n # HeadNode
    <3>1. B[n] = b[n] /\ b[n] \in L /\ a[b[n]] = n
      BY <1>6, <1>8, <2>2
    <3>2. b[n] # last
      BY <1>1, <2>2, <3>1
    <3>3. b[n] # prev
      BY <1>1, <3>1
    <3> QED BY <1>5, <3>1, <3>2, <3>3
  <2> QED BY <2>1, <2>2
<1>11. Ring(A, B, M)
  BY <1>9, <1>10 DEF Ring
<1> QED BY <1>4, <1>7, <1>11 DEF A, B, M, last, Oldest

LEMMA InstallKeeps ==
  ASSUME IInv, NEW entry \in Entries, install_head(entry)
  PROVE  /\ live' \subseteq Blocks /\ HeadNode \in live'
         /\ after' \in [Blocks -> Blocks] /\ before' \in [Blocks -> Blocks]
         /\ command' \in [Blocks -> Entries] /\ tatol' \in Nat
         /\ RingOK'
<1> USE DEF IInv, TypeOK
<1>1. PICK node \in Blocks \ live :
        /\ command' = [command EXCEPT ![node] = entry]
        /\ tatol' = tatol + 1
        /\ IF tatol' = HOIS_SIZE
           THEN deleter_end(LinkedAfter(node), LinkedBefore(node), node)
           ELSE /\ after' = LinkedAfter(node) /\ before' = LinkedBefore(node)
                /\ live' = live \cup {node}
  BY DEF install_head
<1> DEFINE A == LinkedAfter(node)
           B == LinkedBefore(node)
           L == live \cup {node}
<1>2. A \in [Blocks -> Blocks] /\ B \in [Blocks -> Blocks] /\ Ring(A, B, L)
  BY LinkKeepsRing
<1>3. L \in SUBSET Blocks /\ HeadNode \in L
  OBVIOUS
<1>4. command' \in [Blocks -> Entries] /\ tatol' \in Nat
  BY <1>1
<1> HIDE DEF A, B, L
<1>5. \/ after' = A /\ before' = B /\ live' = L
      \/ /\ ~Few(A, B)
         /\ after' = CutAfter(A, B) /\ before' = CutBefore(A, B)
         /\ live' = L \ {Oldest(A, B)}
  BY <1>1 DEF deleter_end, A, B, L
<1>6. CASE after' = A /\ before' = B /\ live' = L
  BY <1>2, <1>3, <1>4, <1>6 DEF RingOK, Ring
<1>7. CASE /\ ~Few(A, B)
           /\ after' = CutAfter(A, B) /\ before' = CutBefore(A, B)
           /\ live' = L \ {Oldest(A, B)}
  <2>1. /\ CutAfter(A, B) \in [Blocks -> Blocks]
        /\ CutBefore(A, B) \in [Blocks -> Blocks]
        /\ HeadNode \in L \ {Oldest(A, B)}
        /\ Ring(CutAfter(A, B), CutBefore(A, B), L \ {Oldest(A, B)})
    BY <1>2, <1>3, <1>7, CutKeepsRing
  <2> QED BY <1>3, <1>4, <1>7, <2>1 DEF RingOK, Ring
<1> QED BY <1>5, <1>6, <1>7

-----------------------------------------------------------------------------
(* The editor.  Its steps leave the history alone, but ENTER and the reset. *)

Editor ==
  /\ str \in [0 .. SIZE - 1 -> Letters]
  /\ i \in 0 .. SIZE /\ flag \in BOOLEAN /\ lost \in BOOLEAN /\ nul \in BOOLEAN
  /\ typed \in Seq(Letters) /\ log \in Seq(Entries)

Links ==
  /\ live \subseteq Blocks /\ HeadNode \in live
  /\ after \in [Blocks -> Blocks] /\ before \in [Blocks -> Blocks]
  /\ command \in [Blocks -> Entries] /\ tatol \in Nat
  /\ RingOK

LEMMA Parts == (IInv <=> Links /\ Editor) /\ (IInv' <=> Links' /\ Editor')
  BY DEF IInv, TypeOK, Links, Editor

LEMMA ZerosType == Zeros \in [0 .. SIZE - 1 -> Letters]
  BY DEF Zeros

LEMMA InitInv == Init => IInv
<1> SUFFICES ASSUME Init PROVE IInv
  OBVIOUS
<1>1. Links
  BY DEF Init, HistoryInit, Links, RingOK
<1>2. << >> \in Seq(Letters) /\ << >> \in Seq(Entries)
  OBVIOUS
<1>3. str \in [0 .. SIZE - 1 -> Letters] /\ i \in 0 .. SIZE
  BY ZerosType DEF Init
<1>4. Editor
  BY <1>2, <1>3 DEF Init, Editor
<1> QED BY <1>1, <1>4, Parts

LEMMA UnchangedLinks == ASSUME Links, UNCHANGED history PROVE Links'
  BY DEF Links, RingOK, history

LEMMA CharKeeps == ASSUME Editor, NEW c \in Letters, Char(c) PROVE Editor'
<1>1. Append(typed, c) \in Seq(Letters)
  BY DEF Editor
<1>2. typed' \in Seq(Letters) /\ nul' \in BOOLEAN
  <2>1. << >> \in Seq(Letters)
    OBVIOUS
  <2>2. typed' \in {<< >>, Append(typed, c)}
    BY DEF Char, Edited
  <2>3. nul' \in BOOLEAN
    <3>1. nul' = (nul \/ c = NUL) /\ nul \in BOOLEAN
      BY DEF Char, Editor
    <3> QED BY <3>1, Zenon
  <2> QED BY <1>1, <2>1, <2>2, <2>3
<1>3. i < SIZE
  BY DEF Char, Room, Editor
<1>4. [str EXCEPT ![i] = c] \in [0 .. SIZE - 1 -> Letters]
  BY <1>3 DEF Editor
<1> DEFINE now == [str EXCEPT ![i] = c]
<1>5. (str' = Zeros /\ i' = 0) \/ (str' = now /\ i' = i + 1)
  <2>1. IF Arrow(now) THEN str' = Zeros /\ i' = 0 ELSE str' = now /\ i' = i + 1
    BY DEF Char
  <2> HIDE DEF now
  <2> QED BY <2>1
<1>6. str' \in [0 .. SIZE - 1 -> Letters] /\ i' \in 0 .. SIZE
  <2>1. now \in [0 .. SIZE - 1 -> Letters]
    BY <1>4
  <2> HIDE DEF now
  <2>2. str' \in [0 .. SIZE - 1 -> Letters]
    BY <1>5, <2>1, ZerosType
  <2>3. i \in Nat /\ SIZE \in Nat
    BY SizeAssumption DEF Editor
  <2>4. i' \in 0 .. SIZE
    BY <1>3, <1>5, <2>3
  <2> QED BY <2>2, <2>4
<1>7. UNCHANGED <<flag, lost, log>>
  BY DEF Char
<1>8. flag' \in BOOLEAN /\ lost' \in BOOLEAN /\ log' \in Seq(Entries)
  BY <1>7 DEF Editor
<1> QED BY <1>2, <1>6, <1>8, Zenon DEF Editor

LEMMA TabKeeps == ASSUME Editor, Tab PROVE Editor'
<1>1. typed' \in Seq(Letters)
  <2>1. << >> \in Seq(Letters) /\ \A name \in Names : name \in Seq(Letters)
    OBVIOUS
  <2>2. typed' = << >> \/ typed' = typed \/ typed' \in Names
    BY DEF Tab, Completed
  <2> QED BY <2>1, <2>2 DEF Editor
<1>2. str' \in [0 .. SIZE - 1 -> Letters] /\ i' \in 0 .. SIZE
  <2>1. CASE \A name \in Names : Matching # {name}
    BY <2>1 DEF Tab, Editor
  <2>2. ASSUME NEW name \in Names, Matching = {name}
        PROVE  str' \in [0 .. SIZE - 1 -> Letters] /\ i' \in 0 .. SIZE
    <3>1. PICK n \in Names :
            /\ Matching = {n} /\ i' = Len(n)
            /\ str' = [k \in 0 .. SIZE - 1 |->
                         IF k < Len(n) THEN n[k + 1] ELSE IF k = i THEN NUL ELSE str[k]]
      BY <2>2 DEF Tab
    <3>2. n \in Seq(Letters) /\ Len(n) \in Nat /\ Len(n) < SIZE
      OBVIOUS
    <3>3. \A k \in 0 .. SIZE - 1 : k < Len(n) => n[k + 1] \in Letters
      BY <3>2
    <3>4. \A k \in 0 .. SIZE - 1 : str[k] \in Letters
      BY DEF Editor
    <3>5. str' \in [0 .. SIZE - 1 -> Letters]
      BY <3>1, <3>3, <3>4
    <3> QED BY <3>1, <3>2, <3>5
  <2> QED BY <2>1, <2>2
<1> QED BY <1>1, <1>2 DEF Tab, Editor

LEMMA BackspaceKeeps == ASSUME Editor, Backspace PROVE Editor'
<1>1. typed' \in Seq(Letters)
  <2>1. Len(typed) \in Nat /\ Len(typed) - 1 \in Int
    BY DEF Editor
  <2>2. \A k \in 1 .. Len(typed) - 1 : typed[k] \in Letters
    BY <2>1 DEF Editor
  <2>3. SubSeq(typed, 1, Len(typed) - 1) \in Seq(Letters)
    BY <2>1, <2>2 DEF Editor
  <2> QED BY <2>3 DEF Backspace
<1>2. str' \in [0 .. SIZE - 1 -> Letters] /\ i' \in 0 .. SIZE
  BY DEF Backspace, Erasable, Editor
<1> QED BY <1>1, <1>2 DEF Backspace, Editor

LEMMA EnterKeeps == ASSUME IInv, Enter PROVE IInv'
<1>1. Editor /\ Links
  BY Parts
<1>2. \/ \E name \in Entered : Run(name)
      \/ NotFound
  BY DEF Enter
<1>3. flag' \in BOOLEAN
  BY <1>1, <1>2, Zenon DEF Run, NotFound, Left, Editor
<1>4. Links'
  <2>1. CASE \E name \in Entered : Run(name)
    <3>1. PICK name \in Names : Run(name)
      BY <2>1 DEF Entered
    <3>2. name \in Entries /\ install_head(name)
      BY <3>1 DEF Run
    <3> QED BY <3>2, InstallKeeps DEF Links
  <2>2. CASE NotFound
    <3>1. Stray \in Entries
      OBVIOUS
    <3>2. UNCHANGED history \/ install_head(Stray)
      BY <2>2 DEF NotFound
    <3> QED BY <1>1, <3>1, <3>2, InstallKeeps, UnchangedLinks DEF Links
  <2> QED BY <1>2, <2>1, <2>2
<1>5. str' \in [0 .. SIZE - 1 -> Letters]
  BY <1>1, ZerosType DEF Enter, Editor
<1>6. log' \in Seq(Entries)
  <2>1. \A name \in Entered : name \in Entries
    BY DEF Entered
  <2>2. \E entry \in Entries : log' = Append(log, entry)
    BY <1>2, <2>1, Zenon DEF Run, NotFound, NamesAssumption
  <2> QED BY <1>1, <2>2 DEF Editor
<1>8. nul' \in BOOLEAN
  <2>1. nul' = (nul /\ i = 0) /\ nul \in BOOLEAN
    BY <1>1 DEF Enter, Editor
  <2> QED BY <2>1, Zenon
<1>7. Editor'
  BY <1>1, <1>3, <1>5, <1>6, <1>8 DEF Enter, Editor
<1> QED BY <1>4, <1>7, Parts

LEMMA RebootKeeps == ASSUME IInv, Reboot PROVE IInv'
<1>1. Editor /\ Links
  BY Parts
<1>2. Links'
  BY <1>1 DEF Reboot, Links, RingOK
<1>3. << >> \in Seq(Letters) /\ << >> \in Seq(Entries)
  OBVIOUS
<1>4. str' \in [0 .. SIZE - 1 -> Letters] /\ i' \in 0 .. SIZE
  BY ZerosType DEF Reboot
<1>5. Editor'
  BY <1>1, <1>3, <1>4 DEF Reboot, Editor
<1> QED BY <1>2, <1>5, Parts

LEMMA NextKeeps == IInv /\ [Next]_vars => IInv'
<1> SUFFICES ASSUME IInv, [Next]_vars PROVE IInv'
  OBVIOUS
<1>1. Editor /\ Links
  BY Parts
<1>2. CASE \E c \in Letters : Char(c)
  <2>1. UNCHANGED history
    BY <1>2 DEF Char
  <2> QED BY <1>1, <1>2, <2>1, CharKeeps, UnchangedLinks, Parts
<1>3. CASE Tab
  <2>1. UNCHANGED history
    BY <1>3 DEF Tab
  <2> QED BY <1>1, <1>3, <2>1, TabKeeps, UnchangedLinks, Parts
<1>4. CASE Backspace
  <2>1. UNCHANGED history
    BY <1>4 DEF Backspace
  <2> QED BY <1>1, <1>4, <2>1, BackspaceKeeps, UnchangedLinks, Parts
<1>5. CASE Lost
  <2>1. UNCHANGED history /\ Editor'
    BY <1>1, <1>5 DEF Lost, Editor
  <2> QED BY <1>1, <2>1, UnchangedLinks, Parts
<1>6. CASE UNCHANGED vars
  <2>1. UNCHANGED history /\ Editor'
    BY <1>1, <1>6 DEF vars, Editor
  <2> QED BY <1>1, <2>1, UnchangedLinks, Parts
<1> QED BY <1>2, <1>3, <1>4, <1>5, <1>6, EnterKeeps, RebootKeeps DEF Next

LEMMA Invariance == Spec => []IInv
  BY InitInv, NextKeeps, PTL DEF Spec

\* The index stays inside str, and the links inside the heap.
THEOREM TypeCorrect == Spec => []TypeOK
<1>1. IInv => TypeOK
  BY DEF IInv
<1> QED BY Invariance, <1>1, PTL

\* However many lines are entered, no link of the history leads to a freed node
\* and its two directions agree.
THEOREM LinksAreSound == Spec => []RingOK
<1>1. IInv => RingOK
  BY DEF IInv
<1> QED BY Invariance, <1>1, PTL

-----------------------------------------------------------------------------
(* The line that is edited is the one its user sees.                       *)

Seen ==
  /\ Len(typed) = i
  /\ \A k \in 1 .. i : typed[k] = str[k - 1] /\ typed[k] # NUL
  /\ \A k \in i .. SIZE - 1 : str[k] = NUL

LEMMA NothingTyped ==
  ASSUME i' = 0, typed' = << >>, \A k \in 0 .. SIZE - 1 : str'[k] = NUL
  PROVE  Seen'
  BY DEF Seen

LEMMA CharSeen ==
  ASSUME Editor, Seen, NEW c \in Letters, Char(c), ~nul' PROVE Seen'
<1> DEFINE now == [str EXCEPT ![i] = c]
           s == Append(typed, c)
<1>1. i \in Nat /\ i < SIZE /\ c # NUL
  <2>1. i \in Nat /\ i < SIZE
    BY DEF Char, Room, Editor
  <2>2. nul' = (nul \/ c = NUL)
    BY DEF Char
  <2>3. c # NUL
    BY <2>2, Zenon
  <2> QED BY <2>1, <2>3
<1>2. /\ now[i] = c /\ DOMAIN now = 0 .. SIZE - 1
      /\ \A k \in 0 .. SIZE - 1 : k # i => now[k] = str[k]
  BY <1>1 DEF Editor
<1>3. /\ Len(s) = i + 1 /\ s[i + 1] = c
      /\ \A k \in 1 .. i : s[k] = typed[k]
  BY DEF Seen, Editor
<1>4. /\ IF Arrow(now) THEN str' = Zeros /\ i' = 0 ELSE str' = now /\ i' = i + 1
      /\ typed' = Edited(s)
  <2>1. ~nul'
    OBVIOUS
  <2> QED BY <2>1 DEF Char
<1> HIDE DEF now, s
<1>5. ASSUME NEW k \in 1 .. i + 1 PROVE s[k] = now[k - 1] /\ s[k] # NUL
  <2>1. CASE k = i + 1
    BY <1>1, <1>2, <1>3, <2>1
  <2>2. CASE k \in 1 .. i
    <3>1. s[k] = str[k - 1] /\ s[k] # NUL /\ k - 1 \in 0 .. SIZE - 1 /\ k - 1 # i
      BY <1>1, <1>3, <2>2 DEF Seen
    <3> QED BY <1>2, <3>1
  <2> QED BY <1>1, <2>1, <2>2
<1>6. \A k \in i + 1 .. SIZE - 1 : now[k] = NUL
  BY <1>1, <1>2 DEF Seen
<1>7. Arrow(now) <=> (Len(s) > 2 /\ \E m \in 1 .. Len(s) - 1 : s[m] = ESC /\ s[m + 1] = Bracket)
  <2>1. ASSUME NEW m \in 0 .. i, m < SIZE - 1, now[m] = ESC, now[m + 1] = Bracket
        PROVE  m + 1 \in 1 .. Len(s) - 1 /\ s[m + 1] = ESC /\ s[m + 2] = Bracket
    <3>1. m # i
      BY <1>1, <1>6, <2>1
    <3> QED BY <1>1, <1>3, <1>5, <2>1, <3>1
  <2>2. ASSUME NEW m \in 1 .. Len(s) - 1, s[m] = ESC, s[m + 1] = Bracket
        PROVE  m - 1 \in 0 .. i /\ m - 1 < SIZE - 1 /\ now[m - 1] = ESC /\ now[m] = Bracket
    BY <1>1, <1>3, <1>5, <2>2
  <2>3. Arrow(now) => \E m \in 1 .. Len(s) - 1 : s[m] = ESC /\ s[m + 1] = Bracket
    <3> SUFFICES ASSUME Arrow(now)
                 PROVE  \E m \in 1 .. Len(s) - 1 : s[m] = ESC /\ s[m + 1] = Bracket
      OBVIOUS
    <3>1. PICK m \in 0 .. i : m < SIZE - 1 /\ now[m] = ESC /\ now[m + 1] = Bracket
      BY DEF Arrow
    <3>2. (m + 1) + 1 = m + 2
      OBVIOUS
    <3> QED BY <2>1, <3>1, <3>2
  <2>4. (\E m \in 1 .. Len(s) - 1 : s[m] = ESC /\ s[m + 1] = Bracket)
          => \E m \in 0 .. i : m < SIZE - 1 /\ now[m] = ESC /\ now[m + 1] = Bracket
    <3> SUFFICES ASSUME NEW m \in 1 .. Len(s) - 1, s[m] = ESC, s[m + 1] = Bracket
                 PROVE  \E k \in 0 .. i : k < SIZE - 1 /\ now[k] = ESC /\ now[k + 1] = Bracket
      OBVIOUS
    <3>1. (m - 1) + 1 = m
      BY <1>1, <1>3
    <3> QED BY <2>2, <3>1
  <2>5. Len(s) > 2 <=> i + 1 > 2
    BY <1>3
  <2> QED BY <2>3, <2>4, <2>5 DEF Arrow
<1>8. CASE Arrow(now)
  <2>1. typed' = << >> /\ i' = 0 /\ str' = Zeros
    BY <1>4, <1>7, <1>8 DEF Edited
  <2> QED BY <1>1, <2>1, NothingTyped DEF Zeros
<1>9. CASE ~Arrow(now)
  <2>1. typed' = s /\ i' = i + 1 /\ str' = now
    BY <1>4, <1>7, <1>9 DEF Edited
  <2> QED BY <1>1, <1>3, <1>5, <1>6, <2>1 DEF Seen
<1> QED BY <1>8, <1>9

\* A line without NUL does not end before its index.
LEMMA NoNul ==
  ASSUME Editor, Seen, NEW n \in Nat, n < i PROVE str[n] # NUL
<1>1. n + 1 \in 1 .. i /\ (n + 1) - 1 = n
  BY DEF Editor
<1> QED BY <1>1 DEF Seen

\* TAB looks for the names its user would.
LEMMA MatchingIsPrefix ==
  ASSUME Editor, Seen
  PROVE  Matching = {name \in Names : IsPrefix(typed, name)}
<1> SUFFICES ASSUME NEW name \in Names
             PROVE  (Agrees(name, i) /\ (i < Len(name) \/ Ends(name, i)))
                      <=> IsPrefix(typed, name)
  BY DEF Matching
<1>1. name \in Seq(Letters) /\ typed \in Seq(Letters) /\ Len(typed) = i /\ i \in Nat
  BY DEF Editor, Seen
<1>0. (Agrees(name, i) /\ (i < Len(name) \/ Ends(name, i)))
        <=> (i <= Len(name) /\ \A k \in 1 .. i : name[k] = str[k - 1])
  BY <1>1, NoNul DEF Agrees, Ends
<1>2. SubSeq(typed, 1, i) = typed
  BY <1>1
<1>3. ASSUME i <= Len(name)
      PROVE  (\A k \in 1 .. i : name[k] = typed[k]) <=> SubSeq(name, 1, i) = typed
  <2>1. /\ SubSeq(name, 1, i) \in Seq(Letters) /\ Len(SubSeq(name, 1, i)) = i
        /\ \A k \in 1 .. i : SubSeq(name, 1, i)[k] = name[k]
    BY <1>1, <1>3
  <2> QED BY <1>1, <2>1
<1>4. \A k \in 1 .. i : typed[k] = str[k - 1]
  BY DEF Seen
<1> QED BY <1>0, <1>1, <1>2, <1>3, <1>4 DEF IsPrefix

LEMMA TabSeen == ASSUME Editor, Seen, Tab, ~nul PROVE Seen'
<1>1. i \in Nat /\ i < SIZE
  BY DEF Tab, Editor
<1> DEFINE T == {name \in Names : IsPrefix(typed, name)}
<1>2. typed' = IF \E name \in Names : T = {name} THEN CHOOSE name \in T : TRUE ELSE typed
  BY Zenon DEF Tab, Completed
<1>3. Matching = T
  BY MatchingIsPrefix
<1> HIDE DEF T
<1>4. CASE \A name \in Names : Matching # {name}
  <2>1. typed' = typed /\ i' = i /\ str' = [str EXCEPT ![i] = NUL]
    BY <1>2, <1>3, <1>4 DEF Tab
  <2>2. \A k \in 0 .. SIZE - 1 : str'[k] = IF k = i THEN NUL ELSE str[k]
    BY <2>1 DEF Editor
  <2> QED BY <1>1, <2>1, <2>2 DEF Seen
<1>5. ASSUME NEW name \in Names, Matching = {name}
      PROVE  Seen'
  <2>1. PICK n \in Names :
          /\ Matching = {n} /\ i' = Len(n)
          /\ str' = [k \in 0 .. SIZE - 1 |->
                       IF k < Len(n) THEN n[k + 1] ELSE IF k = i THEN NUL ELSE str[k]]
    BY <1>5 DEF Tab
  <2>2. typed' = n
    BY <1>2, <1>3, <2>1
  <2>3. n \in Seq(Letters \ {NUL}) /\ Len(n) \in Nat /\ Len(n) < SIZE /\ i <= Len(n)
    <3>1. n \in Matching
      BY <2>1
    <3>2. n \in Seq(Letters \ {NUL}) /\ Len(n) \in Nat /\ Len(n) < SIZE
      OBVIOUS
    <3> QED BY <1>1, <3>1, <3>2, NoNul DEF Matching, Ends
  <2>4. \A k \in 1 .. Len(n) : n[k] = str'[k - 1] /\ n[k] # NUL
    BY <2>1, <2>3
  <2>5. \A k \in Len(n) .. SIZE - 1 : str'[k] = NUL
    BY <1>1, <2>1, <2>3 DEF Seen
  <2> QED BY <1>1, <2>1, <2>2, <2>4, <2>5 DEF Seen
<1> QED BY <1>4, <1>5

LEMMA BackspaceSeen == ASSUME Editor, Seen, Backspace PROVE Seen'
<1>1. i \in 1 .. SIZE /\ i' = i - 1 /\ str' = [str EXCEPT ![i - 1] = NUL]
  BY DEF Backspace, Erasable, Editor
<1>2. \A k \in 0 .. SIZE - 1 : str'[k] = IF k = i - 1 THEN NUL ELSE str[k]
  BY <1>1 DEF Editor
<1>3. /\ Len(typed') = i - 1
      /\ \A k \in 1 .. i - 1 : typed'[k] = typed[k]
  <2>1. typed \in Seq(Letters) /\ Len(typed) = i /\ typed' = SubSeq(typed, 1, i - 1)
    BY DEF Backspace, Editor, Seen
  <2> QED BY <1>1, <2>1
<1> QED BY <1>1, <1>2, <1>3 DEF Seen

\* ENTER finds the command its user typed.
LEMMA EnteredIsTyped == ASSUME Editor, Seen PROVE Entered = Names \cap {typed}
<1> SUFFICES ASSUME NEW name \in Names
             PROVE  (Agrees(name, i) /\ Ends(name, i)) <=> name = typed
  BY DEF Entered
<1>1. /\ name \in Seq(Letters) /\ typed \in Seq(Letters) /\ Len(typed) = i /\ i \in Nat
      /\ \A k \in 1 .. i : typed[k] = str[k - 1]
  BY DEF Editor, Seen
<1>2. name = typed <=> Len(name) = i /\ \A k \in 1 .. i : name[k] = typed[k]
  BY <1>1
<1>3. Ends(name, i) <=> Len(name) = i
  <2>1. Len(name) \in Nat
    BY <1>1
  <2>2. ASSUME Len(name) < i PROVE str[Len(name)] # NUL
    BY <2>1, <2>2, NoNul
  <2>3. i \in Nat
    BY <1>1
  <2> QED BY <2>1, <2>2, <2>3 DEF Ends
<1>4. ASSUME Len(name) = i
      PROVE  Agrees(name, i) <=> \A k \in 1 .. i : name[k] = typed[k]
  <2>1. Agrees(name, i) <=> \A k \in 1 .. i : name[k] = str[k - 1]
    BY <1>1, <1>4 DEF Agrees
  <2> QED BY <1>1, <2>1
<1> QED BY <1>2, <1>3, <1>4

\* Unless a NUL was typed, and with the flag down between two lines.
Watched == ~nul => Seen
Unflagged == flag = FALSE

LEMMA EnterWatched == ASSUME Editor, Watched, Enter PROVE Watched'
<1> SUFFICES ASSUME ~nul' PROVE Seen'
  BY DEF Watched
<1>1. i' = 0 /\ typed' = << >>
  BY DEF Enter
<1>2. CASE i # 0
  BY <1>1, <1>2, NothingTyped DEF Enter, Zeros
<1>3. CASE i = 0
  <2>1. Seen /\ str' = [str EXCEPT ![0] = NUL]
    <3>1. ~nul
      BY <1>3 DEF Enter
    <3> QED BY <1>3, <3>1 DEF Watched, Enter
  <2>2. \A k \in 0 .. SIZE - 1 : str'[k] = NUL
    BY <1>3, <2>1 DEF Seen, Editor
  <2> QED BY <1>1, <2>2, NothingTyped
<1> QED BY <1>2, <1>3

\* Every line entered is an entry of the history.
LEMMA EnterInserts ==
  ASSUME Editor, Unflagged, Enter
  PROVE  /\ Unflagged'
         /\ \E entry \in Entries : install_head(entry) /\ log' = Append(log, entry)
<1>1. CASE \E name \in Entered : Run(name)
  <2>1. PICK name \in Entered : Run(name)
    BY <1>1
  <2>2. name \in Names /\ name \in Entries /\ Len(name) \in Nat /\ Len(name) # 0
    <3>1. name \in Names
      BY DEF Entered
    <3> QED BY <3>1
  <2>3. i # 0
    BY <2>2 DEF Entered, Ends, Editor
  <2>4. flag' = FALSE
    BY <2>1, <2>3 DEF Run, Left
  <2> QED BY <2>1, <2>2, <2>4 DEF Run, Unflagged
<1>2. CASE NotFound
  BY <1>2 DEF NotFound, Left, Unflagged
<1> QED BY <1>1, <1>2 DEF Enter

-----------------------------------------------------------------------------
(* The nodes behind the head, in the order of their links.                 *)

\* The number of them.
Kept == IF tatol >= HOIS_SIZE THEN Len(log) - 1 ELSE Len(log)

\* w lists the head and the n nodes behind it along the links a.
Behind(w, n, a, L) ==
  /\ w \in [0 .. n -> L] /\ w[0] = HeadNode /\ a[w[n]] = HeadNode
  /\ \A k \in 1 .. n : a[w[k - 1]] = w[k]
  /\ \A j, k \in 0 .. n : w[j] = w[k] => j = k

Shows(w, n, c, s) == \A k \in 1 .. n : c[w[k]] = s[Len(s) + 1 - k]

Chain ==
  /\ tatol = Len(log)
  /\ \E w \in [0 .. Kept -> live] :
        Behind(w, Kept, after, live) /\ Shows(w, Kept, command, log)

\* The chain with a node put in behind the head.
Longer(w, n, node) ==
  [k \in 0 .. n + 1 |-> IF k = 0 THEN HeadNode ELSE IF k = 1 THEN node ELSE w[k - 1]]

LEMMA LinkLengthens ==
  ASSUME live \subseteq Blocks, HeadNode \in live, after \in [Blocks -> Blocks],
         NEW node \in Blocks \ live, NEW n \in Nat, NEW w, Behind(w, n, after, live)
  PROVE  Behind(Longer(w, n, node), n + 1, LinkedAfter(node), live \cup {node})
<1> DEFINE A == LinkedAfter(node)
           v == Longer(w, n, node)
<1>1. /\ A[HeadNode] = node /\ A[node] = after[HeadNode]
      /\ \A b \in live \ {HeadNode} : A[b] = after[b]
  BY DEF LinkedAfter
<1>2. /\ v \in [0 .. n + 1 -> live \cup {node}] /\ v[0] = HeadNode /\ v[1] = node
      /\ \A k \in 2 .. n + 1 : v[k] = w[k - 1]
  BY DEF Behind, Longer
<1>3. \A k \in 1 .. n : w[k] \in live \ {HeadNode}
  BY DEF Behind
<1> HIDE DEF A, v
<1>4. A[v[n + 1]] = HeadNode
  <2>1. CASE n = 0
    BY <1>1, <1>2, <2>1 DEF Behind
  <2>2. CASE n # 0
    BY <1>1, <1>2, <1>3, <2>2 DEF Behind
  <2> QED BY <2>1, <2>2
<1>5. ASSUME NEW k \in 1 .. n + 1 PROVE A[v[k - 1]] = v[k]
  <2>1. CASE k = 1
    BY <1>1, <1>2, <2>1
  <2>2. CASE k = 2
    <3>1. A[v[1]] = after[w[0]]
      BY <1>1, <1>2 DEF Behind
    <3> QED BY <1>2, <2>2, <3>1 DEF Behind
  <2>3. CASE k > 2
    <3>1. v[k - 1] = w[k - 2] /\ w[k - 2] \in live \ {HeadNode}
      BY <1>2, <1>3, <2>3
    <3>2. A[v[k - 1]] = after[w[(k - 1) - 1]]
      BY <1>1, <3>1
    <3> QED BY <1>2, <2>3, <3>2 DEF Behind
  <2> QED BY <2>1, <2>2, <2>3
<1>6. ASSUME NEW j \in 0 .. n + 1, NEW k \in 0 .. n + 1, v[j] = v[k], j < k PROVE FALSE
  <2>1. CASE k = 1
    BY <1>2, <1>6, <2>1
  <2>2. CASE k > 1 /\ j \in {0, 1}
    <3>1. v[k] = w[k - 1] /\ k - 1 \in 1 .. n
      BY <1>2, <2>2
    <3>2. v[k] \in live /\ v[k] # HeadNode
      BY <1>3, <3>1
    <3> QED BY <1>2, <1>6, <2>2, <3>2
  <2>3. CASE j > 1
    BY <1>2, <1>6, <2>3 DEF Behind
  <2> QED BY <1>6, <2>1, <2>2, <2>3
<1>7. \A j, k \in 0 .. n + 1 : v[j] = v[k] => j = k
  BY <1>6
<1>8. Behind(v, n + 1, A, live \cup {node})
  BY <1>2, <1>4, <1>5, <1>7 DEF Behind
<1> QED BY <1>8 DEF A, v

\* deleter_end takes the node out that is the last of the chain.
LEMMA CutShortens ==
  ASSUME NEW a \in [Blocks -> Blocks], NEW b \in [Blocks -> Blocks],
         NEW L \in SUBSET Blocks, HeadNode \in L, Ring(a, b, L),
         NEW n \in Nat, n > 0, NEW w, Behind(w, n + 1, a, L)
  PROVE  /\ ~Few(a, b)
         /\ Behind([k \in 0 .. n |-> w[k]], n, CutAfter(a, b), L \ {Oldest(a, b)})
<1> DEFINE v == [k \in 0 .. n |-> w[k]]
<1>1. /\ n + 1 \in 0 .. n + 1 /\ n \in 0 .. n + 1 /\ n + 1 \in 1 .. n + 1 /\ 1 \in 1 .. n + 1
      /\ \A k \in 0 .. n + 1 : w[k] \in L
  BY DEF Behind
<1>2. a[w[n + 1]] = HeadNode /\ a[w[n]] = w[n + 1]
  <2>1. a[w[(n + 1) - 1]] = w[n + 1]
    BY <1>1 DEF Behind
  <2> QED BY <2>1 DEF Behind
<1>3. b[HeadNode] = w[n + 1] /\ b[w[n + 1]] = w[n]
  BY <1>1, <1>2 DEF Ring
<1>4. a[HeadNode] = w[1]
  BY <1>1 DEF Behind
<1>5. ~Few(a, b)
  BY <1>1, <1>3, <1>4 DEF Few, Behind
<1>6. Oldest(a, b) = w[n + 1] /\ CutAfter(a, b) = [a EXCEPT ![w[n]] = HeadNode]
  BY <1>3 DEF Oldest, CutAfter
<1>7. v \in [0 .. n -> L \ {w[n + 1]}]
  BY <1>1 DEF Behind
<1>8. CutAfter(a, b)[v[n]] = HeadNode
  BY <1>1, <1>6
<1>9. ASSUME NEW k \in 1 .. n PROVE CutAfter(a, b)[v[k - 1]] = v[k]
  <2>1. k - 1 \in 0 .. n /\ k - 1 \in 0 .. n + 1 /\ k \in 1 .. n + 1 /\ k - 1 # n
    OBVIOUS
  <2>2. w[k - 1] # w[n] /\ w[k - 1] \in Blocks
    BY <1>1, <2>1 DEF Behind
  <2> QED BY <1>6, <2>1, <2>2 DEF Behind
<1>10. v[0] = HeadNode /\ \A j, k \in 0 .. n : v[j] = v[k] => j = k
  BY DEF Behind
<1>11. Behind(v, n, CutAfter(a, b), L \ {w[n + 1]})
  <2> HIDE DEF v
  <2> QED BY <1>7, <1>8, <1>9, <1>10 DEF Behind
<1> QED BY <1>5, <1>6, <1>11

LEMMA InstallChains ==
  ASSUME IInv, Chain, NEW entry \in Entries, install_head(entry), log' = Append(log, entry)
  PROVE  Chain'
<1> USE DEF IInv, TypeOK
<1>1. PICK node \in Blocks \ live :
        /\ command' = [command EXCEPT ![node] = entry]
        /\ tatol' = tatol + 1
        /\ IF tatol' = HOIS_SIZE
           THEN deleter_end(LinkedAfter(node), LinkedBefore(node), node)
           ELSE /\ after' = LinkedAfter(node) /\ before' = LinkedBefore(node)
                /\ live' = live \cup {node}
  BY DEF install_head
<1> DEFINE A == LinkedAfter(node)
           B == LinkedBefore(node)
           L == live \cup {node}
<1>2. PICK w \in [0 .. Kept -> live] :
         Behind(w, Kept, after, live) /\ Shows(w, Kept, command, log)
  BY DEF Chain
<1>3. Kept \in Nat /\ Len(log) \in Nat /\ tatol = Len(log) /\ Kept <= Len(log)
  BY DEF Kept, Chain
<1>4. /\ Len(log') = Len(log) + 1 /\ log'[Len(log) + 1] = entry
      /\ \A k \in 1 .. Len(log) : log'[k] = log[k]
      /\ tatol' = Len(log')
  BY <1>1, <1>3
<1> DEFINE n == Kept
           v == Longer(w, n, node)
<1>5. Behind(v, n + 1, A, L)
  BY <1>2, <1>3, LinkLengthens
<1>6. Shows(v, n + 1, command', log')
  <2>1. ASSUME NEW k \in 1 .. n + 1 PROVE command'[v[k]] = log'[Len(log') + 1 - k]
    <3>1. CASE k = 1
      BY <1>1, <1>3, <1>4, <3>1 DEF Longer
    <3>2. CASE k # 1
      <4>1. v[k] = w[k - 1] /\ w[k - 1] \in live
        <5>1. k \in 0 .. n + 1 /\ k # 0 /\ k - 1 \in 0 .. Kept
          BY <1>3, <3>2
        <5>2. v[k] = w[k - 1]
          BY <3>2, <5>1 DEF Longer
        <5> QED BY <1>2, <5>1, <5>2
      <4>2. command'[v[k]] = command[w[k - 1]]
        BY <1>1, <4>1
      <4>3. command[w[k - 1]] = log[Len(log) + 1 - (k - 1)]
        <5>1. k - 1 \in 1 .. Kept
          BY <1>3, <3>2
        <5> QED BY <1>2, <5>1, Zenon DEF Shows
      <4>4. /\ Len(log) + 1 - (k - 1) \in 1 .. Len(log)
            /\ Len(log) + 1 - (k - 1) = Len(log') + 1 - k
        BY <1>3, <1>4, <3>2
      <4> QED BY <1>4, <4>2, <4>3, <4>4
    <3> QED BY <3>1, <3>2
  <2> QED BY <2>1 DEF Shows
<1>7. A \in [Blocks -> Blocks] /\ B \in [Blocks -> Blocks] /\ Ring(A, B, L)
  BY LinkKeepsRing
<1>8. L \in SUBSET Blocks /\ HeadNode \in L
  OBVIOUS
<1> HIDE DEF A, B, L, v
<1>9. CASE tatol' # HOIS_SIZE
  <2>1. Kept' = n + 1
    BY <1>1, <1>3, <1>4, <1>9 DEF Kept
  <2>2. after' = A /\ live' = L
    BY <1>1, <1>9 DEF A, L
  <2>3. v \in [0 .. Kept' -> live']
    BY <1>5, <2>1, <2>2 DEF Behind
  <2>4. Behind(v, Kept', after', live') /\ Shows(v, Kept', command', log')
    BY <1>5, <1>6, <2>1, <2>2
  <2> QED BY <1>4, <2>3, <2>4 DEF Chain
<1>10. CASE tatol' = HOIS_SIZE
  <2>1. Kept' = n /\ n > 0
    BY <1>1, <1>3, <1>4, <1>10 DEF Kept
  <2> DEFINE u == [k \in 0 .. n |-> v[k]]
  <2>2. ~Few(A, B) /\ Behind(u, n, CutAfter(A, B), L \ {Oldest(A, B)})
    <3> HIDE DEF n
    <3>1. n \in Nat
      BY <1>3 DEF n
    <3> QED BY <1>5, <1>7, <1>8, <2>1, <3>1, CutShortens
  <2>3. after' = CutAfter(A, B) /\ live' = L \ {Oldest(A, B)}
    BY <1>1, <1>10, <2>2 DEF deleter_end, A, B, L
  <2>4. Shows(u, n, command', log')
    <3>1. ASSUME NEW k \in 1 .. n PROVE command'[u[k]] = log'[Len(log') + 1 - k]
      <4>1. u[k] = v[k] /\ k \in 1 .. n + 1
        BY <1>3
      <4> QED BY <1>6, <4>1 DEF Shows
    <3> QED BY <3>1 DEF Shows
  <2> HIDE DEF u, n
  <2>5. u \in [0 .. Kept' -> live']
    BY <2>1, <2>2, <2>3 DEF Behind
  <2>6. Behind(u, Kept', after', live') /\ Shows(u, Kept', command', log')
    BY <2>1, <2>2, <2>3, <2>4
  <2> QED BY <1>4, <2>5, <2>6 DEF Chain
<1> QED BY <1>9, <1>10

\* Without lines there is the head alone.
LEMMA HeadAlone ==
  ASSUME NEW a, NEW L, HeadNode \in L, a[HeadNode] = HeadNode, NEW c
  PROVE  \E w \in [0 .. 0 -> L] : Behind(w, 0, a, L) /\ Shows(w, 0, c, << >>)
<1> DEFINE w == [k \in 0 .. 0 |-> HeadNode]
<1>1. w \in [0 .. 0 -> L] /\ w[0] = HeadNode /\ \A j, k \in 0 .. 0 : j = k
  OBVIOUS
<1>2. Behind(w, 0, a, L) /\ Shows(w, 0, c, << >>)
  BY <1>1 DEF Behind, Shows
<1> QED BY <1>1, <1>2

LEMMA UnchangedChain == ASSUME Chain, UNCHANGED <<history, log>> PROVE Chain'
  BY DEF Chain, Kept, history

\* A set of numbers has a least one.
LEMMA LeastNumber ==
  ASSUME NEW T \in SUBSET Nat, T # {}
  PROVE  \E n \in T : \A m \in T : n <= m
<1>1. \E n \in T : \A m \in T : ~(<<m, n>> \in OpToRel(<, Nat))
  BY NatLessThanWellFounded, WFMin, Zenon
<1>2. PICK n \in T : \A m \in T : ~(<<m, n>> \in OpToRel(<, Nat))
  BY <1>1, Zenon
<1>3. \A m \in T : ~(m < n)
  BY <1>2 DEF OpToRel
<1> QED BY <1>3

\* The recursive walk of HistoryKeepsCommands.
Walk(f, n, a) == f = [k \in 0 .. n + 1 |-> IF k = 0 THEN HeadNode ELSE a[f[k - 1]]]

LEMMA WalkIsUnique ==
  ASSUME NEW n \in Nat, NEW a, NEW f, NEW g, Walk(f, n, a), Walk(g, n, a)
  PROVE  f = g
<1> DEFINE T == {k \in 0 .. n + 1 : f[k] # g[k]}
<1>1. ASSUME T # {} PROVE FALSE
  <2>1. PICK k \in T : \A m \in T : k <= m
    <3>1. T \in SUBSET Nat
      OBVIOUS
    <3> HIDE DEF T
    <3> QED BY <1>1, <3>1, LeastNumber
  <2>2. k \in 0 .. n + 1 /\ k # 0
    BY <2>1 DEF Walk
  <2>3. f[k - 1] = g[k - 1]
    BY <2>1, <2>2
  <2>4. f[k] = a[f[k - 1]] /\ g[k] = a[g[k - 1]]
    BY <2>2 DEF Walk
  <2> QED BY <2>1, <2>3, <2>4
<1>2. \A k \in 0 .. n + 1 : f[k] = g[k]
  BY <1>1
<1>3. f = [k \in 0 .. n + 1 |-> f[k]] /\ g = [k \in 0 .. n + 1 |-> g[k]]
  BY DEF Walk
<1> QED BY <1>2, <1>3

LEMMA ChainIsWalked ==
  ASSUME Chain, Kept \in Nat, tatol \in Nat
  PROVE  HistoryKeepsCommands
<1>1. PICK w \in [0 .. Kept -> live] :
         Behind(w, Kept, after, live) /\ Shows(w, Kept, command, log)
  BY DEF Chain
<1> DEFINE n == Kept
           t == tatol
           l == Len(log)
           g == [k \in 0 .. t + 1 |-> IF k <= n THEN w[k]
                                      ELSE IF k = n + 1 THEN HeadNode ELSE after[HeadNode]]
           node[k \in 0 .. tatol + 1] == IF k = 0 THEN HeadNode ELSE after[node[k - 1]]
<1>2. n \in Nat /\ t \in Nat /\ l = t /\ (n = t \/ (n = t - 1 /\ t >= HOIS_SIZE))
  BY DEF Chain, Kept
<1>3. /\ w[0] = HeadNode /\ after[w[n]] = HeadNode
      /\ \A k \in 1 .. n : after[w[k - 1]] = w[k] /\ w[k] # HeadNode
  BY <1>1, <1>2 DEF Behind
<1>4. \A k \in 1 .. n : command[w[k]] = log[l + 1 - k]
  BY <1>1 DEF Shows
<1> HIDE DEF n, t, l
<1>5. Walk(g, t, after)
  <2>1. ASSUME NEW k \in 0 .. t + 1
        PROVE  g[k] = IF k = 0 THEN HeadNode ELSE after[g[k - 1]]
    <3>1. CASE k = 0
      BY <1>2, <1>3, <3>1
    <3>4. CASE k \in 1 .. n
      <4>1. g[k] = w[k] /\ g[k - 1] = w[k - 1]
        BY <1>2, <3>4
      <4> QED BY <1>3, <3>4, <4>1
    <3>2. CASE k = n + 1
      BY <1>2, <1>3, <3>2
    <3>3. CASE k = n + 2
      BY <1>2, <1>3, <3>3
    <3> QED BY <1>2, <3>1, <3>2, <3>3, <3>4
  <2> HIDE DEF g
  <2>2. g = [k \in 0 .. t + 1 |-> g[k]]
    BY DEF g
  <2> QED BY <2>1, <2>2 DEF Walk
<1>6. Walk(node, t, after)
  <2> HIDE DEF g
  <2> DEFINE W(f) == f = [k \in 0 .. tatol + 1 |-> IF k = 0 THEN HeadNode ELSE after[f[k - 1]]]
  <2>1. W(g)
    BY <1>5 DEF Walk, t
  <2>2. node = CHOOSE f : W(f)
    OBVIOUS
  <2> HIDE DEF W, node
  <2>3. W(CHOOSE f : W(f))
    BY <2>1, Zenon
  <2>4. W(node)
    BY <2>2, <2>3, Zenon
  <2> QED BY <2>4 DEF W, Walk, t
<1> HIDE DEF node
<1>7. node = g
  <2> HIDE DEF g
  <2> QED BY <1>2, <1>5, <1>6, WalkIsUnique
<1>8. \A k \in 0 .. n : node[k] = w[k]
  BY <1>2, <1>7
<1>9. n + 1 \in 0 .. t + 1 => node[n + 1] = HeadNode
  BY <1>2, <1>7
<1> HIDE DEF g
<1> DEFINE listed == {k \in 1 .. tatol + 1 : \A j \in 1 .. k : node[j] # HeadNode}
           kept == {k \in listed : command[node[k]] \in Names}
           run == {m \in 1 .. Len(log) : log[m] \in Names}
           ofNode == [k \in kept |-> l + 1 - k]
<1>10. listed = 1 .. n
  <2>1. ASSUME NEW k \in 1 .. t + 1 PROVE (\A j \in 1 .. k : node[j] # HeadNode) <=> k <= n
    <3>1. CASE k <= n
      BY <1>2, <1>3, <1>8, <3>1
    <3>2. CASE k > n
      BY <1>2, <1>9, <3>2
    <3> QED BY <1>2, <3>1, <3>2
  <2> QED BY <1>2, <2>1 DEF t
<1> HIDE DEF listed
<1>11. \A k \in 1 .. n : command[node[k]] = log[l + 1 - k] /\ l + 1 - k \in 1 .. l
  BY <1>2, <1>4, <1>8
<1>12. /\ kept \subseteq 1 .. n
       /\ \A k \in kept : l + 1 - k \in run /\ log[l + 1 - k] = command[node[k]]
  BY <1>10, <1>11 DEF l
<1>13. \A m \in run : m \in 1 .. l /\ (l + 1 - m <= n => l + 1 - m \in kept)
  <2>1. ASSUME NEW m \in run, l + 1 - m <= n PROVE l + 1 - m \in kept
    <3>1. l + 1 - m \in 1 .. n /\ l + 1 - (l + 1 - m) = m
      BY <1>2, <2>1 DEF l
    <3> QED BY <1>10, <1>11, <2>1, <3>1
  <2> QED BY <2>1 DEF l
<1> HIDE DEF kept, run
<1>14. ofNode \in [kept -> run] /\ \A k \in kept : ofNode[k] = l + 1 - k
  BY <1>12
<1> HIDE DEF ofNode
<1>15. \A k \in kept : log[ofNode[k]] = command[node[k]]
  BY <1>12, <1>14
<1>16. \A j, k \in kept : j < k => ofNode[k] < ofNode[j]
  BY <1>2, <1>12, <1>14
<1>17. ASSUME NEW m \in run
       PROVE  \/ \E k \in kept : ofNode[k] = m
              \/ /\ m <= Len(log) - (HOIS_SIZE - 1)
                 /\ \A k \in kept : m < ofNode[k]
  <2>1. CASE l + 1 - m <= n
    <3>1. l + 1 - m \in kept /\ l + 1 - (l + 1 - m) = m
      BY <1>2, <1>13, <2>1
    <3> QED BY <1>14, <3>1
  <2>2. CASE ~(l + 1 - m <= n)
    <3>1. m \in 1 .. l
      BY <1>13
    <3>2. m = 1 /\ n = l - 1 /\ l >= HOIS_SIZE
      BY <1>2, <2>2, <3>1
    <3>3. \A k \in kept : k <= l - 1 /\ k \in Nat
      BY <1>2, <1>12, <3>2
    <3> QED BY <1>2, <1>14, <3>2, <3>3 DEF l
  <2> QED BY <2>1, <2>2
<1> QED BY <1>14, <1>15, <1>16, <1>17, Zenon DEF HistoryKeepsCommands, node, listed, kept, run

-----------------------------------------------------------------------------
(* All together: the chain grows by the line that was entered.             *)

Faithful == IInv /\ Unflagged /\ Watched /\ Chain

LEMMA InitFaithful == Init => Faithful
<1> SUFFICES ASSUME Init PROVE Faithful
  OBVIOUS
<1>1. Watched /\ Unflagged
  BY DEF Init, Watched, Unflagged, Seen, Zeros
<1>2. Chain
  <2>1. /\ tatol = 0 /\ log = << >> /\ HeadNode \in live /\ after[HeadNode] = HeadNode
        /\ tatol = Len(log) /\ Kept = 0
    BY DEF Init, HistoryInit, Kept
  <2> QED BY <2>1, HeadAlone DEF Chain
<1> QED BY <1>1, <1>2, InitInv DEF Faithful

LEMMA NextFaithful == Faithful /\ [Next]_vars => Faithful'
<1> SUFFICES ASSUME Faithful, [Next]_vars PROVE Unflagged' /\ Watched' /\ Chain'
  BY NextKeeps DEF Faithful
<1>1. Editor /\ Unflagged /\ Watched /\ Chain /\ IInv
  BY Parts DEF Faithful
<1>2. ASSUME NEW c \in Letters, Char(c) PROVE Unflagged' /\ Watched' /\ Chain'
  <2>1. UNCHANGED <<history, flag, log>> /\ (~nul' => ~nul)
    BY <1>2 DEF Char
  <2> QED BY <1>1, <1>2, <2>1, CharSeen, UnchangedChain DEF Unflagged, Watched
<1>3. CASE Tab
  <2>1. UNCHANGED <<history, flag, nul, log>>
    BY <1>3 DEF Tab
  <2> QED BY <1>1, <1>3, <2>1, TabSeen, UnchangedChain DEF Unflagged, Watched
<1>4. CASE Backspace
  <2>1. UNCHANGED <<history, flag, nul, log>>
    BY <1>4 DEF Backspace
  <2> QED BY <1>1, <1>4, <2>1, BackspaceSeen, UnchangedChain DEF Unflagged, Watched
<1>5. CASE Enter
  BY <1>1, <1>5, EnterWatched, EnterInserts, InstallChains
<1>6. CASE Reboot
  <2>1. Unflagged' /\ Watched'
    BY <1>6, NothingTyped DEF Reboot, Zeros, Unflagged, Watched
  <2>2. tatol' = 0 /\ log' = << >> /\ after'[HeadNode] = HeadNode /\ HeadNode \in live'
    BY <1>1, <1>6 DEF Reboot, IInv, TypeOK
  <2>3. tatol' = Len(log') /\ Kept' = 0
    BY <2>2 DEF Kept
  <2> QED BY <2>1, <2>2, <2>3, HeadAlone DEF Chain
<1>7. CASE Lost \/ UNCHANGED vars
  <2>1. UNCHANGED <<history, str, i, flag, typed, nul, log>>
    BY <1>7 DEF Lost, vars
  <2> QED BY <1>1, <2>1, UnchangedChain DEF Unflagged, Watched, Seen
<1> QED BY <1>2, <1>3, <1>4, <1>5, <1>6, <1>7 DEF Next

LEMMA FaithfulHolds == Spec => []Faithful
  BY InitFaithful, NextFaithful, PTL DEF Spec

\* Whatever was typed, completed and corrected, ENTER runs the line that is seen,
\* unless a NUL was among it.
THEOREM RunsWhatIsSeen == Spec => []EntersWhatIsSeen
<1>1. Faithful => EntersWhatIsSeen
  BY Parts, EnteredIsTyped DEF Faithful, Watched, EntersWhatIsSeen
<1> QED BY FaithfulHolds, <1>1, PTL

\* The commands in the history are those that were run, newest first, and none but
\* the oldest is missing, when HOIS_SIZE - 1 lines were entered since.
THEOREM CommandsAreKept == Spec => []HistoryKeepsCommands
<1>1. Faithful => HistoryKeepsCommands
  <2>1. Faithful => Chain /\ Kept \in Nat /\ tatol \in Nat
    BY DEF Faithful, IInv, TypeOK, Chain, Kept
  <2> QED BY <2>1, ChainIsWalked
<1> QED BY FaithfulHolds, <1>1, PTL
=============================================================================
