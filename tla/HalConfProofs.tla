---------------------------- MODULE HalConfProofs ----------------------------
(***************************************************************************)
(* Proofs about HalConf, for every choice of lines that an application may *)
(* edit, any number at a time.                                             *)
(***************************************************************************)
EXTENDS HalConf, TLAPS

-----------------------------------------------------------------------------
(***************************************************************************)
(* The templates.  These lemmas are all that the proofs take from the text *)
(* of the three headers.                                                   *)
(***************************************************************************)
Families == {"F1", "F3", "F7"}

ActiveLines == Pick(F1Active, F3Active, F7Active)
Names == {Commented[i] : i \in 1 .. Len(Commented)}
           \cup {ActiveLines[i] : i \in 1 .. Len(ActiveLines)}

LEMMA PickOne ==
    ASSUME NEW a, NEW b, NEW c
    PROVE  /\ family = "F1" => Pick(a, b, c) = a
           /\ family = "F3" => Pick(a, b, c) = b
           /\ family = "F7" => Pick(a, b, c) = c
  BY DEF Pick

LEMMA F1Template ==
    ASSUME family = "F1"
    PROVE  /\ Commented = F1Commented /\ ActiveLines = F1Active
           /\ Includes = F1Includes /\ Archive = F1Archive
           /\ NoHeader = {"CRYP", "SDRAM"} /\ NotBuilt = {}
           /\ OnTwice = {"GPIO"}
           /\ OnAnyway = {"CORTEX", "DMA", "FLASH", "PWR", "RCC"}
  BY PickOne DEF Commented, ActiveLines, Includes, Archive, NoHeader,
                 NotBuilt, OnTwice, OnAnyway

LEMMA F3Template ==
    ASSUME family = "F3"
    PROVE  /\ Commented = F3Commented /\ ActiveLines = F3Active
           /\ Includes = F3Includes /\ Archive = F3Archive
           /\ NoHeader = {"CRYP", "LCD", "LPTIM", "RNG"}
           /\ NotBuilt = {"SPI", "I2C"}
           /\ OnTwice = {} /\ OnAnyway = {}
  BY PickOne DEF Commented, ActiveLines, Includes, Archive, NoHeader,
                 NotBuilt, OnTwice, OnAnyway

LEMMA F7Template ==
    ASSUME family = "F7"
    PROVE  /\ Commented = F7Commented /\ ActiveLines = F7Active
           /\ Includes = F7Includes /\ Archive = F7Archive
           /\ NoHeader = {} /\ NotBuilt = {"UART", "I2C"}
           /\ OnTwice = {} /\ OnAnyway = {"EXTI"}
  BY PickOne DEF Commented, ActiveLines, Includes, Archive, NoHeader,
                 NotBuilt, OnTwice, OnAnyway

\* A sequence of its own elements, of which there is at least one.
IsList(s) == s \in Seq({s[i] : i \in 1 .. Len(s)}) /\ Len(s) >= 1

LEMMA Widen ==
    ASSUME NEW S, NEW T, S \subseteq T, NEW s \in Seq(S)
    PROVE  s \in Seq(T)
  OBVIOUS

LEMMA ListParts ==
    ASSUME family \in Families
    PROVE  /\ Commented \in Seq(Names) /\ ActiveLines \in Seq(Names)
           /\ Len(ActiveLines) >= 1
<1> SUFFICES IsList(Commented) /\ IsList(ActiveLines)
  BY Widen DEF IsList, Names
<1>1. CASE family = "F1"
  <2>1. /\ F1Commented \in Seq({F1Commented[i] : i \in 1 .. 33})
        /\ Len(F1Commented) = 33
    BY DEF F1Commented
  <2>2. /\ F1Active \in Seq({F1Active[i] : i \in 1 .. 8})
        /\ Len(F1Active) = 8
    BY DEF F1Active
  <2>3. IsList(F1Commented)
    BY <2>1 DEF IsList
  <2>4. IsList(F1Active)
    BY <2>2 DEF IsList
  <2> QED
    BY <1>1, <2>3, <2>4, F1Template
<1>2. CASE family = "F3"
  <2>1. /\ F3Commented \in Seq({F3Commented[i] : i \in 1 .. 31})
        /\ Len(F3Commented) = 31
    BY DEF F3Commented
  <2>2. /\ F3Active \in Seq({F3Active[i] : i \in 1 .. 9})
        /\ Len(F3Active) = 9
    BY DEF F3Active
  <2>3. IsList(F3Commented)
    BY <2>1 DEF IsList
  <2>4. IsList(F3Active)
    BY <2>2 DEF IsList
  <2> QED
    BY <1>2, <2>3, <2>4, F3Template
<1>3. CASE family = "F7"
  <2>1. /\ F7Commented \in Seq({F7Commented[i] : i \in 1 .. 40})
        /\ Len(F7Commented) = 40
    BY DEF F7Commented
  <2>2. /\ F7Active \in Seq({F7Active[i] : i \in 1 .. 9})
        /\ Len(F7Active) = 9
    BY DEF F7Active
  <2>3. IsList(F7Commented)
    BY <2>1 DEF IsList
  <2>4. IsList(F7Active)
    BY <2>2 DEF IsList
  <2> QED
    BY <1>3, <2>3, <2>4, F7Template
<1> QED
  BY <1>1, <1>2, <1>3 DEF Families

\* A line of the list is one that the template has commented out, or not.
LEMMA ListLines ==
    ASSUME family \in Families
    PROVE  /\ Len(Listed) \in Nat /\ Len(Listed) >= 1
           /\ \A i \in 1 .. Len(Listed) : Active(i) =>
                \E a \in 1 .. Len(ActiveLines) :
                    i = Len(Commented) + a /\ Listed[i] = ActiveLines[a]
           /\ \A i \in 1 .. Len(Listed) : ~Active(i) =>
                i \in 1 .. Len(Commented) /\ Listed[i] = Commented[i]
           /\ \A a \in 1 .. Len(ActiveLines) :
                /\ Len(Commented) + a \in 1 .. Len(Listed)
                /\ Active(Len(Commented) + a)
                /\ Listed[Len(Commented) + a] = ActiveLines[a]
<1> DEFINE s == Commented
           t == ActiveLines
<1>1. s \in Seq(Names) /\ t \in Seq(Names) /\ Len(t) >= 1 /\ Listed = s \o t
  BY ListParts DEF Listed, ActiveLines
<1> HIDE DEF s, t
<1>2. /\ Len(s) \in Nat /\ Len(t) \in Nat /\ Len(s \o t) = Len(s) + Len(t)
      /\ \A i \in 1 .. Len(s) : (s \o t)[i] = s[i]
      /\ \A i \in Len(s) + 1 .. Len(s) + Len(t) : (s \o t)[i] = t[i - Len(s)]
  BY <1>1
<1>3. ASSUME NEW i \in 1 .. Len(Listed), i > Len(s)
      PROVE  \E a \in 1 .. Len(t) : i = Len(s) + a /\ Listed[i] = t[a]
  <2>1. i \in Len(s) + 1 .. Len(s) + Len(t)
    BY <1>1, <1>2, <1>3
  <2>2. i - Len(s) \in 1 .. Len(t) /\ i = Len(s) + (i - Len(s))
    BY <1>2, <2>1
  <2> QED
    BY <1>1, <1>2, <2>1, <2>2
<1>4. ASSUME NEW i \in 1 .. Len(Listed), ~(i > Len(s))
      PROVE  i \in 1 .. Len(s) /\ Listed[i] = s[i]
  BY <1>1, <1>2, <1>4
<1>5. ASSUME NEW a \in 1 .. Len(t)
      PROVE  /\ Len(s) + a \in 1 .. Len(Listed) /\ Len(s) + a > Len(s)
             /\ Listed[Len(s) + a] = t[a]
  <2>1. Len(s) + a \in Len(s) + 1 .. Len(s) + Len(t)
    BY <1>2, <1>5
  <2>2. (Len(s) + a) - Len(s) = a
    BY <1>2, <1>5
  <2> QED
    BY <1>1, <1>2, <2>1, <2>2
<1> QED
  BY <1>1, <1>2, <1>3, <1>4, <1>5 DEF Active, s, t

\* The includes of headers with DMA handles come after that of DMA.
LEMMA DmaIsFourth ==
    ASSUME family \in Families
    PROVE  /\ Len(Includes) \in Nat /\ Len(Includes) >= 4
           /\ Includes[4] = "DMA"
           /\ \A i \in 1 .. 4 : Includes[i] \notin DmaUsers
<1>1. CASE family = "F1"
  <2>1. /\ Len(F1Includes) = 33 /\ F1Includes[4] = "DMA"
        /\ \A i \in 1 .. 4 : F1Includes[i] \notin DmaUsers
    BY DEF F1Includes, DmaUsers
  <2> QED
    BY <1>1, <2>1, F1Template
<1>2. CASE family = "F3"
  <2>1. /\ Len(F3Includes) = 35 /\ F3Includes[4] = "DMA"
        /\ \A i \in 1 .. 4 : F3Includes[i] \notin DmaUsers
    BY DEF F3Includes, DmaUsers
  <2> QED
    BY <1>2, <2>1, F3Template
<1>3. CASE family = "F7"
  <2>1. /\ Len(F7Includes) = 48 /\ F7Includes[4] = "DMA"
        /\ \A i \in 1 .. 4 : F7Includes[i] \notin DmaUsers
    BY DEF F7Includes, DmaUsers
  <2> QED
    BY <1>3, <2>1, F7Template
<1> QED
  BY <1>1, <1>2, <1>3 DEF Families

\* No two active lines name the same module, but those of OnTwice, and the
\* archive has their sources, but for those of NotBuilt.
LEMMA ActiveNames ==
    ASSUME family \in Families
    PROVE  /\ \A a \in 1 .. Len(ActiveLines) :
                (\E b \in 1 .. Len(ActiveLines) :
                    b # a /\ ActiveLines[b] = ActiveLines[a])
                  <=> ActiveLines[a] \in OnTwice
           /\ \A a \in 1 .. Len(ActiveLines) :
                ActiveLines[a] \in Archive <=> ActiveLines[a] \notin NotBuilt
<1>1. CASE family = "F1"
  <2>1. \A a \in 1 .. Len(F1Active) :
          (\E b \in 1 .. Len(F1Active) : b # a /\ F1Active[b] = F1Active[a])
            <=> F1Active[a] = "GPIO"
    BY DEF F1Active
  <2>2. \A a \in 1 .. Len(F1Active) : F1Active[a] \in F1Archive
    BY DEF F1Active, F1Archive
  <2> QED
    BY <1>1, <2>1, <2>2, F1Template
<1>2. CASE family = "F3"
  <2>1. \A a, b \in 1 .. Len(F3Active) : F3Active[a] = F3Active[b] => a = b
    BY DEF F3Active
  <2>2. \A a \in 1 .. Len(F3Active) :
          F3Active[a] \in F3Archive <=> F3Active[a] \notin {"SPI", "I2C"}
    BY DEF F3Active, F3Archive
  <2> QED
    BY <1>2, <2>1, <2>2, F3Template
<1>3. CASE family = "F7"
  <2>1. \A a, b \in 1 .. Len(F7Active) : F7Active[a] = F7Active[b] => a = b
    BY DEF F7Active
  <2>2. \A a \in 1 .. Len(F7Active) :
          F7Active[a] \in F7Archive <=> F7Active[a] \notin {"UART", "I2C"}
    BY DEF F7Active, F7Archive
  <2> QED
    BY <1>3, <2>1, <2>2, F7Template
<1> QED
  BY <1>1, <1>2, <1>3 DEF Families

\* The commented lines whose module an active line names as well.
LEMMA CommentedNames ==
    ASSUME family \in Families
    PROVE  \A a \in 1 .. Len(Commented) :
             (\E b \in 1 .. Len(ActiveLines) : ActiveLines[b] = Commented[a])
               <=> Commented[a] \in OnAnyway
<1>1. CASE family = "F1"
  <2>1. \A a \in 1 .. Len(F1Commented) :
          (\E b \in 1 .. Len(F1Active) : F1Active[b] = F1Commented[a])
            <=> F1Commented[a] \in {"CORTEX", "DMA", "FLASH", "PWR", "RCC"}
    BY DEF F1Commented, F1Active
  <2> QED
    BY <1>1, <2>1, F1Template
<1>2. CASE family = "F3"
  <2>1. \A a \in 1 .. Len(F3Commented) : \A b \in 1 .. Len(F3Active) :
          F3Active[b] # F3Commented[a]
    BY DEF F3Commented, F3Active
  <2> QED
    BY <1>2, <2>1, F3Template
<1>3. CASE family = "F7"
  <2>1. \A a \in 1 .. Len(F7Commented) :
          (\E b \in 1 .. Len(F7Active) : F7Active[b] = F7Commented[a])
            <=> F7Commented[a] = "EXTI"
    BY DEF F7Commented, F7Active
  <2> QED
    BY <1>3, <2>1, F7Template
<1> QED
  BY <1>1, <1>2, <1>3 DEF Families

\* An #include answers every line of the list but those of NoHeader.
HasInclude(m) == \E k \in 1 .. Len(Includes) : Includes[k] = m

LEMMA HeadersListed ==
    ASSUME family \in Families
    PROVE  /\ \A a \in 1 .. Len(ActiveLines) :
                HasInclude(ActiveLines[a]) <=> ActiveLines[a] \notin NoHeader
           /\ \A a \in 1 .. Len(Commented) :
                HasInclude(Commented[a]) <=> Commented[a] \notin NoHeader
<1>1. CASE family = "F1"
  <2>1. \A a \in 1 .. Len(F1Active) :
          (\E k \in 1 .. Len(F1Includes) : F1Includes[k] = F1Active[a])
            <=> F1Active[a] \notin {"CRYP", "SDRAM"}
    BY DEF F1Active, F1Includes
  <2>2. \A a \in 1 .. Len(F1Commented) :
          (\E k \in 1 .. Len(F1Includes) : F1Includes[k] = F1Commented[a])
            <=> F1Commented[a] \notin {"CRYP", "SDRAM"}
    BY DEF F1Commented, F1Includes
  <2> QED
    BY <1>1, <2>1, <2>2, F1Template DEF HasInclude
<1>2. CASE family = "F3"
  <2>1. \A a \in 1 .. Len(F3Active) :
          (\E k \in 1 .. Len(F3Includes) : F3Includes[k] = F3Active[a])
            <=> F3Active[a] \notin {"CRYP", "LCD", "LPTIM", "RNG"}
    BY DEF F3Active, F3Includes
  <2>2. \A a \in 1 .. Len(F3Commented) :
          (\E k \in 1 .. Len(F3Includes) : F3Includes[k] = F3Commented[a])
            <=> F3Commented[a] \notin {"CRYP", "LCD", "LPTIM", "RNG"}
    BY DEF F3Commented, F3Includes
  <2> QED
    BY <1>2, <2>1, <2>2, F3Template DEF HasInclude
<1>3. CASE family = "F7"
  <2>1. \A a \in 1 .. Len(F7Active) :
          \E k \in 1 .. Len(F7Includes) : F7Includes[k] = F7Active[a]
    BY DEF F7Active, F7Includes
  <2>2. \A a \in 1 .. Len(F7Commented) :
          \E k \in 1 .. Len(F7Includes) : F7Includes[k] = F7Commented[a]
    BY DEF F7Commented, F7Includes
  <2> QED
    BY <1>3, <2>1, <2>2, F7Template DEF HasInclude
<1> QED
  BY <1>1, <1>2, <1>3 DEF Families
-----------------------------------------------------------------------------
(***************************************************************************)
(* The invariant.                                                          *)
(***************************************************************************)
ConfInv == ConfTypeOK /\ EnabledInv /\ IncludedInv

\* The template stays the one it was.
LEMMA SameTemplate ==
    ASSUME family' = family
    PROVE  /\ Commented' = Commented /\ Listed' = Listed
           /\ Includes' = Includes
           /\ \A i : Active(i)' <=> Active(i)
<1>1. Commented' = Commented /\ Includes' = Includes
  BY DEF Commented, Includes, Pick
<1>2. Listed' = Listed
  BY <1>1 DEF Listed, Pick
<1> QED
  BY <1>1, <1>2 DEF Active

LEMMA InitInv == ConfInit => ConfInv
<1> SUFFICES ASSUME ConfInit PROVE ConfInv
  OBVIOUS
<1>1. family \in Families /\ part = "list" /\ at = 1
  BY DEF ConfInit, Families
<1>2. LinesRead = {} /\ HeadersAsked = {}
  BY <1>1 DEF LinesRead, HeadersAsked
<1>3. ConfTypeOK
  <2>1. at <= Len(Listed)
    BY <1>1, ListLines
  <2>2. edited \subseteq LinesRead
    BY DEF ConfInit
  <2>3. included \in Seq({Includes[i] : i \in 1 .. Len(Includes)})
    BY DEF ConfInit
  <2> QED
    BY <1>1, <2>1, <2>2, <2>3 DEF ConfTypeOK, Families
<1>4. EnabledInv
  BY <1>2 DEF ConfInit, EnabledInv
<1>5. IncludedInv
  BY <1>1, <1>2 DEF ConfInit, IncludedInv, NeedsComeFirst
<1> QED
  BY <1>3, <1>4, <1>5 DEF ConfInv

\* What a step of the list changes: the line that it reads, and no more.
LEMMA LineStep ==
    ASSUME ConfInv, part = "list", GoOn(Len(Listed), "includes"),
           UNCHANGED <<family, included>>,
           edited' \in {edited, edited \cup {at}},
           enabled' = enabled \cup
                        {Listed[i] : i \in {k \in {at} : SwitchedOn(k)'}}
    PROVE  ConfInv'
<1> USE DEF ConfInv
<1>1. /\ family' = family /\ family \in Families /\ at \in Nat \ {0}
      /\ at \in 1 .. Len(Listed) /\ Len(Listed) \in Nat
  BY ListLines DEF ConfTypeOK, Families
<1>2. /\ Listed' = Listed /\ Includes' = Includes
      /\ \A i : Active(i)' <=> Active(i)
  BY <1>1, SameTemplate
<1>3. /\ at' \in Nat \ {0} /\ part' \in {"list", "includes"}
      /\ part' = "list" => at' = at + 1 /\ at' <= Len(Listed)
      /\ part' = "includes" => at' = 1 /\ at = Len(Listed)
  BY <1>1 DEF GoOn
<1>4. LinesRead = 1 .. at - 1 /\ LinesRead' = 1 .. at
  <2>1. CASE part' = "list"
    BY <1>1, <1>3, <2>1 DEF LinesRead
  <2>2. CASE part' = "includes"
    BY <1>1, <1>2, <1>3, <2>2 DEF LinesRead
  <2> QED
    BY <1>3, <2>1, <2>2
<1>5. HeadersAsked = {} /\ HeadersAsked' = {}
  <2>1. HeadersAsked = {}
    BY DEF HeadersAsked
  <2>2. CASE part' = "list"
    BY <2>2 DEF HeadersAsked
  <2>3. CASE part' = "includes"
    <3>1. HeadersAsked' = 1 .. at' - 1
      BY <2>3 DEF HeadersAsked
    <3>2. 1 .. 1 - 1 = {}
      OBVIOUS
    <3> QED
      BY <1>3, <2>1, <2>3, <3>1, <3>2
  <2> QED
    BY <1>3, <2>1, <2>2, <2>3
<1>6. ConfTypeOK'
  <2>1. edited' \subseteq LinesRead'
    <3>1. edited \subseteq 1 .. at - 1
      BY <1>4 DEF ConfTypeOK
    <3> QED
      BY <1>1, <1>4, <3>1
  <2>2. part' = "includes" => at' <= Len(Includes')
    BY <1>1, <1>2, <1>3, DmaIsFourth
  <2>3. included' \in Seq({Includes'[i] : i \in 1 .. Len(Includes')})
    BY <1>2 DEF ConfTypeOK
  <2> QED
    BY <1>1, <1>2, <1>3, <2>1, <2>2, <2>3 DEF ConfTypeOK, Families
<1>7. EnabledInv'
  <2> DEFINE on == {k \in LinesRead : SwitchedOn(k)}
             this == {k \in {at} : SwitchedOn(k)'}
             onNow == {k \in LinesRead' : SwitchedOn(k)'}
  <2>1. \A k \in LinesRead : SwitchedOn(k)' <=> SwitchedOn(k)
    <3>1. \A k \in LinesRead : k # at
      BY <1>1, <1>4
    <3>2. \A k : k # at => (k \in edited' <=> k \in edited)
      OBVIOUS
    <3> QED
      BY <1>2, <3>1, <3>2 DEF SwitchedOn
  <2>2. LinesRead' = LinesRead \cup {at}
    BY <1>1, <1>4
  <2>3. onNow = on \cup this
    BY <2>1, <2>2
  <2>4. enabled = {Listed[i] : i \in on}
    BY DEF EnabledInv
  <2>5. enabled' = {Listed[i] : i \in this} \cup enabled
    OBVIOUS
  <2> HIDE DEF on, this, onNow
  <2>6. enabled' = {Listed[i] : i \in onNow}
    BY <2>3, <2>4, <2>5
  <2> QED
    BY <1>2, <2>6 DEF EnabledInv, onNow
<1>8. IncludedInv'
  <2>1. {included[j] : j \in 1 .. Len(included)} = {}
    BY <1>5 DEF IncludedInv
  <2>2. NeedsComeFirst'
    BY <2>1 DEF NeedsComeFirst
  <2> QED
    BY <1>5, <2>1, <2>2 DEF IncludedInv
<1> QED
  BY <1>6, <1>7, <1>8

LEMMA KeepInv == ConfInv /\ Keep => ConfInv'
<1> SUFFICES ASSUME ConfInv, Keep PROVE ConfInv'
  OBVIOUS
<1>1. at \notin edited'
  <2>1. at \in Nat /\ edited \subseteq 1 .. at - 1
    BY DEF ConfInv, ConfTypeOK, LinesRead, Keep
  <2> QED
    BY <2>1 DEF Keep
<1>2. \A k \in {at} : SwitchedOn(k)' <=> Active(k)
  <2>1. family' = family
    BY DEF Keep
  <2> QED
    BY <1>1, <2>1, SameTemplate DEF SwitchedOn
<1>3. enabled' = enabled \cup
                   {Listed[i] : i \in {k \in {at} : SwitchedOn(k)'}}
  <2>1. enabled' = IF Active(at) THEN enabled \cup {Listed[at]} ELSE enabled
    BY DEF Keep
  <2> QED
    BY <1>2, <2>1
<1>4. /\ part = "list" /\ GoOn(Len(Listed), "includes") /\ edited' = edited
      /\ UNCHANGED <<family, included>>
  BY DEF Keep
<1> QED
  BY <1>3, <1>4, LineStep

LEMMA EditInv == ConfInv /\ Edit => ConfInv'
<1> SUFFICES ASSUME ConfInv, Edit PROVE ConfInv'
  OBVIOUS
<1>1. \A k \in {at} : SwitchedOn(k)' <=> ~Active(k)
  <2>1. family' = family /\ at \in edited'
    BY DEF Edit
  <2> QED
    BY <2>1, SameTemplate DEF SwitchedOn
<1>2. enabled' = enabled \cup
                   {Listed[i] : i \in {k \in {at} : SwitchedOn(k)'}}
  <2>1. enabled' = IF Active(at) THEN enabled ELSE enabled \cup {Listed[at]}
    BY DEF Edit
  <2> QED
    BY <1>1, <2>1
<1>3. /\ part = "list" /\ GoOn(Len(Listed), "includes")
      /\ edited' = edited \cup {at}
      /\ UNCHANGED <<family, included>>
  BY DEF Edit
<1> QED
  BY <1>2, <1>3, LineStep

\* What it is to append to a sequence, in the set of its elements.
LEMMA AppendElements ==
    ASSUME NEW S, NEW s \in Seq(S), NEW m \in S
    PROVE  /\ Append(s, m) \in Seq(S) /\ Len(s) \in Nat
           /\ Len(Append(s, m)) = Len(s) + 1
           /\ Append(s, m)[Len(s) + 1] = m
           /\ \A j \in 1 .. Len(s) : Append(s, m)[j] = s[j]
           /\ {Append(s, m)[j] : j \in 1 .. Len(Append(s, m))}
                = {s[j] : j \in 1 .. Len(s)} \cup {m}
<1>1. /\ Append(s, m) \in Seq(S) /\ Len(s) \in Nat
      /\ Len(Append(s, m)) = Len(s) + 1
      /\ Append(s, m)[Len(s) + 1] = m
      /\ \A j \in 1 .. Len(s) : Append(s, m)[j] = s[j]
  OBVIOUS
<1>2. 1 .. Len(s) + 1 = (1 .. Len(s)) \cup {Len(s) + 1}
  BY <1>1
<1> QED
  BY <1>1, <1>2

LEMMA IncludeInv == ConfInv /\ Include => ConfInv'
<1> SUFFICES ASSUME ConfInv, Include PROVE ConfInv'
  OBVIOUS
<1> USE DEF ConfInv
<1> DEFINE m == Includes[at]
           All == {Includes[i] : i \in 1 .. Len(Includes)}
<1>1. /\ family' = family /\ edited' = edited /\ enabled' = enabled
      /\ part = "includes"
      /\ GoOn(Len(Includes), "end")
      /\ included' = IF m \in enabled THEN Append(included, m) ELSE included
  BY DEF Include
<1>2. /\ family \in Families /\ at \in 1 .. Len(Includes)
      /\ at \in Nat \ {0} /\ Len(Includes) \in Nat
  BY <1>1, DmaIsFourth DEF ConfTypeOK, Families
<1>3. /\ Listed' = Listed /\ Includes' = Includes
      /\ \A i : Active(i)' <=> Active(i)
  BY <1>1, SameTemplate
<1>4. /\ at' \in Nat \ {0} /\ part' \in {"includes", "end"}
      /\ part' = "includes" => at' = at + 1 /\ at' <= Len(Includes)
      /\ part' = "end" => at' = 1 /\ at = Len(Includes)
  BY <1>1, <1>2 DEF GoOn
<1>5. LinesRead = 1 .. Len(Listed) /\ LinesRead' = LinesRead
  BY <1>1, <1>3, <1>4 DEF LinesRead
<1>7. HeadersAsked = 1 .. at - 1 /\ HeadersAsked' = HeadersAsked \cup {at}
  <2>1. HeadersAsked = 1 .. at - 1
    BY <1>1 DEF HeadersAsked
  <2>2. HeadersAsked' = 1 .. at
    <3>1. CASE part' = "includes"
      BY <1>2, <1>4, <3>1 DEF HeadersAsked
    <3>2. CASE part' = "end"
      BY <1>2, <1>3, <1>4, <3>2 DEF HeadersAsked
    <3> QED
      BY <1>4, <3>1, <3>2
  <2> QED
    BY <1>2, <2>1, <2>2
<1>8. /\ included \in Seq(All) /\ m \in All
      /\ {included[j] : j \in 1 .. Len(included)}
           = {Includes[i] : i \in 1 .. at - 1} \cap enabled
  BY <1>2, <1>7 DEF ConfTypeOK, IncludedInv
<1> HIDE DEF All
<1>9. /\ Append(included, m) \in Seq(All) /\ Len(included) \in Nat
      /\ Len(Append(included, m)) = Len(included) + 1
      /\ Append(included, m)[Len(included) + 1] = m
      /\ \A j \in 1 .. Len(included) : Append(included, m)[j] = included[j]
      /\ {Append(included, m)[j] : j \in 1 .. Len(Append(included, m))}
           = {included[j] : j \in 1 .. Len(included)} \cup {m}
  BY <1>8, AppendElements
<1>10. ConfTypeOK'
  <2>1. edited' \subseteq LinesRead'
    BY <1>1, <1>5 DEF ConfTypeOK
  <2>2. included' \in Seq(All)
    BY <1>1, <1>8, <1>9
  <2> QED
    BY <1>1, <1>2, <1>3, <1>4, <2>1, <2>2 DEF ConfTypeOK, Families, All
<1>11. EnabledInv'
  <2>1. \A k : SwitchedOn(k)' <=> SwitchedOn(k)
    BY <1>1, <1>3 DEF SwitchedOn
  <2> QED
    BY <1>1, <1>3, <1>5, <2>1 DEF EnabledInv
<1>13. {included'[j] : j \in 1 .. Len(included')}
         = {Includes'[i] : i \in HeadersAsked'} \cap enabled'
  <2> DEFINE els == {included[j] : j \in 1 .. Len(included)}
             old == {Includes[i] : i \in 1 .. at - 1}
             new == {Includes[i] : i \in HeadersAsked'}
  <2>1. Includes' = Includes /\ enabled' = enabled
    BY <1>1, <1>3
  <2>2. els = old \cap enabled
    BY <1>8
  <2>3. new = old \cup {m}
    BY <1>7
  <2>4. CASE m \in enabled
    <3>1. included' = Append(included, m)
      BY <1>1, <2>4
    <3>2. {included'[j] : j \in 1 .. Len(included')} = els \cup {m}
      BY <1>9, <3>1
    <3>3. new \cap enabled = els \cup {m}
      <4> HIDE DEF els, m, old, new
      <4> QED
        BY <2>2, <2>3, <2>4
    <3> QED
      BY <2>1, <3>2, <3>3
  <2>5. CASE m \notin enabled
    <3>1. included' = included
      BY <1>1, <2>5
    <3>2. new \cap enabled = els
      <4> HIDE DEF els, m, old, new
      <4> QED
        BY <2>2, <2>3, <2>5
    <3> QED
      BY <2>1, <3>1, <3>2
  <2> QED
    BY <2>4, <2>5
<1>14. NeedsComeFirst'
  <2> SUFFICES ASSUME "DMA" \in enabled, NEW u \in DmaUsers,
                      NEW j \in 1 .. Len(included'), included'[j] = u
               PROVE  \E i \in 1 .. j - 1 : included'[i] = "DMA"
    BY <1>1 DEF NeedsComeFirst
  <2>1. CASE j \in 1 .. Len(included)
    <3>1. included[j] = u
      BY <1>1, <1>9, <2>1
    <3>2. PICK i \in 1 .. j - 1 : included[i] = "DMA"
      BY <1>1, <2>1, <3>1 DEF IncludedInv, NeedsComeFirst
    <3>3. i \in 1 .. Len(included)
      BY <1>9, <2>1
    <3> QED
      BY <1>1, <1>9, <3>2, <3>3
  <2>2. CASE j \notin 1 .. Len(included)
    <3>1. m \in enabled /\ j = Len(included) + 1 /\ u = m
      BY <1>1, <1>9, <2>2
    <3>2. 4 \in 1 .. at - 1 /\ Includes[4] = "DMA"
      BY <1>2, <3>1, DmaIsFourth
    <3>3. PICK i \in 1 .. Len(included) : included[i] = "DMA"
      BY <1>8, <3>2
    <3>4. i \in 1 .. j - 1 /\ included'[i] = "DMA"
      BY <1>1, <1>9, <3>1, <3>3
    <3> QED
      BY <3>4
  <2> QED
    BY <2>1, <2>2
<1>15. IncludedInv'
  BY <1>13, <1>14 DEF IncludedInv
<1> QED
  BY <1>10, <1>11, <1>15

-----------------------------------------------------------------------------
(***************************************************************************)
(* The invariant holds in every state, whatever an application edits.      *)
(***************************************************************************)
THEOREM ConfInvariant == ConfSpec => []ConfInv
<1>1. ASSUME ConfInv, [ConfNext]_vars PROVE ConfInv'
  <2>1. CASE Keep
    BY <1>1, <2>1, KeepInv
  <2>2. CASE Edit
    BY <1>1, <2>2, EditInv
  <2>3. CASE Include
    BY <1>1, <2>3, IncludeInv
  <2>4. CASE UNCHANGED vars
    <3>1. /\ ConfTypeOK' <=> ConfTypeOK
          /\ EnabledInv' <=> EnabledInv
      BY <2>4 DEF vars, ConfTypeOK, EnabledInv, LinesRead, SwitchedOn,
                  Listed, Active, Commented, Includes, Pick
    <3>2. IncludedInv' <=> IncludedInv
      BY <2>4 DEF vars, IncludedInv, NeedsComeFirst, HeadersAsked, Includes,
                  Pick
    <3> QED
      BY <1>1, <3>1, <3>2 DEF ConfInv
  <2> QED
    BY <1>1, <2>1, <2>2, <2>3, <2>4 DEF ConfNext
<1> QED
  BY <1>1, InitInv, PTL DEF ConfSpec

(***************************************************************************)
(* In all three templates the header of DMA is read before every header    *)
(* whose handles hold a DMA handle, for every choice of modules that       *)
(* leaves DMA on: the order of the #include lines.                         *)
(***************************************************************************)
THEOREM DmaComesFirst == ConfSpec => []NeedsComeFirst
<1>1. ConfInv => NeedsComeFirst
  BY DEF ConfInv, IncludedInv
<1> QED
  BY <1>1, ConfInvariant, PTL

(***************************************************************************)
(* At the end of the list a module is enabled if a line of its name is     *)
(* switched on, and no other.                                              *)
(***************************************************************************)
LEMMA EnabledAtEnd ==
    ASSUME ConfInv, part = "end"
    PROVE  /\ \A i \in 1 .. Len(Listed) :
                SwitchedOn(i) => Listed[i] \in enabled
           /\ \A m \in enabled :
                \E i \in 1 .. Len(Listed) : SwitchedOn(i) /\ Listed[i] = m
<1>1. LinesRead = 1 .. Len(Listed)
  BY DEF LinesRead
<1> QED
  BY <1>1 DEF ConfInv, EnabledInv

(***************************************************************************)
(* For every set of lines edited: to comment one of a module's lines in or *)
(* out changes whether the module is on, except for the lines named, of    *)
(* the F1's and the F7's lists, which change nothing.                      *)
(***************************************************************************)
LEMMA InTemplate ==
    ASSUME family \in Families, NEW m
    PROVE  OnInTemplate(m) <=> \E b \in 1 .. Len(ActiveLines) :
                                 ActiveLines[b] = m
  BY ListLines DEF OnInTemplate

THEOREM OneLineDecides == ConfSpec => []EditDecides
<1>1. ASSUME ConfInv, part = "end", NEW i \in edited,
             \A j \in edited \ {i} : Listed[j] # Listed[i]
      PROVE  (Listed[i] \in enabled <=> OnInTemplate(Listed[i]))
               <=> Listed[i] \in IF Active(i) THEN OnTwice ELSE OnAnyway
  <2>1. family \in Families /\ i \in 1 .. Len(Listed)
    BY <1>1 DEF ConfInv, ConfTypeOK, LinesRead, Families
  <2>2. CASE ~Active(i)
    <3>1. Listed[i] \in enabled
      BY <1>1, <2>1, <2>2, EnabledAtEnd DEF SwitchedOn
    <3>2. i \in 1 .. Len(Commented) /\ Listed[i] = Commented[i]
      BY <2>1, <2>2, ListLines
    <3>3. OnInTemplate(Listed[i]) <=> Listed[i] \in OnAnyway
      BY <2>1, <3>2, InTemplate, CommentedNames
    <3> QED
      BY <2>2, <3>1, <3>3
  <2>3. CASE Active(i)
    <3>1. PICK a \in 1 .. Len(ActiveLines) :
            i = Len(Commented) + a /\ Listed[i] = ActiveLines[a]
      BY <2>1, <2>3, ListLines
    <3>2. OnInTemplate(Listed[i])
      BY <2>1, <2>3 DEF OnInTemplate
    <3>3. ASSUME Listed[i] \in enabled PROVE Listed[i] \in OnTwice
      <4>1. PICK k \in 1 .. Len(Listed) :
              SwitchedOn(k) /\ Listed[k] = Listed[i]
        BY <1>1, <3>3, EnabledAtEnd
      <4>2. k # i /\ k \notin edited /\ Active(k)
        BY <1>1, <2>3, <4>1 DEF SwitchedOn
      <4>3. PICK b \in 1 .. Len(ActiveLines) :
              k = Len(Commented) + b /\ Listed[k] = ActiveLines[b]
        BY <2>1, <4>2, ListLines
      <4>4. b # a /\ ActiveLines[b] = ActiveLines[a]
        BY <3>1, <4>1, <4>2, <4>3
      <4> QED
        BY <2>1, <3>1, <4>4, ActiveNames
    <3>4. ASSUME Listed[i] \in OnTwice PROVE Listed[i] \in enabled
      <4>1. PICK b \in 1 .. Len(ActiveLines) :
              b # a /\ ActiveLines[b] = ActiveLines[a]
        BY <2>1, <3>1, <3>4, ActiveNames
      <4> DEFINE k == Len(Commented) + b
      <4>2. k \in 1 .. Len(Listed) /\ Active(k) /\ Listed[k] = Listed[i]
        BY <2>1, <3>1, <4>1, ListLines
      <4>3. k # i
        <5>1. Len(Commented) \in Nat
          BY <2>1, ListParts
        <5> QED
          BY <3>1, <4>1, <5>1
      <4>4. k \notin edited
        BY <1>1, <4>2, <4>3
      <4> QED
        BY <1>1, <4>2, <4>4, EnabledAtEnd DEF SwitchedOn
    <3> QED
      BY <2>3, <3>2, <3>3, <3>4
  <2> QED
    BY <2>2, <2>3
<1>2. ConfInv => EditDecides
  BY <1>1 DEF EditDecides
<1> QED
  BY <1>2, ConfInvariant, PTL

(***************************************************************************)
(* A module that is enabled can be used, for every choice of modules:      *)
(* the templates' #include lines answer every line of their lists, and the *)
(* archives hold what the templates enable, but for the modules named.     *)
(***************************************************************************)
THEOREM EnabledCanBeUsed == ConfSpec => []EnabledIsUsable
<1>1. ASSUME ConfInv, part = "end", NEW m \in enabled
      PROVE  /\ Read(m) <=> m \notin NoHeader
             /\ (\A i \in edited : Listed[i] # m)
                  => (m \in Archive <=> m \notin NotBuilt)
  <2>1. family \in Families
    BY <1>1 DEF ConfInv, ConfTypeOK, Families
  <2>2. PICK i \in 1 .. Len(Listed) : SwitchedOn(i) /\ Listed[i] = m
    BY <1>1, EnabledAtEnd
  <2>3. Read(m) <=> HasInclude(m)
    <3>1. HeadersAsked = 1 .. Len(Includes)
      BY <1>1 DEF HeadersAsked
    <3>2. {included[j] : j \in 1 .. Len(included)}
            = {Includes[k] : k \in 1 .. Len(Includes)} \cap enabled
      BY <1>1, <3>1 DEF ConfInv, IncludedInv
    <3>3. Read(m) <=> m \in {included[j] : j \in 1 .. Len(included)}
      BY DEF Read
    <3>4. HasInclude(m) <=> m \in {Includes[k] : k \in 1 .. Len(Includes)}
      BY DEF HasInclude
    <3> QED
      BY <1>1, <3>2, <3>3, <3>4
  <2>4. HasInclude(m) <=> m \notin NoHeader
    <3>1. CASE Active(i)
      BY <2>1, <2>2, <3>1, ListLines, HeadersListed
    <3>2. CASE ~Active(i)
      BY <2>1, <2>2, <3>2, ListLines, HeadersListed
    <3> QED
      BY <3>1, <3>2
  <2>5. ASSUME \A k \in edited : Listed[k] # m
        PROVE  m \in Archive <=> m \notin NotBuilt
    <3>1. Active(i)
      BY <2>2, <2>5 DEF SwitchedOn
    <3> QED
      BY <2>1, <2>2, <3>1, ListLines, ActiveNames
  <2> QED
    BY <2>3, <2>4, <2>5
<1>2. ConfInv => EnabledIsUsable
  BY <1>1 DEF EnabledIsUsable
<1> QED
  BY <1>2, ConfInvariant, PTL
=============================================================================
