---------------------------- MODULE Shell_proof ----------------------------
(***************************************************************************)
(* Shell: types, the sizes of the files and the homes of the users, for    *)
(* every table, heap and set of names, and that the commands implement     *)
(* Catalog.                                                                *)
(***************************************************************************)
EXTENDS Shell, Integers, TLAPS, SequenceTheorems

\* What each entry is.
Good(e) == /\ e \in Entries
           /\ e.size = TextLen[e.text]
           /\ e.folder => e.text = Empty

\* The inductive invariant, in two parts: the table, and the rest.
FilesOK ==
  /\ file_capacity \in Nat /\ file_capacity >= 2 /\ file_count \in 0 .. file_capacity
  /\ heap \in file_capacity .. HeapSlots
  /\ file_system \in [1 .. file_capacity -> Entries]
  /\ \A i \in 1 .. file_count : Good(file_system[i])

RestOK ==
  /\ current_directory \in Paths
  /\ users \in Seq(Names) /\ current_user \in Names
  /\ mounted \in BOOLEAN /\ overrun \in BOOLEAN
  /\ question = << >> \/ question \in AllNames \X Names
  /\ commands \in 0 .. MaxCommands

EditOK ==
  /\ editing \in 0 .. file_count
  /\ editing # 0 => question = << >> /\ ~file_system[editing].folder

Inv == FilesOK /\ RestOK /\ EditOK

-----------------------------------------------------------------------------
LEMMA InvIs == Inv => TypeOK /\ SizeIsText
BY DEF Inv, FilesOK, RestOK, EditOK, TypeOK, SizeIsText, Good, Used

\* What the table is after the commands that add to it.
LEMMA StoreFiles ==
  ASSUME FilesOK, NEW n \in {1, 2}, NEW es \in Seq(Entries), Len(es) <= n,
         \A i \in 1 .. Len(es) : Good(es[i]), Store(n, es)
  PROVE  FilesOK' /\ file_count' = file_count + Len(es)
<1>. DEFINE L == Len(es)
            cap == Capacity(n)
<1>1. /\ file_capacity \in Nat /\ file_capacity >= 2 /\ file_count \in 0 .. file_capacity
      /\ heap \in file_capacity .. HeapSlots
      /\ file_system \in [1 .. file_capacity -> Entries]
      /\ \A i \in 1 .. file_count : Good(file_system[i])
  BY DEF FilesOK
<1>2. L \in 0 .. n
  OBVIOUS
<1>3. /\ Enough(n) <=> file_count + n <= file_capacity
      /\ cap = IF Enough(n) THEN file_capacity ELSE 2 * file_capacity
      /\ Enough(n) \/ heap + cap <= HeapSlots
      /\ file_capacity' = cap
      /\ heap' = IF Enough(n) THEN heap ELSE heap + cap
      /\ file_count' = file_count + L
      /\ file_system' = [i \in 1 .. cap |->
                            IF i > file_count /\ i <= file_count + L
                            THEN es[i - file_count]
                            ELSE IF i <= file_count \/ Enough(n) THEN file_system[i]
                            ELSE Blank]
  BY DEF Store, Enough, Capacity, HasRoom
<1>4. HeapSlots \in Nat
  BY InitialAssumption
<1>. HIDE DEF L, cap
<1>5. cap \in Nat /\ cap >= file_capacity /\ file_count + n <= cap
  BY <1>1, <1>3
<1>6. Blank \in Entries
  <2>1. NoName \in AllNames /\ << >> \in Paths /\ Empty \in Texts /\ 0 \in Nat
    BY TextAssumption DEF AllNames, Paths
  <2>. QED  BY <2>1 DEF Blank, Entries
<1>7. ASSUME NEW i \in 1 .. cap
      PROVE  /\ file_system'[i] \in Entries
             /\ i <= file_count + L => Good(file_system'[i])
  <2>1. CASE i > file_count /\ i <= file_count + L
    <3>1. i - file_count \in 1 .. Len(es)
      BY <1>1, <1>2, <2>1 DEF L
    <3>2. file_system'[i] = es[i - file_count]
      BY <1>3, <2>1
    <3>. QED  BY <3>1, <3>2 DEF Good
  <2>2. CASE i <= file_count
    <3>1. i \in 1 .. file_count /\ i \in 1 .. file_capacity /\ ~(i > file_count)
      BY <1>1, <2>2
    <3>2. file_system'[i] = file_system[i]
      BY <1>3, <3>1
    <3>. QED  BY <1>1, <3>1, <3>2
  <2>3. CASE i > file_count + L
    <3>1. ~(i <= file_count) /\ ~(i <= file_count + L)
      BY <1>1, <1>2, <2>3
    <3>2. CASE Enough(n)
      <4>1. file_system'[i] = file_system[i] /\ i \in 1 .. file_capacity
        BY <1>3, <3>1, <3>2
      <4>. QED  BY <1>1, <3>1, <4>1
    <3>3. CASE ~Enough(n)
      <4>1. file_system'[i] = Blank
        BY <1>3, <3>1, <3>3
      <4>. QED  BY <1>6, <3>1, <4>1
    <3>. QED  BY <3>2, <3>3
  <2>. QED  BY <1>1, <1>2, <2>1, <2>2, <2>3
<1>8. file_system' \in [1 .. file_capacity' -> Entries]
  BY <1>3, <1>7
<1>9. \A i \in 1 .. file_count' : Good(file_system'[i])
  <2>1. \A i \in 1 .. file_count' : i \in 1 .. cap /\ i <= file_count + L
    BY <1>1, <1>2, <1>3, <1>5
  <2>. QED  BY <1>7, <2>1
<1>10. heap' \in file_capacity' .. HeapSlots
  BY <1>1, <1>3, <1>4, <1>5
<1>11. file_count' \in 0 .. file_capacity'
  BY <1>1, <1>2, <1>3, <1>5
<1>12. FilesOK'
  <2>1. file_capacity' \in Nat /\ file_capacity' >= 2
    BY <1>1, <1>3, <1>5
  <2>. QED  BY <2>1, <1>8, <1>9, <1>10, <1>11 DEF FilesOK
<1>. QED  BY <1>3, <1>12 DEF L

LEMMA NewGood ==
  ASSUME NEW n \in AllNames, NEW p \in Paths, NEW d \in BOOLEAN
  PROVE  Good(New(n, p, d))
BY TextAssumption DEF Good, New, Entries

LEMMA StoreNone ==
  ASSUME FilesOK, Store(1, << >>)
  PROVE  FilesOK' /\ file_count' = file_count
<1>. DEFINE es == << >>
<1>1. es \in Seq(Entries) /\ Len(es) = 0
  OBVIOUS
<1>2. Store(1, es) /\ file_count \in Nat
  BY DEF FilesOK
<1>. HIDE DEF es
<1>3. \A i \in 1 .. Len(es) : Good(es[i])
  BY <1>1
<1>a. 1 \in {1, 2} /\ Len(es) <= 1
  BY <1>1
<1>4. FilesOK' /\ file_count' = file_count + Len(es)
  BY <1>1, <1>2, <1>3, <1>a, StoreFiles
<1>. QED  BY <1>1, <1>2, <1>4

LEMMA StoreOne ==
  ASSUME FilesOK, NEW e, Good(e), Store(1, <<e>>)
  PROVE  FilesOK' /\ file_count' = file_count + 1
<1>. DEFINE es == <<e>>
<1>1. es \in Seq(Entries) /\ Len(es) = 1 /\ es[1] = e
  BY DEF Good
<1>2. Store(1, es)
  OBVIOUS
<1>. HIDE DEF es
<1>3. \A i \in 1 .. Len(es) : Good(es[i])
  <2>1. \A i \in 1 .. Len(es) : i = 1
    BY <1>1
  <2>. QED  BY <1>1, <2>1
<1>a. 1 \in {1, 2} /\ Len(es) <= 1
  BY <1>1
<1>4. FilesOK' /\ file_count' = file_count + Len(es)
  BY <1>1, <1>2, <1>3, <1>a, StoreFiles
<1>. QED  BY <1>1, <1>4

LEMMA StoreTwo ==
  ASSUME FilesOK, NEW e, Good(e), NEW f, Good(f), Store(2, <<e, f>>)
  PROVE  FilesOK' /\ file_count' = file_count + 2
<1>. DEFINE es == <<e, f>>
<1>1. es \in Seq(Entries) /\ Len(es) = 2 /\ es[1] = e /\ es[2] = f
  BY DEF Good
<1>2. Store(2, es)
  OBVIOUS
<1>. HIDE DEF es
<1>3. \A i \in 1 .. Len(es) : Good(es[i])
  <2>1. \A i \in 1 .. Len(es) : i = 1 \/ i = 2
    BY <1>1
  <2>. QED  BY <1>1, <2>1
<1>a. 2 \in {1, 2} /\ Len(es) <= 2
  BY <1>1
<1>4. FilesOK' /\ file_count' = file_count + Len(es)
  BY <1>1, <1>2, <1>3, <1>a, StoreFiles
<1>. QED  BY <1>1, <1>4

LEMMA DeleteFiles ==
  ASSUME FilesOK, NEW k \in 1 .. file_count, Delete(k)
  PROVE  FilesOK' /\ file_count' = file_count - 1
<1>1. /\ file_capacity \in Nat /\ file_capacity >= 2 /\ file_count \in 0 .. file_capacity
      /\ file_system \in [1 .. file_capacity -> Entries]
      /\ \A i \in 1 .. file_count : Good(file_system[i])
  BY DEF FilesOK
<1>2. /\ file_system' = [i \in 1 .. file_capacity |->
                            IF i >= k /\ i < file_count THEN file_system[i + 1]
                            ELSE file_system[i]]
      /\ file_count' = file_count - 1
      /\ UNCHANGED <<file_capacity, heap>>
  BY DEF Delete
<1>3. ASSUME NEW i \in 1 .. file_capacity PROVE file_system'[i] \in Entries
  <2>1. i < file_count => i + 1 \in 1 .. file_capacity
    BY <1>1
  <2>. QED  BY <1>1, <1>2, <2>1
<1>4. ASSUME NEW i \in 1 .. file_count - 1 PROVE Good(file_system'[i])
  <2>1. i \in 1 .. file_capacity /\ i \in 1 .. file_count /\ i + 1 \in 1 .. file_count
    BY <1>1
  <2>2. file_system'[i] = file_system[i] \/ file_system'[i] = file_system[i + 1]
    BY <1>2, <2>1
  <2>. QED  BY <1>1, <2>1, <2>2
<1>5. file_count' \in 0 .. file_capacity'
  BY <1>1, <1>2
<1>6. FilesOK'
  BY <1>1, <1>2, <1>3, <1>4, <1>5 DEF FilesOK, Good
<1>. QED  BY <1>2, <1>6

LEMMA InscribeFiles ==
  ASSUME FilesOK, NEW k \in 1 .. file_count, ~file_system[k].folder,
         NEW t \in Texts, Inscribe(k, t)
  PROVE  FilesOK' /\ file_count' = file_count
<1>. DEFINE e == [name   |-> file_system[k].name,
                  parent |-> file_system[k].parent,
                  folder |-> file_system[k].folder,
                  text   |-> t,
                  size   |-> TextLen[t]]
<1>1. /\ file_capacity \in Nat /\ file_count \in 0 .. file_capacity
      /\ file_system \in [1 .. file_capacity -> Entries]
      /\ \A i \in 1 .. file_count : Good(file_system[i])
  BY DEF FilesOK
<1>2. /\ file_system' = [i \in 1 .. file_capacity |->
                            IF i = k THEN e ELSE file_system[i]]
      /\ UNCHANGED <<file_count, file_capacity, heap>>
  BY DEF Inscribe
<1>3. Good(e)
  <2>1. k \in 1 .. file_capacity
    BY <1>1
  <2>2. file_system[k] \in Entries
    BY <1>1, <2>1
  <2>3. TextLen[t] \in Nat
    BY TextAssumption
  <2>. QED  BY <2>2, <2>3 DEF Good, Entries
<1>. HIDE DEF e
<1>4. \A i \in 1 .. file_capacity : file_system'[i] \in Entries
  BY <1>1, <1>2, <1>3 DEF Good
<1>5. \A i \in 1 .. file_count : Good(file_system'[i])
  <2>1. \A i \in 1 .. file_count : i \in 1 .. file_capacity
    BY <1>1
  <2>. QED  BY <1>1, <1>2, <1>3, <2>1
<1>. QED  BY <1>1, <1>2, <1>4, <1>5 DEF FilesOK, Good

-----------------------------------------------------------------------------
(* Every command keeps the invariant. *)

\* A command counts itself and leaves nothing open.
LEMMA CommandRest ==
  ASSUME Inv, Command, Stays,
         current_directory' \in Paths, users' \in Seq(Names), current_user' \in Names,
         UNCHANGED mounted, overrun' \in BOOLEAN, file_count' \in Nat
  PROVE  RestOK' /\ EditOK'
<1>1. commands' \in 0 .. MaxCommands
  BY InitialAssumption DEF Inv, RestOK, Command
<1>2. question' = << >> /\ editing' = 0
  BY DEF Command, Stays
<1>. QED  BY <1>1, <1>2 DEF Inv, RestOK, EditOK

\* What a command does to the table.
LEMMA FullFiles ==
  ASSUME FilesOK, UNCHANGED files
  PROVE  FilesOK' /\ file_count' = file_count /\ file_count \in Nat
BY DEF FilesOK, files

LEMMA CreateFolderInv ==
  ASSUME Inv, NEW n \in AllNames, CreateFolder(n)
  PROVE  Inv'
<1>1. FilesOK' /\ file_count' \in Nat
  <2>1. CASE Full(1)
    BY <2>1, FullFiles DEF Full, Inv
  <2>2. CASE Store(1, <<New(n, current_directory, TRUE)>>)
    <3>1. Good(New(n, current_directory, TRUE))
      BY NewGood DEF Inv, RestOK
    <3>2. FilesOK /\ file_count \in Nat
      BY DEF Inv, FilesOK
    <3>3. FilesOK' /\ file_count' = file_count + 1
      BY <2>2, <3>1, <3>2, StoreOne
    <3>. QED  BY <2>2, <3>2, <3>3
  <2>. QED  BY <2>1, <2>2 DEF CreateFolder
<1>2. RestOK' /\ EditOK'
  BY <1>1, CommandRest DEF CreateFolder, session, Inv, RestOK
<1>. QED  BY <1>1, <1>2 DEF Inv

LEMMA CreateFileInv ==
  ASSUME Inv, NEW n \in Names, CreateFile(n)
  PROVE  Inv'
<1>1. FilesOK' /\ file_count' \in Nat
  <2>1. CASE Full(1)
    BY <2>1, FullFiles DEF Full, Inv
  <2>2. CASE Store(1, <<New(n, current_directory, FALSE)>>)
    <3>1. Good(New(n, current_directory, FALSE))
      BY NewGood DEF Inv, RestOK, AllNames
    <3>2. FilesOK /\ file_count \in Nat
      BY DEF Inv, FilesOK
    <3>3. FilesOK' /\ file_count' = file_count + 1
      BY <2>2, <3>1, <3>2, StoreOne
    <3>. QED  BY <2>2, <3>2, <3>3
  <2>. QED  BY <2>1, <2>2 DEF CreateFile
<1>2. RestOK' /\ EditOK'
  BY <1>1, CommandRest DEF CreateFile, session, Inv, RestOK
<1>. QED  BY <1>1, <1>2 DEF Inv

LEMMA UsageInv ==
  ASSUME Inv, Usage
  PROVE  Inv'
<1>1. FilesOK' /\ file_count' \in Nat
  <2>1. CASE Full(1)
    BY <2>1, FullFiles DEF Full, Inv
  <2>2. CASE Store(1, << >>)
    BY <2>2, StoreNone DEF Inv, FilesOK
  <2>. QED  BY <2>1, <2>2 DEF Usage
<1>2. RestOK' /\ EditOK'
  BY <1>1, CommandRest DEF Usage, session, Inv, RestOK
<1>. QED  BY <1>1, <1>2 DEF Inv

\* The paths that the commands build.
LEMMA PathTypes ==
  ASSUME NEW p \in Paths, NEW d \in AllNames
  PROVE  Append(p, d) \in Paths /\ <<d>> \in Paths /\ << >> \in Paths
BY DEF Paths

LEMMA CreateInInv ==
  ASSUME Inv, NEW d \in AllNames, NEW n \in Names, CreateIn(d, n)
  PROVE  Inv'
<1>1. n \in AllNames /\ Append(current_directory, d) \in Paths
  BY PathTypes DEF AllNames, Inv, RestOK
<1>2. /\ FilesOK' /\ file_count' \in Nat
      /\ question' = << >> \/ question' \in AllNames \X Names
  <2>1. CASE Full(1) /\ UNCHANGED question
    BY <2>1, FullFiles DEF Full, Inv, RestOK
  <2>2. CASE /\ Store(1, <<New(n, Append(current_directory, d), FALSE)>>)
             /\ UNCHANGED question
    <3>1. Good(New(n, Append(current_directory, d), FALSE))
      BY <1>1, NewGood
    <3>2. FilesOK /\ file_count \in Nat
      BY DEF Inv, FilesOK
    <3>3. FilesOK' /\ file_count' = file_count + 1
      BY <2>2, <3>1, <3>2, StoreOne
    <3>. QED  BY <2>2, <3>2, <3>3 DEF Inv, RestOK
  <2>3. CASE Store(1, << >>) /\ question' = <<d, n>>
    BY <2>3, StoreNone DEF Inv, FilesOK
  <2>. QED  BY <2>1, <2>2, <2>3 DEF CreateIn
<1>3. RestOK' /\ EditOK'
  <2>1. commands' \in 0 .. MaxCommands
    BY InitialAssumption DEF Inv, RestOK, CreateIn, Command
  <2>2. editing' = 0
    BY DEF CreateIn, Command
  <2>. QED  BY <1>2, <2>1, <2>2 DEF CreateIn, session, Inv, RestOK, EditOK
<1>. QED  BY <1>2, <1>3 DEF Inv

LEMMA AnswerRest ==
  ASSUME Inv, Answer, file_count' \in Nat
  PROVE  RestOK' /\ EditOK'
<1>1. editing = 0
  BY DEF Inv, EditOK, Answer
<1>. QED  BY <1>1 DEF Answer, session, Inv, RestOK, EditOK

LEMMA NoInv ==
  ASSUME Inv, No
  PROVE  Inv'
<1>1. FilesOK' /\ file_count' \in Nat
  BY FullFiles DEF No, Inv
<1>2. RestOK' /\ EditOK'
  BY <1>1, AnswerRest DEF No
<1>. QED  BY <1>1, <1>2 DEF Inv

LEMMA YesInv ==
  ASSUME Inv, Yes
  PROVE  Inv'
<1>. DEFINE e == New(question[1], current_directory, TRUE)
            f == New(question[2], Append(current_directory, question[1]), FALSE)
<1>1. question \in AllNames \X Names /\ current_directory \in Paths
  BY DEF Yes, Answer, Inv, RestOK
<1>2. question[1] \in AllNames /\ question[2] \in AllNames
  BY <1>1 DEF AllNames
<1>3. Good(e) /\ Good(f)
  <2>1. Append(current_directory, question[1]) \in Paths
    BY <1>1, <1>2, PathTypes
  <2>. QED  BY <1>1, <1>2, <2>1, NewGood
<1>4. Full(2) \/ Store(2, <<e, f>>)
  BY DEF Yes
<1>5. FilesOK /\ file_count \in Nat
  BY DEF Inv, FilesOK
<1>. HIDE DEF e, f
<1>6. FilesOK' /\ file_count' \in Nat
  <2>1. CASE Full(2)
    BY <2>1, <1>5, FullFiles DEF Full
  <2>2. CASE Store(2, <<e, f>>)
    <3>1. FilesOK' /\ file_count' = file_count + 2
      BY <1>3, <1>5, <2>2, StoreTwo
    <3>. QED  BY <1>5, <3>1
  <2>. QED  BY <1>4, <2>1, <2>2
<1>7. RestOK' /\ EditOK'
  BY <1>6, AnswerRest DEF Yes
<1>. QED  BY <1>6, <1>7 DEF Inv

LEMMA RmInv ==
  ASSUME Inv, NEW n \in AllNames, Rm(n)
  PROVE  Inv'
<1>1. FilesOK' /\ file_count' \in Nat
  <2>1. CASE UNCHANGED files
    BY <2>1, FullFiles DEF Inv
  <2>2. ASSUME NEW k \in Used, Delete(k) PROVE FilesOK' /\ file_count' \in Nat
    <3>1. FilesOK /\ file_count \in Nat /\ k \in 1 .. file_count
      BY DEF Inv, FilesOK, Used
    <3>2. FilesOK' /\ file_count' = file_count - 1
      BY <2>2, <3>1, DeleteFiles
    <3>. QED  BY <3>1, <3>2
  <2>. QED  BY <2>1, <2>2 DEF Rm
<1>2. RestOK' /\ EditOK'
  BY <1>1, CommandRest DEF Rm, session, Inv, RestOK
<1>. QED  BY <1>1, <1>2 DEF Inv

LEMMA WriteInv ==
  ASSUME Inv, NEW n \in Names, NEW t \in Texts \ {Empty}, Write(n, t)
  PROVE  Inv'
<1>1. FilesOK' /\ file_count' \in Nat
  <2>1. CASE UNCHANGED files
    BY <2>1, FullFiles DEF Inv
  <2>2. ASSUME NEW k \in Used, k \in FilesNamed(n), Inscribe(k, t)
        PROVE  FilesOK' /\ file_count' \in Nat
    <3>1. FilesOK /\ file_count \in Nat /\ k \in 1 .. file_count /\ t \in Texts
      BY DEF Inv, FilesOK, Used
    <3>2. ~file_system[k].folder
      BY <2>2 DEF FilesNamed
    <3>3. FilesOK' /\ file_count' = file_count
      BY <2>2, <3>1, <3>2, InscribeFiles
    <3>. QED  BY <3>1, <3>3
  <2>. QED  BY <2>1, <2>2 DEF Write, IsFirst
<1>2. RestOK' /\ EditOK'
  BY <1>1, CommandRest DEF Write, session, Inv, RestOK
<1>. QED  BY <1>1, <1>2 DEF Inv

LEMMA CopyInv ==
  ASSUME Inv, NEW s \in Names, NEW d \in Names, Copy(s, d)
  PROVE  Inv'
<1>0. FilesOK /\ file_count \in Nat
  BY DEF Inv, FilesOK
<1>1. FilesOK' /\ file_count' \in Nat
  <2>1. CASE Full(1)
    BY <2>1, FullFiles DEF Full, Inv
  <2>2. CASE Store(1, << >>)
    BY <2>2, StoreNone DEF Inv, FilesOK
  <2>3. ASSUME NEW k \in Used, k \in FilesNamed(s), Store(1, <<Copied(k, d)>>)
        PROVE  FilesOK' /\ file_count' \in Nat
    <3>1. Good(file_system[k])
      BY <1>0, <2>3 DEF FilesOK, Used
    <3>2. Good(Copied(k, d))
      BY <3>1 DEF Good, Copied, Entries, AllNames, Inv, RestOK
    <3>3. FilesOK' /\ file_count' = file_count + 1
      BY <1>0, <2>3, <3>2, StoreOne
    <3>. QED  BY <1>0, <3>3
  <2>. QED  BY <2>1, <2>2, <2>3 DEF Copy, IsFirst
<1>2. RestOK' /\ EditOK'
  BY <1>1, CommandRest DEF Copy, session, Inv, RestOK
<1>. QED  BY <1>1, <1>2 DEF Inv

LEMMA OpenInv ==
  ASSUME Inv, NEW S, Open(S)
  PROVE  Inv'
<1>1. PICK k \in Used : ~file_system[k].folder /\ editing' = k
  BY DEF Open
<1>2. FilesOK' /\ UNCHANGED files
  BY FullFiles DEF Open, Inv
<1>3. RestOK'
  BY InitialAssumption DEF Open, Command, session, Inv, RestOK
<1>4. EditOK'
  <2>1. k \in 0 .. file_count
    BY DEF Used, Inv, FilesOK
  <2>. QED  BY <1>1, <1>2, <2>1 DEF EditOK, Open, Command, files
<1>. QED  BY <1>2, <1>3, <1>4 DEF Inv

LEMMA LeaveInv ==
  ASSUME Inv, NEW t \in Texts, Leave(t)
  PROVE  Inv'
<1>1. /\ FilesOK /\ editing \in 1 .. file_count /\ ~file_system[editing].folder
      /\ Inscribe(editing, t) /\ file_count \in Nat
  BY DEF Inv, EditOK, FilesOK, Leave
<1>2. FilesOK' /\ file_count' = file_count
  BY <1>1, InscribeFiles
<1>3. RestOK'
  BY DEF Leave, session, Inv, RestOK
<1>4. EditOK'
  BY <1>1, <1>2 DEF EditOK, Leave
<1>. QED  BY <1>2, <1>3, <1>4 DEF Inv

LEMMA GotoInv ==
  ASSUME Inv, NEW p \in Paths, Goto(p)
  PROVE  Inv'
<1>1. FilesOK' /\ file_count' \in Nat
  BY FullFiles DEF Goto, Inv
<1>2. RestOK' /\ EditOK'
  BY <1>1, CommandRest DEF Goto, Inv, RestOK
<1>. QED  BY <1>1, <1>2 DEF Inv

LEMMA CdInv ==
  ASSUME Inv, CdRoot \/ CdUp \/ \E n \in Names : Cd(n) \/ CdMounted(n)
  PROVE  Inv'
<1>1. current_directory \in Paths /\ FilesOK
  BY DEF Inv, RestOK
<1>2. \A p \in Paths : Goto(p) => Inv'
  BY GotoInv
<1>3. CASE CdRoot
  <2>1. << >> \in Paths
    BY DEF Paths
  <2>. QED  BY <1>2, <1>3, <2>1 DEF CdRoot
<1>4. CASE CdUp
  <2>1. Len(current_directory) > 1 =>
            SubSeq(current_directory, 1, Len(current_directory) - 1) \in Paths
    BY <1>1, SubSeqProperties DEF Paths
  <2>2. (IF Len(current_directory) > 1
         THEN SubSeq(current_directory, 1, Len(current_directory) - 1)
         ELSE current_directory) \in Paths
    BY <1>1, <2>1
  <2>. QED  BY <1>2, <1>4, <2>2 DEF CdUp
<1>5. ASSUME NEW n \in Names, Cd(n) PROVE Inv'
  <2>1. PICK k \in Used : Goto(Append(current_directory, file_system[k].name))
    BY <1>5 DEF Cd
  <2>2. file_system[k].name \in AllNames
    BY <1>1 DEF FilesOK, Good, Entries, Used
  <2>. QED  BY <1>1, <1>2, <2>1, <2>2, PathTypes
<1>6. ASSUME NEW n \in Names, CdMounted(n) PROVE Inv'
  <2>1. n \in AllNames
    BY DEF AllNames
  <2>. QED  BY <1>1, <1>2, <1>6, <2>1, PathTypes DEF CdMounted
<1>. QED  BY <1>3, <1>4, <1>5, <1>6

LEMMA UserAddInv ==
  ASSUME Inv, NEW n \in Names, NEW words, UserAdd(n, words)
  PROVE  Inv'
<1>0. FilesOK /\ file_count \in Nat /\ n \in AllNames /\ <<Home>> \in Paths
  BY NamesAssumption DEF Inv, FilesOK, AllNames, Paths
<1>1. FilesOK' /\ file_count' \in Nat /\ users' \in Seq(Names)
  <2>1. CASE Full(1) /\ UNCHANGED users
    BY <2>1, FullFiles DEF Full, Inv, RestOK
  <2>2. CASE /\ Store(1, <<New(n, <<Home>>, TRUE)>>)
             /\ users' = Append(users, n)
    <3>1. Good(New(n, <<Home>>, TRUE))
      BY <1>0, NewGood
    <3>2. FilesOK' /\ file_count' = file_count + 1
      BY <1>0, <2>2, <3>1, StoreOne
    <3>. QED  BY <1>0, <2>2, <3>2 DEF Inv, RestOK
  <2>3. CASE UNCHANGED users /\ UNCHANGED files
    BY <2>3, FullFiles DEF Inv, RestOK
  <2>. QED  BY <2>1, <2>2, <2>3 DEF UserAdd
<1>2. RestOK' /\ EditOK'
  BY <1>1, CommandRest DEF UserAdd, Inv, RestOK
<1>. QED  BY <1>1, <1>2 DEF Inv

LEMMA LoginInv ==
  ASSUME Inv, NEW n \in Names, Login(n)
  PROVE  Inv'
<1>1. FilesOK' /\ file_count' \in Nat
  BY FullFiles DEF Login, Inv
<1>2. PICK i \in DOMAIN users : /\ current_user' = users[i]
                                /\ current_directory' = <<Home, users[i]>>
  BY DEF Login
<1>3. users[i] \in Names /\ <<Home, users[i]>> \in Paths
  <2>1. users[i] \in Names
    BY DEF Inv, RestOK
  <2>2. Home \in AllNames /\ users[i] \in AllNames
    BY <2>1, NamesAssumption DEF AllNames
  <2>. QED  BY <2>1, <2>2 DEF Paths
<1>4. RestOK' /\ EditOK'
  BY <1>1, <1>2, <1>3, CommandRest DEF Login, Inv, RestOK
<1>. QED  BY <1>1, <1>4 DEF Inv

-----------------------------------------------------------------------------
LEMMA InitInv == Init => Inv
<1>. SUFFICES ASSUME Init PROVE Inv
  OBVIOUS
<1>1. FilesOK
  <2>1. Blank \in Entries
    <3>1. NoName \in AllNames /\ << >> \in Paths /\ Empty \in Texts /\ 0 \in Nat
      BY TextAssumption DEF AllNames, Paths
    <3>. QED  BY <3>1 DEF Blank, Entries
  <2>2. \A i \in 1 .. Len(InitialFiles) : Good(InitialFiles[i])
    BY FilesAssumption DEF Good
  <2>3. Len(InitialFiles) \in Nat /\ InitialCapacity \in Nat
    BY FilesAssumption, InitialAssumption
  <2>4. file_system \in [1 .. InitialCapacity -> Entries]
    BY <2>1, <2>2, <2>3 DEF Init, Good
  <2>5. \A i \in 1 .. file_count : Good(file_system[i])
    <3>1. \A i \in 1 .. Len(InitialFiles) : i \in 1 .. InitialCapacity
      BY <2>3, InitialAssumption
    <3>. QED  BY <2>2, <2>3, <3>1 DEF Init
  <2>6. file_count \in 0 .. file_capacity /\ heap \in file_capacity .. HeapSlots
    BY <2>3, InitialAssumption DEF Init
  <2>7. file_capacity = InitialCapacity /\ InitialCapacity >= 2
    BY InitialAssumption DEF Init
  <2>. QED  BY <2>3, <2>4, <2>5, <2>6, <2>7 DEF FilesOK
<1>2. RestOK
  <2>1. overrun \in BOOLEAN
    BY Zenon DEF Init
  <2>. QED  BY <2>1, InitialAssumption DEF Init, RestOK
<1>3. EditOK
  BY <1>1 DEF Init, FilesOK, EditOK
<1>. QED  BY <1>1, <1>2, <1>3 DEF Inv

LEMMA NextInv == Inv /\ [Next]_vars => Inv'
<1>. SUFFICES ASSUME Inv, [Next]_vars PROVE Inv'
  OBVIOUS
<1>1. CASE UNCHANGED vars
  BY <1>1 DEF vars, Inv, FilesOK, RestOK, EditOK, Good
<1>2. CASE Next
  BY <1>2, CreateFolderInv, CreateFileInv, UsageInv, CreateInInv, NoInv, YesInv,
     RmInv, WriteInv, CopyInv, OpenInv, LeaveInv, CdInv, UserAddInv, LoginInv
  DEF Next
<1>. QED  BY <1>1, <1>2

LEMMA Invariant == Spec => []Inv
BY InitInv, NextInv, PTL DEF Spec

\* The table, the session and the file in the editor have their types: the
\* editor's file is one of the table, whatever the commands moved up.
THEOREM TypeCorrect == Spec => []TypeOK
BY Invariant, InvIs, PTL

\* In every slot the size is the length of the text.
THEOREM SizesCorrect == Spec => []SizeIsText
BY Invariant, InvIs, PTL
-----------------------------------------------------------------------------
(* The users. *)

\* The entry behind those of the table is the one that was made.
LEMMA StoredLast ==
  ASSUME FilesOK, NEW e, Store(1, <<e>>)
  PROVE  file_count' = file_count + 1 /\ file_system'[file_count'] = e
<1>1. file_capacity \in Nat /\ file_capacity >= 2 /\ file_count \in 0 .. file_capacity
  BY DEF FilesOK
<1>. DEFINE cap == Capacity(1)
<1>2. cap \in Nat /\ file_count + 1 <= cap
  BY <1>1 DEF Capacity, Enough
<1>3. /\ file_count' = file_count + 1
      /\ file_system' = [i \in 1 .. cap |->
                            IF i > file_count /\ i <= file_count + 1
                            THEN <<e>>[i - file_count]
                            ELSE IF i <= file_count \/ Enough(1) THEN file_system[i]
                            ELSE Blank]
  BY DEF Store
<1>. HIDE DEF cap
<1>4. file_count + 1 \in 1 .. cap /\ (file_count + 1) - file_count = 1
  BY <1>1, <1>2
<1>5. file_system'[file_count + 1] = <<e>>[(file_count + 1) - file_count]
  BY <1>1, <1>3, <1>4
<1>. QED  BY <1>3, <1>4, <1>5

Homes ==
  Len(users') # Len(users) =>
      /\ Len(users') <= UserSlots
      /\ file_count' = file_count + 1
      /\ file_system'[file_count'] = New(users'[Len(users')], <<Home>>, TRUE)

LEMMA UserAddHomes ==
  ASSUME Inv, NEW n \in Names, NEW words, UserAdd(n, words)
  PROVE  Homes
<1>1. CASE UNCHANGED users
  BY <1>1 DEF Homes
<1>2. CASE /\ Len(users) < UserSlots
           /\ Store(1, <<New(n, <<Home>>, TRUE)>>) /\ users' = Append(users, n)
  <2>1. users'[Len(users')] = n /\ Len(users') <= UserSlots
    BY <1>2, InitialAssumption DEF Inv, RestOK
  <2>2. /\ file_count' = file_count + 1
        /\ file_system'[file_count'] = New(n, <<Home>>, TRUE)
    BY <1>2, StoredLast DEF Inv
  <2>. QED  BY <2>1, <2>2 DEF Homes
<1>. QED  BY <1>1, <1>2 DEF UserAdd

LEMMA NextHomes == Inv /\ [Next]_vars => Homes
<1>. SUFFICES ASSUME Inv, [Next]_vars PROVE Homes
  OBVIOUS
<1>1. CASE UNCHANGED users
  BY <1>1 DEF Homes
<1>2. CASE \E n \in Names, words \in {1, 2} : UserAdd(n, words)
  BY <1>2, UserAddHomes
<1>3. Next => \/ UNCHANGED users
              \/ \E n \in Names, words \in {1, 2} : UserAdd(n, words)
  BY DEF Next, CreateFolder, CreateFile, CreateIn, Usage, Yes, No, Answer, Rm, Write,
         Copy, Open, Leave, CdRoot, CdUp, Cd, CdMounted, Goto, Login, session
<1>. QED  BY <1>1, <1>2, <1>3 DEF vars

\* No user is added without the folder that is the home, and no home's place is
\* taken by what was in the slot before.
THEOREM HomesCorrect == Spec => UsersHaveHomes
<1>1. Inv /\ [Next]_vars =>
        [ Len(users') # Len(users) =>
            /\ Len(users') <= UserSlots
            /\ file_count' = file_count + 1
            /\ file_system'[file_count'] = New(users'[Len(users')], <<Home>>, TRUE) ]_vars
  BY NextHomes DEF Homes
<1>. QED  BY <1>1, Invariant, PTL DEF Spec, UsersHaveHomes
-----------------------------------------------------------------------------
(* The commands implement Catalog. *)

\* What Catalog shows of an entry.
Item(e) == [name |-> e.name, parent |-> e.parent, folder |-> e.folder, text |-> e.text]

LEMMA ShownIs ==
  ASSUME FilesOK
  PROVE  /\ Catalogued = [i \in 1 .. file_count |-> Item(file_system[i])]
         /\ file_count \in Nat
         /\ Catalogued \in Seq({Item(e) : e \in Entries})
         /\ Len(Catalogued) = file_count
<1>1. Catalogued = [i \in 1 .. file_count |-> Item(file_system[i])]
  BY DEF Catalogued, Used, Item
<1>2. file_count \in Nat /\ \A i \in 1 .. file_count : file_system[i] \in Entries
  BY DEF FilesOK, Good
<1>3. Catalogued \in [1 .. file_count -> {Item(e) : e \in Entries}]
  BY <1>1, <1>2
<1>. QED  BY <1>1, <1>2, <1>3

\* A sequence is the function of its elements, and what Append adds.
LEMMA SeqIs ==
  ASSUME NEW I, NEW s \in Seq(I)
  PROVE  s = [i \in 1 .. Len(s) |-> s[i]]
OBVIOUS

LEMMA AppendIs ==
  ASSUME NEW I, NEW s \in Seq(I), NEW x \in I
  PROVE  Append(s, x) = [i \in 1 .. Len(s) + 1 |-> IF i <= Len(s) THEN s[i] ELSE x]
<1>. DEFINE a == Append(s, x)
<1>1. /\ a \in Seq(I) /\ Len(a) = Len(s) + 1 /\ Len(s) \in Nat
      /\ \A i \in 1 .. Len(s) : a[i] = s[i]
      /\ a[Len(s) + 1] = x
  BY AppendProperties
<1>. HIDE DEF a
<1>2. a = [i \in 1 .. Len(s) + 1 |-> a[i]]
  BY <1>1, SeqIs
<1>3. \A i \in 1 .. Len(s) + 1 : a[i] = IF i <= Len(s) THEN s[i] ELSE x
  BY <1>1
<1>4. a = [i \in 1 .. Len(s) + 1 |-> IF i <= Len(s) THEN s[i] ELSE x]
  BY <1>2, <1>3
<1>. QED  BY <1>4 DEF a

\* The same of the next state.
LEMMA ShownIsNext ==
  ASSUME FilesOK'
  PROVE  /\ Catalogued' = [i \in 1 .. file_count' |-> Item(file_system'[i])]
         /\ file_count' \in Nat
<1>1. Catalogued' = [i \in 1 .. file_count' |-> Item(file_system'[i])]
  BY DEF Catalogued, Used, Item
<1>. QED  BY <1>1 DEF FilesOK

\* Entries that are stored follow those that are there.
LEMMA StoredShown ==
  ASSUME FilesOK, NEW n \in {1, 2}, NEW es \in Seq(Entries), Len(es) <= n,
         \A i \in 1 .. Len(es) : Good(es[i]), Store(n, es)
  PROVE  Catalogued' = [i \in 1 .. file_count + Len(es) |->
                            IF i <= file_count THEN Catalogued[i]
                            ELSE Item(es[i - file_count])]
<1>1. FilesOK' /\ file_count' = file_count + Len(es)
  BY StoreFiles
<1>2. /\ file_capacity \in Nat /\ file_count \in 0 .. file_capacity
      /\ Len(es) \in 0 .. n
  BY DEF FilesOK
<1>. DEFINE cap == Capacity(n)
<1>3. cap \in Nat /\ file_count + n <= cap
  BY <1>2 DEF Capacity, Enough, FilesOK
<1>4. file_system' = [i \in 1 .. cap |->
                            IF i > file_count /\ i <= file_count + Len(es)
                            THEN es[i - file_count]
                            ELSE IF i <= file_count \/ Enough(n) THEN file_system[i]
                            ELSE Blank]
  BY DEF Store
<1>. HIDE DEF cap
<1>5. \A i \in 1 .. file_count + Len(es) :
          Item(file_system'[i]) = IF i <= file_count THEN Item(file_system[i])
                                  ELSE Item(es[i - file_count])
  <2>. SUFFICES ASSUME NEW i \in 1 .. file_count + Len(es)
                PROVE  Item(file_system'[i]) =
                            IF i <= file_count THEN Item(file_system[i])
                            ELSE Item(es[i - file_count])
    OBVIOUS
  <2>1. i \in 1 .. cap
    BY <1>2, <1>3
  <2>2. file_system'[i] = IF i <= file_count THEN file_system[i] ELSE es[i - file_count]
    BY <1>2, <1>4, <2>1
  <2>. QED  BY <2>2
<1>6. Catalogued' = [i \in 1 .. file_count + Len(es) |-> Item(file_system'[i])]
  BY <1>1, ShownIsNext
<1>7. \A i \in 1 .. file_count : Catalogued[i] = Item(file_system[i])
  BY ShownIs
<1>8. \A i \in 1 .. file_count + Len(es) : i <= file_count => i \in 1 .. file_count
  BY <1>2
<1>. QED  BY <1>5, <1>6, <1>7, <1>8

\* An entry of a catalog, and the two kinds of steps that only add to it.
LEMMA OneShown ==
  ASSUME FilesOK, NEW e, Good(e), Store(1, <<e>>)
  PROVE  Catalogued' = Append(Catalogued, Item(e))
<1>. DEFINE es == <<e>>
<1>1. es \in Seq(Entries) /\ Len(es) = 1 /\ es[1] = e
  BY DEF Good
<1>2. Store(1, es)
  OBVIOUS
<1>. HIDE DEF es
<1>3. \A i \in 1 .. Len(es) : Good(es[i])
  <2>1. \A i \in 1 .. Len(es) : i = 1
    BY <1>1
  <2>. QED  BY <1>1, <2>1
<1>4. 1 \in {1, 2} /\ Len(es) <= 1
  BY <1>1
<1>5. Catalogued' = [i \in 1 .. file_count + Len(es) |->
                            IF i <= file_count THEN Catalogued[i]
                            ELSE Item(es[i - file_count])]
  BY <1>1, <1>2, <1>3, <1>4, StoredShown
<1>6. /\ Catalogued \in Seq({Item(x) : x \in Entries})
      /\ Len(Catalogued) = file_count /\ file_count \in Nat
  BY ShownIs
<1>7. Append(Catalogued, Item(e)) =
          [i \in 1 .. file_count + 1 |-> IF i <= file_count THEN Catalogued[i] ELSE Item(e)]
  <2>1. Item(e) \in {Item(x) : x \in Entries}
    BY DEF Good
  <2>. QED  BY <1>6, <2>1, AppendIs
<1>8. \A i \in 1 .. file_count + 1 : ~(i <= file_count) => i - file_count = 1
  BY <1>6
<1>. QED  BY <1>1, <1>5, <1>7, <1>8

LEMMA TwoShown ==
  ASSUME FilesOK, NEW e, Good(e), NEW f, Good(f), Store(2, <<e, f>>)
  PROVE  Catalogued' = Append(Append(Catalogued, Item(e)), Item(f))
<1>. DEFINE es == <<e, f>>
<1>1. es \in Seq(Entries) /\ Len(es) = 2 /\ es[1] = e /\ es[2] = f
  BY DEF Good
<1>2. Store(2, es)
  OBVIOUS
<1>. HIDE DEF es
<1>3. \A i \in 1 .. Len(es) : Good(es[i])
  <2>1. \A i \in 1 .. Len(es) : i = 1 \/ i = 2
    BY <1>1
  <2>. QED  BY <1>1, <2>1
<1>4. 2 \in {1, 2} /\ Len(es) <= 2
  BY <1>1
<1>5. Catalogued' = [i \in 1 .. file_count + Len(es) |->
                            IF i <= file_count THEN Catalogued[i]
                            ELSE Item(es[i - file_count])]
  BY <1>1, <1>2, <1>3, <1>4, StoredShown
<1>. DEFINE I == {Item(x) : x \in Entries}
<1>6. /\ Catalogued \in Seq(I)
      /\ Len(Catalogued) = file_count /\ file_count \in Nat
  BY ShownIs
<1>7. Item(e) \in I /\ Item(f) \in I
  BY DEF Good
<1>. HIDE DEF I
<1>8. Append(Append(Catalogued, Item(e)), Item(f)) =
          [i \in 1 .. file_count + 2 |-> IF i <= file_count THEN Catalogued[i]
                                         ELSE IF i = file_count + 1 THEN Item(e)
                                         ELSE Item(f)]
  <2>. DEFINE a == Append(Catalogued, Item(e))
  <2>1. a = [i \in 1 .. file_count + 1 |-> IF i <= file_count THEN Catalogued[i] ELSE Item(e)]
    BY <1>6, <1>7, AppendIs
  <2>2. a \in Seq(I) /\ Len(a) = file_count + 1
    BY <1>6, <1>7, AppendProperties
  <2>3. Append(a, Item(f)) = [i \in 1 .. (file_count + 1) + 1 |->
                                IF i <= file_count + 1 THEN a[i] ELSE Item(f)]
    <3>. HIDE DEF a
    <3>. QED  BY <1>7, <2>2, AppendIs
  <2>4. (file_count + 1) + 1 = file_count + 2
    BY <1>6
  <2>. HIDE DEF a
  <2>5. \A i \in 1 .. file_count + 2 :
            /\ i <= file_count + 1 => i \in 1 .. file_count + 1
            /\ i = file_count + 1 => i <= file_count + 1 /\ ~(i <= file_count)
            /\ i <= file_count => i <= file_count + 1
            /\ ~(i <= file_count) /\ i # file_count + 1 => ~(i <= file_count + 1)
    BY <1>6
  <2>6. Append(a, Item(f)) =
          [i \in 1 .. file_count + 2 |-> IF i <= file_count THEN Catalogued[i]
                                         ELSE IF i = file_count + 1 THEN Item(e)
                                         ELSE Item(f)]
    BY <2>1, <2>3, <2>4, <2>5
  <2>. QED  BY <2>6 DEF a
<1>9. \A i \in 1 .. file_count + 2 : /\ i = file_count + 1 => i - file_count = 1
                                     /\ i = file_count + 2 => i - file_count = 2
                                     /\ i <= file_count \/ i = file_count + 1 \/ i = file_count + 2
                                     /\ ~(file_count + 1 <= file_count)
                                     /\ ~(file_count + 2 <= file_count)
  BY <1>6
<1>. QED  BY <1>1, <1>5, <1>8, <1>9

\* Nothing is stored, or nothing is done.
LEMMA NoneShown ==
  ASSUME FilesOK, UNCHANGED files \/ Store(1, << >>)
  PROVE  UNCHANGED Catalogued
<1>1. CASE UNCHANGED files
  BY <1>1 DEF files, Catalogued, Used
<1>2. CASE Store(1, << >>)
  <2>. DEFINE es == << >>
  <2>1. es \in Seq(Entries) /\ Len(es) = 0
    OBVIOUS
  <2>2. Store(1, es)
    BY <1>2
  <2>. HIDE DEF es
  <2>3. \A i \in 1 .. Len(es) : Good(es[i])
    BY <2>1
  <2>4. 1 \in {1, 2} /\ Len(es) <= 1
    BY <2>1
  <2>5. Catalogued' = [i \in 1 .. file_count + Len(es) |->
                            IF i <= file_count THEN Catalogued[i]
                            ELSE Item(es[i - file_count])]
    BY <2>1, <2>2, <2>3, <2>4, StoredShown
  <2>6. Catalogued = [i \in 1 .. file_count |-> Item(file_system[i])] /\ file_count \in Nat
    BY ShownIs
  <2>7. file_count + Len(es) = file_count /\ \A i \in 1 .. file_count : i <= file_count
    BY <2>1, <2>6
  <2>. QED  BY <2>5, <2>6, <2>7
<1>. QED  BY <1>1, <1>2

LEMMA DeletedShown ==
  ASSUME FilesOK, NEW k \in 1 .. file_count, Delete(k)
  PROVE  CatalogSpec!Remove
<1>1. /\ file_count \in Nat /\ file_count' = file_count - 1
      /\ file_capacity \in Nat /\ file_count <= file_capacity
      /\ file_system' = [i \in 1 .. file_capacity |->
                            IF i >= k /\ i < file_count THEN file_system[i + 1]
                            ELSE file_system[i]]
  BY DEF Delete, FilesOK
<1>2. FilesOK'
  BY DeleteFiles
<1>3. Catalogued' = [i \in 1 .. file_count - 1 |-> Item(file_system'[i])]
  BY <1>1, <1>2, ShownIsNext
<1>4. /\ Catalogued = [i \in 1 .. file_count |-> Item(file_system[i])]
      /\ Catalogued \in Seq({Item(x) : x \in Entries}) /\ Len(Catalogued) = file_count
  BY ShownIs
<1>5. \A i \in 1 .. file_count - 1 :
          Catalogued'[i] = IF i >= k THEN Catalogued[i + 1] ELSE Catalogued[i]
  BY <1>1, <1>3, <1>4
<1>. DEFINE A == SubSeq(Catalogued, 1, k - 1)
            B == SubSeq(Catalogued, k + 1, file_count)
            I == {Item(x) : x \in Entries}
<1>6. /\ A \in Seq(I) /\ Len(A) = k - 1
      /\ \A i \in 1 .. k - 1 : A[i] = Catalogued[i]
  BY <1>1, <1>4, SubSeqProperties
<1>7. /\ B \in Seq(I) /\ Len(B) = file_count - k
      /\ \A i \in 1 .. file_count - k : B[i] = Catalogued[k + i]
  BY <1>1, <1>4, SubSeqProperties
<1>8. Catalogued' = A \o B
  <2>. HIDE DEF A, B, I
  <2>1. A \o B \in Seq(I) /\ Len(A \o B) = file_count - 1
    <3>1. A \o B \in Seq(I) /\ Len(A \o B) = Len(A) + Len(B)
      BY <1>6, <1>7, ConcatProperties
    <3>. QED  BY <1>1, <1>6, <1>7, <3>1
  <2>2. \A i \in 1 .. file_count - 1 :
            (A \o B)[i] = IF i <= k - 1 THEN A[i] ELSE B[i - (k - 1)]
    BY <1>1, <1>6, <1>7, ConcatProperties
  <2>3. \A i \in 1 .. file_count - 1 : (A \o B)[i] = Catalogued'[i]
    BY <1>1, <1>5, <1>6, <1>7, <2>2
  <2>4. Catalogued' = [i \in 1 .. file_count - 1 |-> Catalogued'[i]]
    BY <1>3
  <2>5. A \o B = [i \in 1 .. file_count - 1 |-> (A \o B)[i]]
    BY <2>1, SeqIs
  <2>. QED  BY <2>3, <2>4, <2>5
<1>9. k \in DOMAIN Catalogued
  BY <1>4
<1>. QED  BY <1>4, <1>8, <1>9 DEF CatalogSpec!Remove

LEMMA InscribedShown ==
  ASSUME FilesOK, NEW k \in 1 .. file_count, ~file_system[k].folder,
         NEW t \in Texts, Inscribe(k, t)
  PROVE  CatalogSpec!Rewrite
<1>1. /\ file_count \in Nat /\ file_count' = file_count
      /\ file_capacity \in Nat /\ file_count <= file_capacity
      /\ file_system \in [1 .. file_capacity -> Entries]
      /\ file_system' = [i \in 1 .. file_capacity |->
                            IF i = k THEN [name   |-> file_system[k].name,
                                           parent |-> file_system[k].parent,
                                           folder |-> file_system[k].folder,
                                           text   |-> t,
                                           size   |-> TextLen[t]]
                            ELSE file_system[i]]
  BY DEF Inscribe, FilesOK
<1>2. FilesOK'
  BY InscribeFiles
<1>3. Catalogued' = [i \in 1 .. file_count |-> Item(file_system'[i])]
  BY <1>1, <1>2, ShownIsNext
<1>4. Catalogued = [i \in 1 .. file_count |-> Item(file_system[i])]
  BY ShownIs
<1>. DEFINE r == [name |-> Catalogued[k].name, parent |-> Catalogued[k].parent,
                  folder |-> FALSE, text |-> t]
<1>5. Item(file_system'[k]) = r
  <2>1. k \in 1 .. file_capacity /\ file_system[k] \in Entries
    BY <1>1
  <2>2. file_system[k].folder = FALSE
    BY <2>1 DEF Entries
  <2>3. Catalogued[k].name = file_system[k].name /\ Catalogued[k].parent = file_system[k].parent
    BY <1>4 DEF Item
  <2>. QED  BY <1>1, <2>1, <2>2, <2>3 DEF Item
<1>6. \A i \in 1 .. file_count : i # k => file_system'[i] = file_system[i]
  BY <1>1
<1>7. Catalogued' = [Catalogued EXCEPT ![k] = r]
  <2>. HIDE DEF r
  <2>. QED  BY <1>3, <1>4, <1>5, <1>6
<1>8. k \in DOMAIN Catalogued /\ ~Catalogued[k].folder
  BY <1>4 DEF Item
<1>. QED  BY <1>7, <1>8 DEF CatalogSpec!Rewrite
\* A new entry is empty or a copy.
LEMMA AddedOne ==
  ASSUME FilesOK, NEW e, Good(e), Store(1, <<e>>),
         \/ e.text = Empty
         \/ /\ ~e.folder
            /\ \E i \in 1 .. file_count :
                  ~file_system[i].folder /\ e.text = file_system[i].text
  PROVE  CatalogSpec!AddOne
<1>. DEFINE x == Item(e)
            I == {Item(y) : y \in Entries}
<1>1. Catalogued' = Append(Catalogued, x)
  BY OneShown
<1>2. x \in I /\ Catalogued \in Seq(I)
  BY ShownIs DEF Good
<1>3. x.text = e.text /\ x.folder = e.folder
  BY DEF Item
<1>4. \/ x.text = Empty
      \/ /\ ~x.folder
         /\ \E i \in DOMAIN Catalogued :
               ~Catalogued[i].folder /\ x.text = Catalogued[i].text
  <2>1. CASE e.text = Empty
    BY <1>3, <2>1
  <2>2. ASSUME ~e.folder, NEW i \in 1 .. file_count,
               ~file_system[i].folder /\ e.text = file_system[i].text
        PROVE  /\ ~x.folder
               /\ \E j \in DOMAIN Catalogued :
                     ~Catalogued[j].folder /\ x.text = Catalogued[j].text
    <3>1. i \in DOMAIN Catalogued /\ Catalogued[i] = Item(file_system[i])
      BY ShownIs
    <3>2. Item(file_system[i]).folder = file_system[i].folder
          /\ Item(file_system[i]).text = file_system[i].text
      BY DEF Item
    <3>. QED  BY <1>3, <2>2, <3>1, <3>2
  <2>. QED  BY <2>1, <2>2
<1>. HIDE DEF x, I
<1>5. Len(Catalogued') = Len(Catalogued) + 1 /\ Catalogued'[Len(Catalogued) + 1] = x
  BY <1>1, <1>2, AppendProperties
<1>. QED  BY <1>1, <1>4, <1>5 DEF CatalogSpec!AddOne

LEMMA AddedNew ==
  ASSUME FilesOK, NEW n \in AllNames, NEW p \in Paths, NEW d \in BOOLEAN,
         Store(1, <<New(n, p, d)>>)
  PROVE  CatalogSpec!AddOne
<1>. DEFINE e == New(n, p, d)
<1>1. Good(e) /\ e.text = Empty /\ Store(1, <<e>>)
  BY NewGood DEF New
<1>. HIDE DEF e
<1>. QED  BY <1>1, AddedOne

LEMMA AddedBoth ==
  ASSUME FilesOK, NEW n \in AllNames, NEW m \in AllNames, NEW p \in Paths,
         Store(2, <<New(n, p, TRUE), New(m, Append(p, n), FALSE)>>)
  PROVE  CatalogSpec!AddBoth
<1>. DEFINE e == New(n, p, TRUE)
            f == New(m, Append(p, n), FALSE)
            x == Item(e)
            y == Item(f)
            I == {Item(z) : z \in Entries}
<1>1. Good(e) /\ Good(f) /\ Store(2, <<e, f>>)
  <2>1. Append(p, n) \in Paths
    BY PathTypes
  <2>. QED  BY <2>1, NewGood
<1>2. /\ x.folder /\ ~y.folder /\ x.text = Empty /\ y.text = Empty
      /\ y.parent = Append(x.parent, x.name)
  BY DEF New, Item
<1>3. Catalogued' = Append(Append(Catalogued, x), y)
  <2>. HIDE DEF e, f
  <2>. QED  BY <1>1, TwoShown
<1>4. x \in I /\ y \in I /\ Catalogued \in Seq(I)
  BY <1>1, ShownIs DEF Good
<1>. HIDE DEF x, y, I
<1>5. /\ Len(Catalogued') = Len(Catalogued) + 2
      /\ Catalogued'[Len(Catalogued) + 1] = x
      /\ Catalogued'[Len(Catalogued) + 2] = y
  <2>. DEFINE a == Append(Catalogued, x)
  <2>1. /\ a \in Seq(I) /\ Len(a) = Len(Catalogued) + 1
        /\ a[Len(Catalogued) + 1] = x /\ Len(Catalogued) \in Nat
    BY <1>4, AppendProperties
  <2>2. Catalogued' = Append(a, y)
    BY <1>3
  <2>. HIDE DEF a
  <2>3. /\ Len(Catalogued') = Len(a) + 1
        /\ \A i \in 1 .. Len(a) : Catalogued'[i] = a[i]
        /\ Catalogued'[Len(a) + 1] = y
    BY <1>4, <2>1, <2>2, AppendProperties
  <2>4. Len(Catalogued) + 1 \in 1 .. Len(a) /\ Len(a) + 1 = Len(Catalogued) + 2
    BY <2>1
  <2>. QED  BY <2>1, <2>3, <2>4
<1>. QED  BY <1>2, <1>3, <1>5 DEF CatalogSpec!AddBoth

LEMMA NextShown ==
  Inv /\ [Next]_vars =>
    \/ CatalogSpec!AddOne \/ CatalogSpec!AddBoth
    \/ CatalogSpec!Remove \/ CatalogSpec!Rewrite
    \/ UNCHANGED Catalogued
<1>. DEFINE Goal == \/ CatalogSpec!AddOne \/ CatalogSpec!AddBoth
                    \/ CatalogSpec!Remove \/ CatalogSpec!Rewrite
                    \/ UNCHANGED Catalogued
<1>. SUFFICES ASSUME Inv, [Next]_vars PROVE Goal
  OBVIOUS
<1>0. FilesOK /\ current_directory \in Paths /\ NoName \in AllNames
      /\ Names \subseteq AllNames
  BY DEF Inv, RestOK, AllNames
<1>1. UNCHANGED files \/ Full(1) \/ Full(2) \/ Store(1, << >>) => Goal
  BY <1>0, NoneShown DEF Full
<1>2. ASSUME NEW n \in AllNames, NEW p \in Paths, NEW d \in BOOLEAN,
             Store(1, <<New(n, p, d)>>)
      PROVE  Goal
  BY <1>0, <1>2, AddedNew
<1>3. ASSUME NEW n \in AllNames, CreateFolder(n) PROVE Goal
  BY <1>0, <1>1, <1>2, <1>3 DEF CreateFolder
<1>4. ASSUME NEW n \in AllNames, Rm(n) PROVE Goal
  BY <1>0, <1>1, <1>4, DeletedShown DEF Rm, Used
<1>5. ASSUME NEW n \in Names, CreateFile(n) PROVE Goal
  BY <1>0, <1>1, <1>2, <1>5 DEF CreateFile
<1>6. ASSUME NEW d \in AllNames, NEW n \in Names, CreateIn(d, n) PROVE Goal
  <2>1. Append(current_directory, d) \in Paths
    BY <1>0, PathTypes
  <2>. QED  BY <1>0, <1>1, <1>2, <1>6, <2>1 DEF CreateIn
<1>7. CASE Yes
  <2>1. question[1] \in AllNames /\ question[2] \in AllNames
    BY <1>7 DEF Yes, Answer, Inv, RestOK, AllNames
  <2>. QED  BY <1>0, <1>1, <1>7, <2>1, AddedBoth DEF Yes
<1>8. ASSUME NEW n \in Names, NEW t \in Texts \ {Empty}, Write(n, t) PROVE Goal
  <2>1. ASSUME NEW k \in Used, k \in FilesNamed(n), Inscribe(k, t) PROVE Goal
    <3>1. k \in 1 .. file_count /\ ~file_system[k].folder /\ t \in Texts
      BY <2>1 DEF Used, FilesNamed
    <3>. QED  BY <1>0, <2>1, <3>1, InscribedShown
  <2>. QED  BY <1>1, <1>8, <2>1 DEF Write, IsFirst
<1>9. ASSUME NEW s \in Names, NEW d \in Names, Copy(s, d) PROVE Goal
  <2>1. ASSUME NEW k \in Used, k \in FilesNamed(s), Store(1, <<Copied(k, d)>>) PROVE Goal
    <3>. DEFINE e == Copied(k, d)
    <3>1. k \in 1 .. file_count /\ ~file_system[k].folder /\ Good(file_system[k])
      BY <1>0, <2>1 DEF Used, FilesNamed, FilesOK
    <3>2. Good(e)
      BY <1>0, <3>1 DEF Good, Copied, Entries
    <3>3. ~e.folder /\ e.text = file_system[k].text /\ Store(1, <<e>>)
      BY <2>1 DEF Copied
    <3>. HIDE DEF e
    <3>4. CatalogSpec!AddOne
      BY <1>0, <3>1, <3>2, <3>3, AddedOne
    <3>. QED  BY <3>4
  <2>. QED  BY <1>1, <1>9, <2>1 DEF Copy, IsFirst
<1>10. ASSUME NEW t \in Texts, Leave(t) PROVE Goal
  <2>1. editing \in 1 .. file_count /\ ~file_system[editing].folder /\ Inscribe(editing, t)
    BY <1>0, <1>10 DEF Leave, Inv, EditOK, FilesOK
  <2>. QED  BY <1>0, <2>1, InscribedShown
<1>11. ASSUME NEW n \in Names, NEW words, UserAdd(n, words) PROVE Goal
  <2>1. <<Home>> \in Paths /\ n \in AllNames
    BY NamesAssumption DEF Paths, AllNames
  <2>. QED  BY <1>0, <1>1, <1>2, <1>11, <2>1 DEF UserAdd
<1>. HIDE DEF Goal
<1>12. CASE UNCHANGED vars
  BY <1>1, <1>12 DEF vars, files
<1>13. CASE Next
  <2>1. CASE \/ No \/ CdRoot \/ CdUp
             \/ \E n \in Names : Cd(n) \/ CdMounted(n) \/ Login(n)
             \/ \E n \in AllNames : Open(EntriesLike(n))
             \/ Open(EntriesNamed(Manual))
    BY <1>1, <2>1 DEF No, CdRoot, CdUp, Cd, CdMounted, Goto, Login, Open
  <2>2. CASE Usage
    BY <1>1, <2>2 DEF Usage
  <2>. QED  BY <1>3, <1>4, <1>5, <1>6, <1>7, <1>8, <1>9, <1>10, <1>11, <1>13,
               <2>1, <2>2 DEF Next
<1>. QED  BY <1>12, <1>13

\* The commands keep a catalog: each of them leaves alone every entry that it is
\* not about, while the table grows, moves and is rewritten.
THEOREM CatalogRefines == Spec => ImplementsCatalog
<1>1. Inv /\ [Next]_vars =>
        [ \/ CatalogSpec!AddOne \/ CatalogSpec!AddBoth
          \/ CatalogSpec!Remove \/ CatalogSpec!Rewrite ]_Catalogued
  BY NextShown
<1>. QED  BY <1>1, Invariant, PTL DEF Spec, ImplementsCatalog, CatalogSpec!Spec
=============================================================================
