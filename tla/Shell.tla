------------------------------- MODULE Shell -------------------------------
(***************************************************************************)
(* The commands of the shell that keep state (kernel/shell/shell.c): the   *)
(* table of files and folders in memory, the current directory, the users. *)
(* One action is one command, from the line to the next prompt; create     *)
(* stops in between for an answer, and read, edit and help -m for the      *)
(* editor.                                                                 *)
(*                                                                         *)
(* A name is a value and Prefix says which name begins with which: some of *)
(* the commands compare two names only as far as both go (Loose), the      *)
(* others exactly.  A path is the sequence of the names in it.             *)
(***************************************************************************)
EXTENDS Naturals, Sequences

CONSTANTS
    Names,              \* of files, folders and users
    NoName,             \* the empty one
    Prefix,             \* the pairs of which the first begins the second
    Texts, Empty,       \* what a file contains, the empty text
    TextLen,            \* str_len of a text
    Home, Manual,       \* "home", and "COMMANDS.txt"
    InitialFiles,       \* initial_files, as fs_init leaves them
    InitialUser, InitialPath,
    InitialCapacity,    \* INITIAL_FILE_CAPACITY
    HeapSlots,          \* the slots the heap has memory for, in all tables
    MaxUsers,           \* MAX_USERS
    UserSlots,          \* the elements of users[], which has no size of its own
    MaxCommands, MaxDepth   \* bounds: commands, and the depth of a path

AllNames == Names \union {NoName}
Paths == Seq(AllNames)

Entries == [name : AllNames, parent : Paths, folder : BOOLEAN, text : Texts, size : Nat]

ASSUME NamesAssumption == NoName \notin Names /\ {Home, Manual} \subseteq Names
ASSUME PrefixAssumption ==
    \A n \in AllNames : <<n, n>> \in Prefix /\ <<NoName, n>> \in Prefix
ASSUME TextAssumption ==
    Empty \in Texts /\ TextLen \in [Texts -> Nat] /\ TextLen[Empty] = 0
ASSUME FilesAssumption ==
    /\ InitialFiles \in Seq(Entries)
    /\ \A i \in 1 .. Len(InitialFiles) :
          /\ InitialFiles[i].size = TextLen[InitialFiles[i].text]
          /\ InitialFiles[i].folder => InitialFiles[i].text = Empty
ASSUME InitialAssumption ==
    /\ InitialCapacity \in Nat /\ InitialCapacity >= 2
    /\ Len(InitialFiles) <= InitialCapacity
    /\ HeapSlots \in Nat /\ InitialCapacity <= HeapSlots
    /\ MaxUsers \in Nat /\ UserSlots \in Nat /\ MaxCommands \in Nat /\ MaxDepth \in Nat
    /\ InitialUser \in Names /\ InitialPath \in Paths

VARIABLES
    file_system,        \* the slots of the table, 1 to file_capacity
    file_count, file_capacity,
    heap,               \* the slots allocated in all: nothing is ever freed
    current_directory,
    users, current_user,
    mounted,            \* vfs_is_mounted
    overrun,            \* a user was written behind the end of users[]
    question,           \* << folder, file >> that create asks about
    editing,            \* the file in the editor, 0 at the prompt
    commands            \* the commands so far

files == <<file_system, file_count, file_capacity, heap>>
session == <<current_directory, users, current_user, mounted, overrun>>
vars == <<file_system, file_count, file_capacity, heap, current_directory, users,
          current_user, mounted, overrun, question, editing, commands>>

-----------------------------------------------------------------------------
(* Looking up. *)

Used == 1 .. file_count

IsFirst(i, S) == i \in S /\ \A j \in S : i <= j

\* The comparison ends with the shorter name.
Loose(m, n) == <<m, n>> \in Prefix \/ <<n, m>> \in Prefix

\* read, edit and rm: every entry, in any directory.
EntriesLike(n) == {i \in Used : Loose(n, file_system[i].name)}

\* cd: the first characters have to agree too, so an empty name matches none.
FoldersLike(n) ==
    {i \in EntriesLike(n) : file_system[i].folder /\ file_system[i].name # NoName}

\* help -m and manual: the exact name.
EntriesNamed(n) == {i \in Used : file_system[i].name = n}

\* write and copy.
FilesNamed(n) == {i \in EntriesNamed(n) : ~file_system[i].folder}

\* create folder/file: the folder of the current directory.
FoldersHere(n) ==
    {i \in EntriesNamed(n) : /\ file_system[i].folder
                             /\ file_system[i].parent = current_directory}

-----------------------------------------------------------------------------
(* The table. *)

Blank == [name |-> NoName, parent |-> << >>, folder |-> FALSE, text |-> Empty, size |-> 0]

\* Mutant: the text of the entry that was in the slot stays.
NewOver(n, p, d) ==
    [name |-> n, parent |-> p, folder |-> d, size |-> 0,
     text |-> IF file_count < file_capacity THEN file_system[file_count + 1].text
              ELSE Empty]

New(n, p, d) == [name |-> n, parent |-> p, folder |-> d, text |-> Empty, size |-> 0]

Enough(n) == file_count + n <= file_capacity

\* One doubling is enough for the one or two entries a command adds.
Capacity(n) == IF Enough(n) THEN file_capacity ELSE 2 * file_capacity

\* fs_ensure_capacity: the larger table is another allocation.
HasRoom(n) == Enough(n) \/ heap + Capacity(n) <= HeapSlots

\* fs_ensure_capacity(n), and the entries es written behind those of the table.
Store(n, es) ==
    /\ HasRoom(n)
    /\ file_capacity' = Capacity(n)
    /\ heap' = IF Enough(n) THEN heap ELSE heap + Capacity(n)
    /\ file_count' = file_count + Len(es)
    /\ file_system' = [i \in 1 .. Capacity(n) |->
                            IF i > file_count /\ i <= file_count + Len(es)
                            THEN es[i - file_count]
                            ELSE IF i <= file_count \/ Enough(n) THEN file_system[i]
                            ELSE Blank]

\* A command runs to the next prompt.  What runs after users[] was overrun, with
\* user_count, current_user and what else lies behind it overwritten, is not
\* followed.
Command ==
    /\ ~overrun
    /\ question = << >> /\ editing = 0
    /\ commands < MaxCommands
    /\ commands' = commands + 1

Stays == UNCHANGED <<question, editing>>

\* "Vault is full!"
Full(n) == ~HasRoom(n) /\ UNCHANGED files

-----------------------------------------------------------------------------
(* create, rm, write, copy. *)

\* create name/, which makes a folder without a name of create /.
CreateFolder(n) ==
    /\ Command
    /\ Full(1) \/ Store(1, <<New(n, current_directory, TRUE)>>)
    /\ UNCHANGED session /\ Stays

CreateFile(n) ==
    /\ Command
    /\ Full(1) \/ Store(1, <<New(n, current_directory, FALSE)>>)
    /\ UNCHANGED session /\ Stays

\* create, and copy without two names: room is made before the line is read on.
Usage ==
    /\ Command
    /\ Full(1) \/ Store(1, << >>)
    /\ UNCHANGED session /\ Stays

\* create folder/name, with the folder there or to be asked about.
CreateIn(d, n) ==
    /\ Command
    /\ \/ /\ HasRoom(1) => FoldersHere(d) # {}
          /\ Full(1) \/ Store(1, <<New(n, Append(current_directory, d), FALSE)>>)
          /\ UNCHANGED question
       \/ /\ FoldersHere(d) = {}
          /\ Store(1, << >>)
          /\ question' = <<d, n>>
    /\ UNCHANGED session /\ UNCHANGED editing

Answer ==
    /\ question # << >>
    /\ question' = << >>
    /\ UNCHANGED session /\ UNCHANGED <<editing, commands>>

Yes ==
    /\ Answer
    /\ LET folder == New(question[1], current_directory, TRUE)
           file   == New(question[2], Append(current_directory, question[1]), FALSE)
       IN  Full(2) \/ Store(2, <<folder, file>>)

No == Answer /\ UNCHANGED files

\* Mutant: the last entry does not move.
DeleteShort(k) ==
    /\ file_system' = [i \in 1 .. file_capacity |->
                            IF i >= k /\ i < file_count - 1 THEN file_system[i + 1]
                            ELSE file_system[i]]
    /\ file_count' = file_count - 1
    /\ UNCHANGED <<file_capacity, heap>>

\* The entries behind the one that goes move up.
Delete(k) ==
    /\ file_system' = [i \in 1 .. file_capacity |->
                            IF i >= k /\ i < file_count THEN file_system[i + 1]
                            ELSE file_system[i]]
    /\ file_count' = file_count - 1
    /\ UNCHANGED <<file_capacity, heap>>

\* rm followed by a space, and perhaps by nothing more.
Rm(n) ==
    /\ Command
    /\ \/ EntriesLike(n) = {} /\ UNCHANGED files
       \/ \E k \in Used : IsFirst(k, EntriesLike(n)) /\ Delete(k)
    /\ UNCHANGED session /\ Stays

Inscribe(k, t) ==
    /\ file_system' = [i \in 1 .. file_capacity |->
                            IF i = k THEN [name   |-> file_system[k].name,
                                           parent |-> file_system[k].parent,
                                           folder |-> file_system[k].folder,
                                           text   |-> t,
                                           size   |-> TextLen[t]]
                            ELSE file_system[i]]
    /\ UNCHANGED <<file_count, file_capacity, heap>>

\* With a disk mounted the text goes to the file on the disk.
Write(n, t) ==
    /\ Command
    /\ \/ (mounted \/ FilesNamed(n) = {}) /\ UNCHANGED files
       \/ ~mounted /\ \E k \in Used : IsFirst(k, FilesNamed(n)) /\ Inscribe(k, t)
    /\ UNCHANGED session /\ Stays

Copied(k, n) ==
    [name |-> n, parent |-> current_directory, folder |-> FALSE,
     text |-> file_system[k].text, size |-> file_system[k].size]

\* The room is made before the source is looked for.
Copy(s, d) ==
    /\ Command
    /\ \/ Full(1)
       \/ FilesNamed(s) = {} /\ Store(1, << >>)
       \/ \E k \in Used : IsFirst(k, FilesNamed(s)) /\ Store(1, <<Copied(k, d)>>)
    /\ UNCHANGED session /\ Stays

-----------------------------------------------------------------------------
(* The editor: read (with a disk mounted it prints the file instead), edit,*)
(* help -m and manual.  read and edit without a name open the first entry. *)

Open(S) ==
    /\ Command
    /\ \E k \in Used : IsFirst(k, S) /\ ~file_system[k].folder /\ editing' = k
    /\ UNCHANGED files /\ UNCHANGED session /\ UNCHANGED question

\* What the Editor module shows of a session in it.
Leave(t) ==
    /\ editing # 0
    /\ editing' = 0
    /\ Inscribe(editing, t)
    /\ UNCHANGED session /\ UNCHANGED <<question, commands>>

-----------------------------------------------------------------------------
(* cd, useradd, login. *)

Goto(p) ==
    /\ Command
    /\ current_directory' = p
    /\ UNCHANGED files /\ UNCHANGED <<users, current_user, mounted, overrun>> /\ Stays

CdRoot == Goto(<< >>)

\* The last of two names is dropped; "Already at root" otherwise.
CdUp ==
    Goto(IF Len(current_directory) > 1
         THEN SubSeq(current_directory, 1, Len(current_directory) - 1)
         ELSE current_directory)

\* The name of the first folder like it, from any directory, is appended.
Cd(n) ==
    /\ ~mounted
    /\ Len(current_directory) < MaxDepth
    /\ \E k \in Used : /\ IsFirst(k, FoldersLike(n))
                       /\ Goto(Append(current_directory, file_system[k].name))

\* build_full_path: the directory of the disk, below the current one or /n.
CdMounted(n) ==
    /\ mounted
    /\ Len(current_directory) < MaxDepth
    /\ Goto(Append(current_directory, n)) \/ Goto(<<n>>)

\* A second word counts for the comparison, not for the name.
Exists(n, words) ==
    \E i \in DOMAIN users : \/ <<users[i], n>> \in Prefix
                            \/ words = 1 /\ <<n, users[i]>> \in Prefix

\* Mutant: the user is counted before there is room for the home.
UserFirst(n, words) ==
    /\ Command
    /\ Len(users) < MaxUsers
    /\ ~Exists(n, words)
    /\ \/ /\ Len(users) < UserSlots /\ UNCHANGED overrun
          /\ users' = Append(users, n)
          /\ Full(1) \/ Store(1, <<New(n, <<Home>>, TRUE)>>)
       \/ /\ Len(users) >= UserSlots /\ overrun' = TRUE
          /\ UNCHANGED users /\ UNCHANGED files
    /\ UNCHANGED <<current_directory, current_user, mounted>> /\ Stays

\* The name and the password are written behind those of the users, wherever that
\* is, before there is room for the home, and counted after it.
UserAdd(n, words) ==
    /\ Command
    /\ Len(users) < MaxUsers
    /\ ~Exists(n, words)
    /\ \/ /\ Len(users) < UserSlots /\ UNCHANGED overrun
          /\ \/ Full(1) /\ UNCHANGED users
             \/ /\ Store(1, <<New(n, <<Home>>, TRUE)>>)
                /\ users' = Append(users, n)
       \/ /\ Len(users) >= UserSlots /\ overrun' = TRUE
          /\ UNCHANGED users /\ UNCHANGED files
    /\ UNCHANGED <<current_directory, current_user, mounted>> /\ Stays

Login(n) ==
    /\ Command
    /\ \E i \in DOMAIN users :
          /\ IsFirst(i, {j \in DOMAIN users : Loose(n, users[j])})
          /\ current_user' = users[i]
          /\ current_directory' = <<Home, users[i]>>
    /\ UNCHANGED files /\ UNCHANGED <<users, mounted, overrun>> /\ Stays

-----------------------------------------------------------------------------
\* fs_init, and whether vfs_mount succeeded when the kernel started.
Init ==
    /\ file_count = Len(InitialFiles)
    /\ file_capacity = InitialCapacity
    /\ heap = InitialCapacity
    /\ file_system = [i \in 1 .. InitialCapacity |->
                        IF i <= Len(InitialFiles) THEN InitialFiles[i] ELSE Blank]
    /\ current_directory = InitialPath
    /\ users = <<InitialUser>>
    /\ current_user = InitialUser
    /\ mounted \in BOOLEAN
    /\ overrun = FALSE
    /\ question = << >>
    /\ editing = 0
    /\ commands = 0

Next ==
    \/ \E n \in AllNames : CreateFolder(n) \/ Rm(n)
    \/ \E n \in Names : CreateFile(n) \/ Cd(n) \/ CdMounted(n) \/ Login(n)
    \/ \E d \in AllNames, n \in Names : CreateIn(d, n)
    \/ Usage \/ Yes \/ No
    \/ \E n \in Names, t \in Texts \ {Empty} : Write(n, t)
    \/ \E s, d \in Names : Copy(s, d)
    \/ \E n \in AllNames : Open(EntriesLike(n))
    \/ Open(EntriesNamed(Manual))
    \/ \E t \in Texts : Leave(t)
    \/ CdRoot \/ CdUp
    \/ \E n \in Names, words \in {1, 2} : UserAdd(n, words)

Spec == Init /\ [][Next]_vars

-----------------------------------------------------------------------------
(* Properties. *)

\* Type invariant.
TypeOK ==
    /\ file_capacity \in Nat /\ file_capacity >= 2 /\ file_count \in 0 .. file_capacity
    /\ heap \in file_capacity .. HeapSlots
    /\ file_system \in [1 .. file_capacity -> Entries]
    /\ current_directory \in Paths
    /\ users \in Seq(Names) /\ current_user \in Names
    /\ mounted \in BOOLEAN /\ overrun \in BOOLEAN
    /\ question = << >> \/ question \in AllNames \X Names
    /\ editing \in 0 .. file_count
    /\ commands \in 0 .. MaxCommands

\* In whichever slot an entry was made, a slot that held another entry before
\* among them, its size is the length of its text, and a folder has no text.
SizeIsText ==
    \A i \in Used : /\ file_system[i].size = TextLen[file_system[i].text]
                    /\ file_system[i].folder => file_system[i].text = Empty

\* No user without a home: who is added has it, and who found no room for it in
\* the table is not added; and who is counted has a place of his own in users[],
\* though MAX_USERS promises more of them than there are (shell.c:2228).
UsersHaveHomes ==
    [][ Len(users') # Len(users) =>
          /\ Len(users') <= UserSlots
          /\ file_count' = file_count + 1
          /\ file_system'[file_count'] = New(users'[Len(users')], <<Home>>, TRUE) ]_vars

\* Growing the table, moving its entries up and rewriting one of them, the
\* commands leave alone every entry they are not about.
Catalogued ==
    [i \in Used |-> [name |-> file_system[i].name, parent |-> file_system[i].parent,
                     folder |-> file_system[i].folder, text |-> file_system[i].text]]

CatalogSpec == INSTANCE Catalog WITH entries <- Catalogued

ImplementsCatalog == CatalogSpec!Spec

\* "rm oldfile.txt" deletes that file: an entry of another name stays.
OnlyNamedRemoved ==
    [][ \A n \in Names : Rm(n) =>
          \A i \in Used : file_system[i].name # n =>
              \E j \in 1 .. file_count' : file_system'[j] = file_system[i] ]_vars

=============================================================================
