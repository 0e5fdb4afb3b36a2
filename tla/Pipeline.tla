------------------------------ MODULE Pipeline ------------------------------
(***************************************************************************)
(* The commands of main.c, one after another, on one archive and the files *)
(* that are made of it: the stages of handle_pipeline, handle_compress and *)
(* handle_encrypt, of which expandPaths is FileList's, each with its       *)
(* failures and a kill between any two steps.                              *)
(***************************************************************************)
EXTENDS FileList, CryptNames

CONSTANTS ArchivePaths,  \* names that the archive may have, as in CryptNames
          NameLimit,     \* units of a name that fit output_filename
          Password,
          MaxCommands    \* commands in a row

ASSUME PipelineAssumption ==
  /\ NameLimit \in Nat \ {0} /\ MaxCommands \in Nat
  /\ \A a \in ArchivePaths : a \in Seq(STRING) /\ a # <<>>

VARIABLES
  archive,   \* the path given to pack, -c, -x, -l and -e; unpack and -d get .enc
  fs,        \* fs[path]: contents of the files
  command,   \* verb, password and cleanup
  commands,  \* commands so far
  pc,
  result,    \* 0, or 1 for every status that is not a success
  buffer,    \* file_content
  restored,  \* contents of the archive that was extracted in full
  (* history *)
  faulty,    \* a call after createArchive failed, or wrote less than asked
  lastPack   \* the archive that the last pack sealed, and what it lacks

stageVars == <<buffer, restored, faulty, lastPack>>
callVars == <<archive, command, commands>>
vars == <<listVars, callVars, stageVars, fs, pc, result>>

-----------------------------------------------------------------------------
(* Contents: an archive under the keys that it was encrypted with, last one  *)
(* first; Torn is any other file, part of an archive or not decipherable.   *)

Absent == [files |-> "absent"]
Torn == [files |-> "torn"]
Nothing == [files |-> "nothing"]

Archive(g, files) == [made |-> g, files |-> files, keys |-> <<>>]

Whole(c) == c \notin {Absent, Torn, Nothing}

IsArchive(c) == Whole(c) /\ c.keys = <<>>

\* What process_file_syscalls makes of a content.  The key of a different
\* password leaves no archive, and no file without keys is one after decryption.
Crypted(mode, c, key) ==
  IF ~Whole(c) THEN Torn
  ELSE IF mode = "encrypt" THEN [c EXCEPT !.keys = <<key>> \o @]
  ELSE IF c.keys # <<>> /\ Head(c.keys) = key THEN [c EXCEPT !.keys = Tail(@)]
  ELSE Torn

Sealed(c, key) == Crypted("encrypt", c, key)

-----------------------------------------------------------------------------
(* Names. *)

mode == IF command.verb \in {"pack", "encrypt"} THEN "encrypt" ELSE "decrypt"

EncPath == Append(archive, ".enc")

CryptInput == IF mode = "encrypt" THEN archive ELSE EncPath

CryptOutput == Cut(Output(mode, CryptInput), NameLimit)

\* Variant: the archive is extracted from the path that was given.
derive_plain_from_enc_Kept(path) == path

\* The same rule as Output without a limit.
derive_plain_from_enc(path) == Output("decrypt", path)

\* The intermediate .huf of a pipeline, the archive of the other commands.
PlainPath == IF command.verb = "unpack" THEN derive_plain_from_enc(EncPath) ELSE archive

FilesOf(a) == {a, Append(a, ".enc"), Cut(Append(a, ".enc"), NameLimit)}

-----------------------------------------------------------------------------
\* pipeline --pack and --unpack.
PipelineCommands == [verb : {"pack", "unpack"}, password : Password, cleanup : BOOLEAN]

\* encrypt -e and -d of one file; a directory is DirCrypt's.
EncryptCommands == [verb : {"encrypt", "decrypt"}, password : Password, cleanup : {FALSE}]

\* compress -c, -x and -l; -f is an "extract" too.
CompressCommands ==
  [verb : {"create", "extract", "list"}, password : {"none"}, cleanup : {FALSE}]

NoPack == [made |-> 0, missed |-> {}]

Init ==
  /\ ListInit
  /\ archive \in ArchivePaths
  /\ fs = [p \in FilesOf(archive) |-> Absent]
  /\ command = [verb |-> "list", password |-> "none", cleanup |-> FALSE]
  /\ commands = 0
  /\ pc = "idle" /\ result = 0
  /\ buffer = Nothing /\ restored = Nothing
  /\ faulty = FALSE /\ lastPack = NoPack

FirstStage(verb) ==
  CASE verb \in {"pack", "create"} -> "expand"
    [] verb \in {"unpack", "encrypt", "decrypt"} -> "read"
    [] verb = "extract" -> "extract"
    [] verb = "list" -> "list"

\* -c and -e make new files on purpose, of whatever inputs they are given: what
\* the last pack sealed is no longer promised.
Command(c) ==
  /\ pc = "idle" /\ commands < MaxCommands
  /\ command' = c /\ commands' = commands + 1
  /\ pc' = FirstStage(c.verb)
  /\ IF c.verb \in {"pack", "create"} THEN StartExpand ELSE UNCHANGED listVars
  /\ lastPack' = IF c.verb \in {"create", "encrypt"} THEN NoPack ELSE lastPack
  /\ result' = 0 /\ faulty' = FALSE /\ restored' = Nothing
  /\ UNCHANGED <<archive, fs, buffer>>

\* An option, the password, the archive or the inputs are missing.
RejectArguments ==
  /\ pc = "idle" /\ commands < MaxCommands
  /\ command' = [verb |-> "none", password |-> "none", cleanup |-> FALSE]
  /\ commands' = commands + 1
  /\ result' = 1 /\ faulty' = FALSE /\ restored' = Nothing
  /\ UNCHANGED <<listVars, archive, fs, pc, buffer, lastPack>>

\* What an earlier pack promised ends with one that fails in its last write.
Forgotten == IF command.verb = "pack" /\ pc = "write" THEN NoPack ELSE lastPack

\* The list is freed as soon as it has been used, and with the process.
FreeList == expand' = "idle" /\ input' = 1 /\ stack' = <<>> /\ paths' = <<>> /\ count' = 0

Return(r) ==
  /\ pc' = "idle" /\ result' = r
  /\ FreeList /\ missed' = {} /\ failures' = 0 /\ buffer' = Nothing

\* Ends without success at a point where no file was changed.
Fail(r) ==
  /\ Return(r)
  /\ faulty' = TRUE /\ lastPack' = Forgotten
  /\ UNCHANGED <<callVars, fs, restored>>

\* The process is killed.
Kill ==
  /\ pc # "idle"
  /\ Return(1)
  /\ faulty' = TRUE /\ lastPack' = Forgotten
  /\ UNCHANGED <<callVars, fs, restored>>

-----------------------------------------------------------------------------
(* The stages. *)

Expand ==
  /\ pc = "expand" /\ ExpandStep
  /\ UNCHANGED <<callVars, stageVars, fs, pc, result>>

NoFiles ==
  /\ pc = "expand"
  /\ expand = "null" \/ (expand = "list" /\ count = 0)
  /\ Fail(1)

\* Variant: the last path of the list is not passed on.
ListedFiles_AllButLast == {paths[k] : k \in 1 .. count - 1}

ListedFiles == {paths[k] : k \in 1 .. count}

\* createArchive truncates the archive, or cannot.
OpenArchive ==
  /\ pc = "expand" /\ expand = "list" /\ count > 0
  /\ \/ fs' = [fs EXCEPT ![archive] = Torn] /\ pc' = "create"
        /\ UNCHANGED <<listVars, callVars, stageVars, result>>
     \/ Fail(1)

AfterCreate == IF command.verb = "pack" THEN "read" ELSE "return"

\* createArchive returns 0 also when it leaves out members, or stores a part of
\* them, because of a failure.
CreateArchive ==
  /\ pc = "create"
  /\ \/ \E lost \in SUBSET ListedFiles :
          /\ IF lost = {} THEN UNCHANGED failures ELSE CallFails
          /\ fs' = [fs EXCEPT ![archive] = Archive(commands, ListedFiles \ lost)]
          /\ missed' = missed \union lost
          /\ pc' = AfterCreate
          /\ FreeList
          /\ UNCHANGED <<callVars, stageVars, result>>
     \/ Fail(1)

\* process_file_syscalls reads the whole input; a file that another failure left
\* may also make it overrun its buffer, which is the end of the process.
ReadInput ==
  /\ pc = "read"
  /\ \/ /\ fs[CryptInput] # Absent
        /\ buffer' = fs[CryptInput] /\ pc' = "output"
        /\ UNCHANGED <<listVars, callVars, fs, result, restored, faulty, lastPack>>
     \/ Fail(1)

OpenOutput ==
  /\ pc = "output"
  /\ \/ fs' = [fs EXCEPT ![CryptOutput] = Torn] /\ pc' = "write"
        /\ UNCHANGED <<listVars, callVars, stageVars, result>>
     \/ Fail(1)

AfterWrite ==
  CASE command.verb = "pack" -> "cleanup"
    [] command.verb = "unpack" -> "derive"
    [] OTHER -> "return"

\* Only a pack that wrote all of it has sealed the archive: a write that stored
\* less is a success to the program.
WriteOutput ==
  /\ pc = "write"
  /\ \/ /\ fs' = [fs EXCEPT ![CryptOutput] = Crypted(mode, buffer, command.password)]
        /\ lastPack' = IF command.verb # "pack" THEN lastPack
                       ELSE [made |-> commands, missed |-> missed]
        /\ pc' = AfterWrite
        /\ UNCHANGED <<listVars, callVars, result, buffer, restored, faulty>>
     \/ /\ pc' = AfterWrite
        /\ faulty' = TRUE
        /\ lastPack' = IF command.verb = "pack" THEN NoPack ELSE lastPack
        /\ UNCHANGED <<listVars, callVars, fs, result, buffer, restored>>
     \/ Fail(1)

\* unpack allocates the path of the decrypted archive.
DerivePath ==
  /\ pc = "derive"
  /\ \/ pc' = "extract" /\ UNCHANGED <<listVars, callVars, stageVars, fs, result>>
     \/ Fail(1)

Extractable == PlainPath \in DOMAIN fs /\ IsArchive(fs[PlainPath])

AfterExtract == IF command.verb = "unpack" THEN "cleanup" ELSE "return"

Finish(r) ==
  /\ result' = r /\ pc' = AfterExtract
  /\ UNCHANGED <<listVars, callVars, fs, buffer, lastPack>>

\* extractArchive returns 0 also when it could not restore some of the members.
ExtractArchive ==
  /\ pc = "extract"
  /\ \/ /\ Extractable
        /\ \/ restored' = fs[PlainPath] /\ UNCHANGED faulty
           \/ faulty' = TRUE /\ UNCHANGED restored
        /\ Finish(0)
     \/ /\ faulty' = (faulty \/ Extractable)
        /\ UNCHANGED restored
        /\ Finish(1)

ListArchive ==
  /\ pc = "list"
  /\ \/ IsArchive(fs[archive]) /\ Return(0)
     \/ Return(1)
  /\ UNCHANGED <<callVars, restored, faulty, lastPack, fs>>

\* Variant: a pack removes the file that it has just written.
Removed_Output == CryptOutput

Removed == PlainPath

\* A pack gets here only with success, an unpack with the result of extracting.
Cleanup ==
  /\ pc = "cleanup"
  /\ fs' = IF command.cleanup /\ Removed \in DOMAIN fs
           THEN [fs EXCEPT ![Removed] = Absent] ELSE fs
  /\ Return(IF command.verb = "pack" THEN 0 ELSE result)
  /\ UNCHANGED <<callVars, restored, faulty, lastPack>>

Ends ==
  /\ pc = "return"
  /\ Return(IF command.verb = "extract" THEN result ELSE 0)
  /\ UNCHANGED <<callVars, restored, faulty, lastPack, fs>>

-----------------------------------------------------------------------------
Stage ==
  \/ Expand \/ NoFiles \/ OpenArchive \/ CreateArchive
  \/ ReadInput \/ OpenOutput \/ WriteOutput
  \/ DerivePath \/ ExtractArchive \/ ListArchive
  \/ Cleanup \/ Ends

NextCommand ==
  \/ \E c \in PipelineCommands \union EncryptCommands \union CompressCommands : Command(c)
  \/ RejectArguments

Terminated == pc = "idle" /\ commands = MaxCommands /\ UNCHANGED vars

Next == Stage \/ NextCommand \/ Kill \/ Terminated

Spec == Init /\ [][Next]_vars

\* System calls return, so a stage goes on; nobody has to give a command.
FairSpec == Spec /\ WF_vars(Stage)
=============================================================================
