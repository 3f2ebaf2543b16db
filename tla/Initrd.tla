------------------------------- MODULE Initrd -------------------------------
(***************************************************************************)
(* The files from the directory they are built from to the screen: mkfs.py *)
(* packs them into an image, the boot loader puts the image into memory,   *)
(* fs/initrd.c mounts it behind the functions of fs/fs.c, and kernel_main  *)
(* and the commands ls and cat of the shell show what is in it.            *)
(*                                                                         *)
(* A name or a text is a sequence of bytes, a byte a string, and so is a   *)
(* message; NUL ends what is printed.  Addresses are uint32_t: modulo W.   *)
(***************************************************************************)
EXTENDS Integers, SequencesExt

CONSTANTS
  NAME,         (* bytes of a name in a file header (64)                    *)
  HEADER,       (* bytes of the header of the image (8)                     *)
  FILE_HEADER,  (* bytes of a file header (72)                              *)
  MAX_FILES,    (* 64                                                       *)
  CHUNK,        (* what a buffer of cat or kernel_main holds beside a NUL   *)
                (* (255); what cat reads at a time                          *)
  SHOWN,        (* the entries kernel_main lists (10)                       *)
  HELLO,        (* "hello.txt"                                              *)
  W,            (* the range of a uint32_t (2^32)                           *)
  Byte,         (* what a name or a text is made of                         *)
  Rootfs,       (* the directories mkfs may be given: sequences, in the     *)
                (* order of listdir, of entries with name, data and isfile  *)
  Boots,        (* what the boot loader may have loaded: module, "none",    *)
                (* "initrd" or "other", and its location                    *)
  Names         (* the names cat is called with                             *)

(* What mkfs.py takes of a directory, one entry after the other, what is    *)
(* left of a name in a header, and how long the image is.                   *)
FilesOf(dir) ==
  LET kept[k \in 0 .. Len(dir)] ==
        IF k = 0 THEN <<>>
        ELSE IF dir[k].isfile THEN Append(kept[k - 1], dir[k])
        ELSE kept[k - 1]
  IN  kept[Len(dir)]

Cut(name) == SubSeq(name, 1, Min({Len(name), NAME - 1}))

Size(dir) ==
  LET files == FilesOf(dir)
  IN  HEADER + FILE_HEADER * Len(files)
        + Len(FlattenSeq([k \in DOMAIN files |-> files[k].data]))

NULL == 0
NUL == "NUL"

ASSUME SizesAssumption ==
  {NAME, HEADER, FILE_HEADER, MAX_FILES, CHUNK, SHOWN, W} \subseteq Nat \ {0}

ASSUME InitrdAssumption ==
  /\ {NUL, "other", "not found", "not mounted"} \subseteq Byte
  /\ \A dir \in Rootfs :
       /\ dir \in Seq([name : Seq(Byte), data : Seq(Byte), isfile : BOOLEAN])
       /\ \A k, l \in DOMAIN dir : dir[k].name = dir[l].name => k = l
       (* The image fits behind every location.                             *)
       /\ \A b \in Boots : b.location + Size(dir) < W
  /\ \A b \in Boots : b.module \in {"none", "initrd", "other"} /\ b.location \in Nat

VARIABLES
  rootfs, boot,
  fs_root,           (* a root is mounted                                   *)
  num_files,
  initrd_nodes,
  dir_cache,         (* the name in the one directory entry                 *)
  pc, command,       (* what runs, and which command it was                 *)
  index,             (* i of the loops over the directory                   *)
  fsnode, offset, sz, buf,  (* of cat                                       *)
  text               (* the texts printed for this command                  *)

tree == <<rootfs, boot, fs_root, num_files, initrd_nodes>>
catVars == <<fsnode, offset, sz, buf>>
vars == <<tree, dir_cache, pc, command, index, catVars, text>>

-----------------------------------------------------------------------------
(* mkfs.py.                                                                 *)
Files == FilesOf(rootfs)

DataBefore(k) == FlattenSeq([l \in 1 .. k - 1 |-> Files[l].data])

(* (The header of the image is forgotten.) *)
ShiftedFileHeader(k) ==
  [name   |-> Cut(Files[k].name),
   offset |-> FILE_HEADER * Len(Files) + Len(DataBefore(k)),
   length |-> Len(Files[k].data)]

FileHeader(k) ==
  [name   |-> Cut(Files[k].name),
   offset |-> HEADER + FILE_HEADER * Len(Files) + Len(DataBefore(k)),
   length |-> Len(Files[k].data)]

file_headers == [k \in DOMAIN Files |-> FileHeader(k)]

(* The memory behind the location: the headers, the data, what follows.     *)
Memory(address) ==
  LET data == DataBefore(Len(Files) + 1)
      at == address - boot.location - HEADER - FILE_HEADER * Len(Files)
  IN  IF at \in 0 .. Len(data) - 1 THEN data[at + 1] ELSE "other"

-----------------------------------------------------------------------------
(* fs/initrd.c behind fs/fs.c.                                              *)

(* (No clamp to the end of the file.) *)
ReadUnclamped(node, from, size) ==
  IF from >= node.length THEN <<>>
  ELSE [k \in 1 .. size |-> Memory((node.impl + from + k - 1) % W)]

initrd_read(node, from, size) ==
  LET n == IF (from + size) % W > node.length THEN node.length - from ELSE size
  IN  IF from >= node.length THEN <<>>
      ELSE [k \in 1 .. n |-> Memory((node.impl + from + k - 1) % W)]

(* (The last file is left out.) *)
AllButLast(i) == IF i + 1 < num_files THEN {initrd_nodes[i + 1].name} ELSE {}

(* The name of the entry, if there is one; it is left in dir_cache.         *)
fs_readdir(i) == IF i < num_files THEN {initrd_nodes[i + 1].name} ELSE {}

(* The number of the first node of that name, or NULL.                      *)
fs_finddir(name) ==
  SelectInSeq(SubSeq(initrd_nodes, 1, num_files), LAMBDA node : node.name = name)

(* Up to the first NUL.                                                     *)
String(bytes) ==
  LET end == SelectInSeq(bytes, LAMBDA b : b = NUL)
  IN  IF end = 0 THEN bytes ELSE SubSeq(bytes, 1, end - 1)

(* initrd_initialize at the location of the first module.                   *)
initrd_initialize ==
  /\ pc = "boot" /\ boot.module # "none"
  /\ fs_root' = TRUE
  /\ num_files' =
       IF boot.module = "initrd" THEN Min({Len(file_headers), MAX_FILES}) ELSE 0
  /\ initrd_nodes' =
       [i \in 1 .. num_files' |->
          [name   |-> file_headers[i].name,
           length |-> file_headers[i].length,
           impl   |-> (boot.location + file_headers[i].offset) % W]]
  /\ pc' = "mounted"
  /\ UNCHANGED <<rootfs, boot, dir_cache, command, index, catVars, text>>

NoModule ==
  /\ pc = "boot" /\ boot.module = "none"
  /\ pc' = "shell"
  /\ UNCHANGED <<tree, dir_cache, command, index, catVars, text>>

(* kernel_main lists SHOWN entries, of which there may be fewer, and prints *)
(* hello.txt, which it reads whole.  A file that is longer than its buffer  *)
(* overruns the stack: the kernel may go on or do anything ("overrun", of   *)
(* which nothing more is said).                                             *)
List ==
  /\ pc = "mounted" /\ index < SHOWN
  /\ \/ /\ fs_readdir(index) = {}
        /\ UNCHANGED <<dir_cache, text>>
     \/ /\ dir_cache' \in fs_readdir(index)
        /\ text' = Append(text, dir_cache')
  /\ index' = index + 1
  /\ UNCHANGED <<tree, pc, command, catVars>>

Hello ==
  /\ pc = "mounted" /\ index = SHOWN
  /\ LET k == fs_finddir(HELLO)
     IN  IF k = NULL
           THEN /\ text' = Append(text, <<"not found">>)
                /\ pc' = "shell"
           ELSE LET bytes == initrd_read(initrd_nodes[k], 0, initrd_nodes[k].length)
                IN  /\ text' = Append(text, String(bytes))
                    /\ pc' \in IF Len(bytes) > CHUNK THEN {"shell", "overrun"} ELSE {"shell"}
  /\ UNCHANGED <<tree, dir_cache, command, index, catVars>>

Overrun == pc = "overrun" /\ UNCHANGED vars

-----------------------------------------------------------------------------
(* The commands of the shell.                                               *)
Call(cmd) ==
  /\ pc = "shell"
  /\ command' = cmd
  /\ UNCHANGED <<tree, dir_cache>>

NotMounted ==
  /\ ~fs_root
  /\ text' = << <<"not mounted">> >>
  /\ UNCHANGED <<pc, index, catVars>>

ls ==
  /\ Call(<<"ls">>)
  /\ \/ NotMounted
     \/ /\ fs_root
        /\ pc' = "ls"
        /\ index' = 0
        /\ text' = <<>>
        /\ UNCHANGED catVars

(* The shared entry is looked up again before it is printed.                *)
Entry ==
  /\ pc = "ls"
  /\ dir_cache' \in fs_readdir(index)
  /\ text' = IF fs_finddir(dir_cache') # NULL THEN Append(text, dir_cache') ELSE text
  /\ index' = index + 1
  /\ UNCHANGED <<tree, pc, command, catVars>>

EndOfDirectory ==
  /\ pc = "ls" /\ fs_readdir(index) = {}
  /\ pc' = "shell"
  /\ UNCHANGED <<tree, dir_cache, command, index, catVars, text>>

cat(name) ==
  /\ Call(<<"cat", name>>)
  /\ \/ NotMounted
     \/ /\ fs_root /\ fs_finddir(name) = NULL
        /\ text' = << <<"not found">> >>
        /\ UNCHANGED <<pc, index, catVars>>
     \/ /\ fs_root /\ fs_finddir(name) # NULL
        /\ pc' = "cat"
        /\ text' = <<>>
        /\ fsnode' = fs_finddir(name)
        /\ offset' = 0
        /\ sz' = initrd_nodes[fsnode'].length
        /\ UNCHANGED <<index, buf>>

(* (The rest of the file at once.) *)
WholeRest(rest) == rest

ReadSize(rest) == IF rest > CHUNK THEN CHUNK ELSE rest

Chunk ==
  /\ pc = "cat" /\ sz > 0
  /\ LET bytes == initrd_read(initrd_nodes[fsnode], offset, ReadSize(sz))
     IN  IF bytes = <<>>
           THEN /\ pc' = "shell"
                /\ UNCHANGED <<offset, sz, buf, text>>
           ELSE /\ buf' = bytes
                /\ text' = Append(text, String(bytes))
                /\ offset' = offset + Len(bytes)
                /\ sz' = sz - Len(bytes)
                /\ UNCHANGED pc
  /\ UNCHANGED <<tree, dir_cache, command, index, fsnode>>

EndOfFile ==
  /\ pc = "cat" /\ sz = 0
  /\ pc' = "shell"
  /\ UNCHANGED <<tree, dir_cache, command, index, catVars, text>>

Init ==
  /\ rootfs \in Rootfs /\ boot \in Boots
  /\ fs_root = FALSE
  /\ num_files = 0
  /\ initrd_nodes = <<>>
  /\ dir_cache = <<>>
  /\ pc = "boot"
  /\ command = <<"boot">>
  /\ index = 0
  /\ fsnode = NULL /\ offset = 0 /\ sz = 0 /\ buf = <<>>
  /\ text = <<>>

Next ==
  \/ initrd_initialize \/ NoModule \/ List \/ Hello \/ Overrun
  \/ ls \/ Entry \/ EndOfDirectory
  \/ (\E name \in Names : cat(name)) \/ Chunk \/ EndOfFile

Spec == Init /\ [][Next]_vars

-----------------------------------------------------------------------------
(* Among others, the buffer of cat keeps a byte for the NUL that is put     *)
(* behind what was read (shell.c:93-97).  kernel_main's does not: what is   *)
(* read into it is not limited (see Hello).                                 *)
TypeOK ==
  /\ rootfs \in Rootfs /\ boot \in Boots
  /\ fs_root \in BOOLEAN
  /\ num_files \in 0 .. MAX_FILES /\ Len(initrd_nodes) = num_files
  /\ \A k \in 1 .. num_files :
       initrd_nodes[k] \in
         [name : Seq(Byte), length : 0 .. W - 1, impl : 0 .. W - 1]
  /\ dir_cache \in Seq(Byte)
  /\ pc \in {"boot", "mounted", "overrun", "shell", "ls", "cat"}
  /\ index \in 0 .. SHOWN + MAX_FILES
  /\ fsnode \in 0 .. num_files
  /\ {offset, sz} \subseteq 0 .. W - 1
  /\ buf \in Seq(Byte) /\ Len(buf) <= CHUNK
  /\ text \in Seq(Seq(Byte))

Mounted == boot.module = "initrd"
First(n) == SubSeq(Files, 1, Min({n, MAX_FILES, Len(Files)}))

(* ls shows the names of the directory the image was made from, in its      *)
(* order, as far as they were kept: cut to what a header holds and limited  *)
(* to MAX_FILES, although names that were cut may have become equal; a      *)
(* module that is no image shows as an empty directory.  kernel_main shows  *)
(* the first of them (initrd.c:34-43, 62-71, kernel.c:97-104,               *)
(* shell.c:64-78, mkfs.py:31).                                              *)
Listing(n) ==
  IF Mounted THEN [k \in DOMAIN First(n) |-> Cut(Files[k].name)] ELSE <<>>

FilesAreListed ==
  pc = "shell" /\ boot.module # "none" =>
    /\ command = <<"ls">> => text = Listing(MAX_FILES)
    /\ command = <<"boot">> =>
         Len(text) = Len(Listing(SHOWN)) + 1 /\ IsPrefix(Listing(SHOWN), text)

(* cat shows the data of the file byte for byte, put together from the      *)
(* chunks it is read in, and nothing of its neighbours in the image; a file *)
(* is found if its name was not cut, is not what another's was cut to, and  *)
(* is among the first MAX_FILES (initrd.c:23-32, 45-53, shell.c:90-101,     *)
(* mkfs.py:27-38).                                                          *)
FilesAreShown ==
  pc = "shell" /\ Mounted =>
    \A k \in DOMAIN First(MAX_FILES) :
      LET f == Files[k]
      IN  /\ command = <<"cat", f.name>>
          /\ Len(f.name) < NAME
          /\ \A l \in DOMAIN Files : l # k => Cut(Files[l].name) # f.name
          /\ \A b \in DOMAIN f.data : f.data[b] # NUL
          => FlattenSeq(text) = f.data

(* Whatever a caller of fs_read asks for, as long as the end it asks for is *)
(* a uint32_t, it gets that part of the file and not a byte behind the end  *)
(* of it (initrd.c:23-32).                                                  *)
ReadStaysInFile ==
  \A k \in 1 .. num_files : \A from, size \in 0 .. W - 1 :
    from + size < W =>
      initrd_read(initrd_nodes[k], from, size) =
        SubSeq(Files[k].data, from + 1, Min({from + size, Len(Files[k].data)}))
=============================================================================
