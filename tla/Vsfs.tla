-------------------------------- MODULE Vsfs --------------------------------
(***************************************************************************)
(* The virtual disk of soi6/: the commands of the program fs, run one      *)
(* after another (the documentation assumes sequential, exclusive access), *)
(* each of which may be killed.                                            *)
(*                                                                         *)
(* A command reads the disk, decides, and then makes a sequence of writes, *)
(* each followed by the fseek or fflush that hands it to the operating     *)
(* system.  The decision is one action, every write is one more, and a     *)
(* kill in between leaves the writes made so far.                          *)
(*                                                                         *)
(* A disk that mkfs did not finish (absent, empty or blank) offers no      *)
(* inodes: the other commands leave it alone.                              *)
(*                                                                         *)
(* Sizes are counted in units, BLOCK of them to a block.  A unit of a file *)
(* of the host is <<name, position>> or Garbage; none is a zero byte.      *)
(***************************************************************************)
EXTENDS Integers, Sequences, FiniteSets, FiniteSetsExt

CONSTANTS
  Names,          (* names of files                                        *)
  NoName,         (* the name in an inode never written                    *)
  Nothing,        (* no file, no promise                                   *)
  HostSize,       (* HostSize[f]: size of the host's file f, in units      *)
  FS_INODES, FS_DATA_BLOCKS, BLOCK,
  CLEAN,          (* units at the start of cp's buffer, which is not       *)
                  (* initialised, that the stack is sure to hold as zero   *)
  Garbage,        (* a unit from behind them                               *)
  MaxGarbage,     (* bound: units of garbage before the first zero         *)
  MaxCommands,    (* bound: commands run                                   *)
  MaxKills        (* bound: commands killed                                *)

ASSUME DiskAssumption ==
  /\ NoName \notin Names
  /\ {FS_INODES, FS_DATA_BLOCKS, BLOCK} \subseteq Nat \ {0}
  /\ CLEAN \in 1 .. FS_DATA_BLOCKS * BLOCK
  /\ HostSize \in [Names -> 0 .. FS_DATA_BLOCKS * BLOCK]
  /\ {MaxCommands, MaxKills, MaxGarbage} \subseteq Nat

INodes == 0 .. FS_INODES - 1
DataBlocks == 0 .. FS_DATA_BLOCKS - 1

(* The number of the first data block.                                     *)
dataBlockOffset == 8

(* The first units of the blocks that a file may be written to: a file     *)
(* that cp lets run past the data region makes the disk longer.            *)
Units == 0 .. 2 * FS_DATA_BLOCKS * BLOCK - 1

Zero == <<>>

NewINode == [startingBlock |-> 0, size |-> 0, name |-> NoName]

VARIABLES
  image,        (* the file vsfs: absent, empty, blank (zeros) or made     *)
  iNodeBitmap,  (* iNodeBitmap[i]: inode i is occupied                     *)
  dataBitmap,   (* dataBitmap[b]: data block b is occupied                 *)
  iNodeTable,
  data,         (* data[u]: unit u of the data region                      *)
  host,         (* host[f]: the host's file f, Nothing if there is none    *)
  todo,         (* the writes that the running command has yet to make     *)
  commands,     (* commands run                                            *)
  kills,        (* commands killed                                         *)
  promised,     (* history: promised[f] is what the last command that      *)
                (* created f and ended gave it, Nothing if it was removed  *)
  misfreed,     (* history: an rm cleared the bit of another file's block  *)
  resurrected   (* history: a command was killed between occupying an      *)
                (* inode and writing it, and the inode had an old name     *)

disk    == <<image, iNodeBitmap, dataBitmap, iNodeTable, data>>
history == <<promised, misfreed, resurrected>>
vars    == <<disk, host, todo, commands, kills, history>>

Init ==
  /\ image = "absent"
  /\ iNodeBitmap = [n \in INodes |-> FALSE]
  /\ dataBitmap = [b \in DataBlocks |-> FALSE]
  /\ iNodeTable = [n \in INodes |-> NewINode]
  /\ data = [u \in Units |-> Zero]
  /\ host = [f \in Names |-> [k \in 1..HostSize[f] |-> <<f, k>>]]
  /\ todo = <<>>
  /\ commands = 0
  /\ kills = 0
  /\ promised = [f \in Names |-> Nothing]
  /\ misfreed = FALSE
  /\ resurrected = FALSE

-----------------------------------------------------------------------------
(* The program starts with a command that is going to make these writes.   *)
Command(writes) ==
  /\ todo = <<>>
  /\ commands < MaxCommands
  /\ commands' = commands + 1
  /\ todo' = writes

(* A write of value at index of one of the areas of the disk, or to a file *)
(* of the host.  The last write of a command that creates f fulfils its    *)
(* promise.                                                                *)
WriteTo(area, index, value) == [area |-> area, index |-> index, value |-> value]

Occupied == {n \in INodes : iNodeBitmap[n]}

(* The inode that a command finds under the name f: the first one.         *)
Found(f) == Min({n \in Occupied : iNodeTable[n].name = f})

(* Mutation of Exists: no name is ever found in use.                       *)
Exists_Never(f) == FALSE

Exists(f) == \E n \in Occupied : iNodeTable[n].name = f

(* What cat f shows.                                                       *)
Content(f) ==
  LET node == iNodeTable[Found(f)]
  IN  [k \in 1..node.size |->
         data[(node.startingBlock - dataBlockOffset) * BLOCK + k - 1]]

mkfs ==
  /\ image = "absent"
  /\ Command(<<WriteTo("image", 0, "empty"), WriteTo("image", 0, "blank"),
               WriteTo("image", 0, "made"), WriteTo("image", 0, "empty"),
               WriteTo("image", 0, "made")>>)
  /\ UNCHANGED <<disk, host, kills, history>>

rmfs ==
  /\ image # "absent"
  /\ Command(<<>>)
  /\ image' = "absent"
  /\ promised' = [f \in Names |-> Nothing]
  /\ UNCHANGED <<iNodeBitmap, dataBitmap, iNodeTable, data, host, kills, misfreed, resurrected>>

(* The first free inode; what it held before stays in startingBlock.       *)
touch(f) ==
  LET n == Min(INodes \ Occupied)
  IN  /\ image = "made"
      /\ ~Exists(f)
      /\ Occupied # INodes
      /\ Command(<<WriteTo("iNodeBitmap", n, TRUE),
                   WriteTo("iNodeTable", n, [iNodeTable[n] EXCEPT !.size = 0, !.name = f]),
                   WriteTo("promise", f, <<>>)>>)
      /\ UNCHANGED <<disk, host, kills, history>>

Blocks(size) == 1 + (size \div BLOCK)

(* The data blocks that inode n refers to.                                 *)
OwnBlocks(n) ==
  LET first == iNodeTable[n].startingBlock - dataBlockOffset
  IN  IF iNodeTable[n].size = 0 THEN {} ELSE first .. first + Blocks(iNodeTable[n].size) - 1

(* A block at which cp finds room.  The search reads the bitmap past its   *)
(* end: the bytes there are whatever the stack holds, zero up to some      *)
(* index edge.                                                             *)
Fits(j, blocks, edge) ==
  /\ j + blocks <= edge
  /\ \A k \in j .. j + blocks - 1 : k \in DataBlocks => ~dataBitmap[k]

(* Mutation of Room: only the first block has to be free.                  *)
Room_FirstBlock(blocks, edge) == {j \in DataBlocks : ~dataBitmap[j]}

(* Mutation of Room: one block too many is looked at.                      *)
Room_OneMore(blocks, edge) == {j \in 0 .. FS_DATA_BLOCKS : Fits(j, blocks, edge)}

(* The blocks where cp finds room.                                         *)
Room(blocks, edge) == {j \in DataBlocks : Fits(j, blocks, edge)}

(* cp reads no more of the host's file f than the data region holds ...    *)
Readable(f) == SubSeq(host[f], 1, Min({Len(host[f]), FS_DATA_BLOCKS * BLOCK}))

(* ... and takes all up to the first zero byte of its buffer for the file: *)
(* behind one that fills the clean part some garbage may come before it.   *)
Sources(f) ==
  {Readable(f) \o [k \in 1..extra |-> Garbage] :
     extra \in IF Len(Readable(f)) < CLEAN THEN {0} ELSE 0 .. MaxGarbage}

(* The host's file f is copied to the first run of free blocks that is     *)
(* long enough.  (Without a host's file the program crashes: nothing       *)
(* happens to the disk.)                                                   *)
cp(f) ==
  /\ image = "made"
  /\ ~Exists(f)
  /\ host[f] # Nothing
  /\ Occupied # INodes
  /\ \E edge \in FS_DATA_BLOCKS .. 2 * FS_DATA_BLOCKS, source \in Sources(f) :
       LET n == Min(INodes \ Occupied)
           size == Len(source)
           j == Min(Room(Blocks(size), edge))
       IN  /\ Room(Blocks(size), edge) # {}
           /\ Command(
                <<WriteTo("iNodeBitmap", n, TRUE)>>
                \o [z \in 1..Blocks(size) |-> WriteTo("dataBitmap", j + z - 1, TRUE)]
                \o <<WriteTo("iNodeTable", n,
                       [startingBlock |-> dataBlockOffset + j, size |-> size, name |-> f])>>
                \o [k \in 1..size |-> WriteTo("data", j * BLOCK + k - 1, source[k])]
                \o <<WriteTo("promise", f, Readable(f))>>)
  /\ UNCHANGED <<disk, host, kills, history>>

(* The bits of the data bitmap are cleared from the index of the inode on, *)
(* not from the first block of the file.                                   *)
rm(f) ==
  LET n == Found(f)
  IN  /\ image = "made"
      /\ Exists(f)
      /\ Command(<<WriteTo("iNodeBitmap", n, FALSE)>>
                 \o [z \in 1..Blocks(iNodeTable[n].size) |->
                       WriteTo("dataBitmap", n + z - 1, FALSE)])
      /\ promised' = [promised EXCEPT ![f] = Nothing]
      /\ UNCHANGED <<disk, host, kills, misfreed, resurrected>>

(* The file of the host is made empty, then the file of the disk is copied *)
(* to it, up to the first zero byte.                                       *)
load(f) ==
  /\ image = "made"
  /\ Exists(f)
  /\ LET length == Min({k - 1 : k \in {l \in DOMAIN Content(f) : Content(f)[l] = Zero}}
                       \cup {Len(Content(f))})
     IN  Command(<<WriteTo("host", f, <<>>),
                   WriteTo("host", f, SubSeq(Content(f), 1, length))>>)
  /\ UNCHANGED <<disk, host, kills, history>>

(* What ls prints: a line for each occupied inode, in their order.         *)
ls == [n \in IF image = "made" THEN Occupied ELSE {} |-> iNodeTable[n].name]

(* The numbers that fsinfo prints of a finished disk: files, data blocks   *)
(* with their bit set, and the sum of the sizes of the files.              *)
fsinfo ==
  [iNodeCounter     |-> Cardinality(Occupied),
   dataBlockCounter |-> Cardinality({b \in DataBlocks : dataBitmap[b]}),
   realSpaceUsage   |-> MapThenSumSet(LAMBDA n : iNodeTable[n].size, Occupied)]

-----------------------------------------------------------------------------
(* The area after the write w; the bytes behind a bitmap are never read.   *)
Area(table, w) ==
  IF w.index \in DOMAIN table THEN [table EXCEPT ![w.index] = w.value] ELSE table

Formatted(table, w, zero) ==
  IF w.area = "image" /\ w.value = "empty" THEN [x \in DOMAIN table |-> zero]
  ELSE table

(* The next write of the running command reaches the disk.                 *)
Write ==
  /\ todo # <<>>
  /\ LET w == Head(todo)
         After(area, table, zero) ==
           IF w.area = area THEN Area(table, w) ELSE Formatted(table, w, zero)
     IN  /\ image' = IF w.area = "image" THEN w.value ELSE image
         /\ iNodeBitmap' = After("iNodeBitmap", iNodeBitmap, FALSE)
         /\ dataBitmap' = After("dataBitmap", dataBitmap, FALSE)
         /\ iNodeTable' = After("iNodeTable", iNodeTable, NewINode)
         /\ data' = After("data", data, Zero)
         /\ host' = IF w.area = "host" THEN Area(host, w) ELSE host
         /\ promised' = IF w.area = "promise" THEN Area(promised, w) ELSE promised
         /\ misfreed' = (misfreed \/
              /\ w.area = "dataBitmap" /\ ~w.value
              /\ \E n \in Occupied : w.index \in OwnBlocks(n))
  /\ todo' = Tail(todo)
  /\ UNCHANGED <<commands, kills, resurrected>>

(* The command is killed between two writes.                               *)
Kill ==
  /\ todo # <<>>
  /\ kills < MaxKills
  /\ kills' = kills + 1
  /\ todo' = <<>>
  /\ resurrected' = (resurrected \/ \E k \in DOMAIN todo :
       /\ todo[k].area = "iNodeTable"
       /\ iNodeBitmap[todo[k].index]
       /\ iNodeTable[todo[k].index].name # NoName)
  /\ UNCHANGED <<disk, host, commands, promised, misfreed>>

Next ==
  \/ mkfs
  \/ rmfs
  \/ \E f \in Names : touch(f) \/ cp(f) \/ rm(f) \/ load(f)
  \/ Write
  \/ Kill

Spec == Init /\ [][Next]_vars

-----------------------------------------------------------------------------
(* Properties.                                                             *)

(* Every variable has its type.                                            *)
TypeOK ==
  /\ image \in {"absent", "empty", "blank", "made"}
  /\ iNodeBitmap \in [INodes -> BOOLEAN]
  /\ dataBitmap \in [DataBlocks -> BOOLEAN]
  /\ \A n \in INodes :
       /\ iNodeTable[n].startingBlock \in {0} \cup {dataBlockOffset + b : b \in DataBlocks}
       /\ iNodeTable[n].size \in 0 .. FS_DATA_BLOCKS * BLOCK + MaxGarbage
       /\ iNodeTable[n].name \in Names \cup {NoName}
  /\ DOMAIN data = Units
  /\ \A k \in DOMAIN todo : todo[k].area = "data" => todo[k].index \in Units
  /\ commands \in 0 .. MaxCommands /\ kills \in 0 .. MaxKills
  /\ misfreed \in BOOLEAN /\ resurrected \in BOOLEAN

(* No command is running.                                                  *)
AtRest == todo = <<>>

(* "utrzymywania unikalnosci nazw": between two commands ls prints no name *)
(* twice, except after a kill that brought an old name back.               *)
UniqueNames ==
  AtRest /\ ~resurrected =>
    \A k, l \in DOMAIN ls : ls[k] = ls[l] => k = l \/ ls[k] = NoName

(* "zostanie stworzony plik o zadanej nazwie z zawartoscia pliku           *)
(* oryginalnego": what a command that ended has put on the disk is read    *)
(* back unchanged, whatever commands come after it; only behind a file     *)
(* that reaches the end of the clean part of the buffer there may be more. *)
ContentsKept ==
  AtRest => \A f \in Names :
    promised[f] # Nothing =>
      /\ Exists(f)
      /\ IF Len(promised[f]) < CLEAN THEN Content(f) = promised[f]
         ELSE /\ Len(Content(f)) >= Len(promised[f])
              /\ \A k \in DOMAIN promised[f] : Content(f)[k] = promised[f][k]

(* It is so as long as no rm has cleared the bit of another file's block   *)
(* and no kill has brought an old inode back: a kill anywhere else, files  *)
(* of all sizes, empty files and the search of cp past the end of the      *)
(* bitmap do no harm.                                                      *)
ContentsKeptUntilMisfreed == ~misfreed /\ ~resurrected => ContentsKept

(* Up to the same two cases no block belongs to two files and every block  *)
(* of a file has its bit set, whatever rm freed and a kill left behind, so *)
(* that fsinfo never reports more use than space: the use is covered by    *)
(* the blocks it counts and those that cp took past the end of the bitmap. *)
SpaceReported ==
  AtRest /\ image = "made" /\ ~misfreed /\ ~resurrected =>
    /\ \A k, l \in Occupied : k # l => OwnBlocks(k) \intersect OwnBlocks(l) = {}
    /\ \A n \in Occupied : \A b \in OwnBlocks(n) \intersect DataBlocks : dataBitmap[b]
    /\ LET past == (UNION {OwnBlocks(n) : n \in Occupied}) \ DataBlocks
       IN  fsinfo.realSpaceUsage <= BLOCK * (fsinfo.dataBlockCounter + Cardinality(past))
=============================================================================
