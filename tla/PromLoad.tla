------------------------------ MODULE PromLoad ------------------------------
(***************************************************************************)
(* The identity PROM: how the creator tool lays an image out               *)
(* (prom_data_creator.py), how load_prom walks and checks it               *)
(* (prom_processing.c, utils.c), and how probe and open turn its entries   *)
(* into device nodes and back (amc_pci_core.c).                            *)
(*                                                                         *)
(* A byte has Radix values instead of 256 and the fields of an entry have  *)
(* fewer bytes; a word is two bytes, as in the source.  The bytes behind   *)
(* an image, and a byte read from behind the buffer, may be anything.      *)
(*                                                                         *)
(* An operator with _Mut in its name is a deliberately wrong variant of    *)
(* the definition it precedes; no specification uses it.                   *)
(***************************************************************************)
EXTENDS Integers, Sequences, FiniteSets

CONSTANTS
    Radix,                 \* values of a byte
    PROM_MAX_LENGTH,       \* bytes of the PROM
    MAX_MINORS_PER_BOARD,
    Magic,                 \* the bytes "DIAG"
    BaseBytes,             \* bytes of prom_dma_entry.base
    LengthBytes,           \* bytes of prom_dma_entry.length
    ExtBytes,              \* bytes of base and length of prom_dma_ext_entry
    Chars,                 \* characters of names, each as its bytes in UTF-8
    Configs,               \* configuration files given to the creator
    DefaultConfig,         \* default_prom.config
    Bodies,                \* sequences of bytes taken as entries unchecked
    Fill,                  \* what the bytes behind an image hold
    None                   \* no entry, no engine, no file

Bytes == 0 .. Radix - 1

ASSUME PromAssumption ==
    /\ Radix \in Nat /\ Radix > 7
    /\ PROM_MAX_LENGTH \in Nat /\ MAX_MINORS_PER_BOARD \in Nat
    /\ BaseBytes \in Nat /\ LengthBytes \in Nat /\ ExtBytes \in Nat
    /\ ExtBytes > 0 /\ ExtBytes >= BaseBytes /\ ExtBytes >= LengthBytes
    /\ Magic \in Seq(Bytes) /\ Len(Magic) + 1 < PROM_MAX_LENGTH
    /\ Chars \subseteq Seq(Bytes \ {0}) \ {<<>>}
    /\ Fill \subseteq Bytes
    /\ \A b \in Bodies : b \in Seq(Bytes)

\* A sum over more words than a word has values would need more folds.
ASSUME LengthAssumption == PROM_MAX_LENGTH <= Radix * Radix

ASSUME NoneAssumption == None \notin Nat \cup [mask : Nat, shift : Nat]

PROM_END_TAG == 0
PROM_DEVICE_TAG == 1
PROM_DMA_TAG == 2
PROM_DMA_EXT_TAG == 3
PROM_DMA_MASK_TAG == 4
PROM_DMA_ALIGN_TAG == 5
PROM_DMA_PERM_WRITE == 2
PROM_DMA_PERM_READ == 4
PROM_VERSION == 1
PROM_CHECKSUM_SIZE == 2
PROM_VERSION_OFFSET == Len(Magic)
PROM_FIRST_ENTRY_OFFSET == Len(Magic) + 1
DMA_DEFAULT_MASK == 47
DMA_DEFAULT_ALIGNMENT_SHIFT == 5

VARIABLES
    prom,                  \* contents of the PROM
    config,                \* history: the configuration it was made from
    damaged,               \* history: one byte of an entry was changed since
    pc,                    \* how far probe is
    ent_i,                 \* load_prom's index, then the walk's entry
    nentries, dma_nentries, nentries_with_minor, data_len,
                           \* struct prom_context
    device_name,           \* create_device_nodes: a device entry was seen
    nodes,                 \* entries of the device nodes, in order of minors
    destroyed,             \* minors given to device_destroy
    dma,                   \* what initialise_dma_control is called with
    file                   \* the last open() of a node and what it got

promVars == <<prom, config, damaged>>
counts   == <<nentries, dma_nentries, nentries_with_minor, data_len>>
nodeVars == <<device_name, nodes, destroyed, file>>
vars == <<prom, config, damaged, pc, ent_i, nentries, dma_nentries,
          nentries_with_minor, data_len, device_name, nodes, destroyed, dma,
          file>>

-----------------------------------------------------------------------------
(* The checksum, the same in utils.c and in the creator. *)

Word == Radix * Radix
Fold(x) == (x % Word) + (x \div Word)

\* Wrong: the sum starts behind the head of the first entry.
calc_checksum16_Mut(f, size) ==
    LET sum[i \in 0 .. size \div 2] ==
          IF i > 3 THEN f[2*i - 2] + Radix * f[2*i - 1] + sum[i - 1]
          ELSE IF size % 2 = 1 THEN Radix * f[size - 1] ELSE 0
    IN  Word - 1 - Fold(Fold(sum[size \div 2]))

\* Of bytes f[0] to f[size - 1]; an odd last byte is the high half of a word.
calc_checksum16(f, size) ==
    LET sum[i \in 0 .. size \div 2] ==
          IF i > 0 THEN f[2*i - 2] + Radix * f[2*i - 1] + sum[i - 1]
          ELSE IF size % 2 = 1 THEN Radix * f[size - 1] ELSE 0
    IN  Word - 1 - Fold(Fold(sum[size \div 2]))

-----------------------------------------------------------------------------
(* The creator.  A configuration file is a sequence of lines. *)

\* The number of values that n bytes have.
Power[n \in 0 .. ExtBytes] == IF n = 0 THEN 1 ELSE Radix * Power[n - 1]

\* struct.pack of a little-endian number of n bytes.
Pack(x, n) == [i \in 1 .. n |-> (x \div Power[i - 1]) % Radix]

\* What the first i parts are together.
Joined(parts) ==
    LET first[i \in 0 .. Len(parts)] ==
          IF i = 0 THEN <<>> ELSE first[i - 1] \o parts[i]
    IN  first

\* str.encode: the bytes of the characters.
encode(name) == Joined(name)[Len(name)]

\* The argument has letters, or is a number.
perm_flag(arg) ==
    LET result == (IF "r" \in arg.letters THEN 4 ELSE 0)
                  + (IF "w" \in arg.letters THEN 2 ELSE 0)
    IN  IF result # 0 THEN result ELSE arg.number

\* The length is what the caller says: of a name it counts the characters,
\* and what is written are their bytes.
dump(tag, length, payload) == <<tag, length>> \o payload

\* Base and length of m and n bytes, the permission and the name.
dump_area(tag, l, m, n) ==
    dump(tag, Len(l.name) + m + n + 2,
         Pack(l.base, m) \o Pack(l.length, n) \o <<perm_flag(l.perm)>>
         \o encode(l.name) \o <<0>>)

\* Wrong: the short form is used whenever the base fits.
dump_memory_description_Mut(l) ==
    IF l.base >= Power[BaseBytes]
    THEN dump_area(PROM_DMA_EXT_TAG, l, ExtBytes, ExtBytes)
    ELSE dump_area(PROM_DMA_TAG, l, BaseBytes, LengthBytes)

dump_memory_description(l) ==
    IF l.base >= Power[BaseBytes] \/ l.length >= Power[LengthBytes]
    THEN dump_area(PROM_DMA_EXT_TAG, l, ExtBytes, ExtBytes)
    ELSE dump_area(PROM_DMA_TAG, l, BaseBytes, LengthBytes)

dump_device_description(l) ==
    dump(PROM_DEVICE_TAG, Len(l.name) + 1, encode(l.name) \o <<0>>)

DEFAULT_VERSION == 1
dump_header(version) ==
    Magic \o <<IF version = 0 THEN DEFAULT_VERSION ELSE version>>

dump_line(l) ==
    CASE l.field = "version" -> dump_header(l.value)
      [] l.field = "name"  -> dump_device_description(l)
      [] l.field = "dma"   -> dump_memory_description(l)
      [] l.field = "mask"  -> dump(PROM_DMA_MASK_TAG, 1, <<l.value>>)
      [] l.field = "align" -> dump(PROM_DMA_ALIGN_TAG, 1, <<l.value>>)

\* The lines of a configuration file, a version like any other.
Lines ==
    [field : {"name"}, name : Seq(Chars)]
    \cup [field : {"dma"}, name : Seq(Chars),
          perm : [letters : SUBSET {"r", "w"}, number : Bytes],
          base : 0 .. Power[ExtBytes] - 1, length : 0 .. Power[ExtBytes] - 1]
    \cup [field : {"version", "mask", "align"}, value : Bytes]

\* struct.pack raises if a number or the length of an entry does not fit, and
\* no image is written.
ASSUME ConfigAssumption ==
    \A c \in Configs \cup {DefaultConfig} :
        c \in Seq(Lines) /\ \A i \in DOMAIN c : dump_line(c[i]) \in Seq(Bytes)

\* The end entry is padded so that the checksum starts at a word.
dump_end(content) ==
    LET end == IF Len(content) % 2 = 1 THEN <<0, 3, 0>> ELSE <<0, 2>>
        all == content \o end
        sum == calc_checksum16([i \in 0 .. Len(all) - 1 |-> all[i + 1]], Len(all))
    IN  IF content = <<>> THEN <<0, 0>> ELSE end \o Pack(sum, 2)

\* The bytes written up to each line.
Contents(lines) == Joined([k \in DOMAIN lines |-> dump_line(lines[k])])

process_config_file(lines) ==
    LET content == Contents(lines)[Len(lines)] IN content \o dump_end(content)

\* The files that are meant to be loaded: the version of the driver comes
\* first and once, and names are written with one byte for a character.
OneByte(l) ==
    l.field \in {"name", "dma"} => \A i \in DOMAIN l.name : Len(l.name[i]) = 1
WellFormed(c) ==
    /\ c # <<>> /\ c[1].field = "version" /\ c[1].value \in {0, PROM_VERSION}
    /\ \A k \in 2 .. Len(c) : c[k].field # "version" /\ OneByte(c[k])

-----------------------------------------------------------------------------
(* What the PROM may hold: an image of the creator, or any bytes that end  *)
(* with a good checksum, in both cases with anything behind them.          *)

\* The PROM holds the first bytes of an image; buff has one more, zero.
Burn(image, fill) ==
    [i \in 0 .. PROM_MAX_LENGTH |->
        IF i = PROM_MAX_LENGTH THEN 0
        ELSE IF i < Len(image) THEN image[i + 1] ELSE fill]

default_prom == Burn(process_config_file(DefaultConfig), 0)

Init ==
    /\ \/ \E c \in Configs, fill \in Fill :
            /\ config = c
            /\ prom = Burn(process_config_file(c), fill)
       \/ \E b \in Bodies, fill \in Fill,
             h \in {dump_header(PROM_VERSION), dump_header(PROM_VERSION + 1), <<>>} :
            /\ config = <<>>
            /\ prom = Burn(h \o b \o dump_end(h \o b), fill)
    /\ damaged = FALSE
    /\ pc = "load" /\ ent_i = PROM_FIRST_ENTRY_OFFSET
    /\ nentries = 0 /\ dma_nentries = 0 /\ nentries_with_minor = 0
    /\ data_len = 0 /\ device_name = FALSE /\ nodes = <<>> /\ destroyed = {}
    /\ dma = None /\ file = None

\* load_prom's copy of the PROM, or of the default if the magic is missing.
check_magic == \A i \in DOMAIN Magic : prom[i - 1] = Magic[i]
buff == IF check_magic THEN prom ELSE default_prom

-----------------------------------------------------------------------------
(* Entries, by their index in buff. *)

tag(e) == buff[e]
size(e) == buff[e + 1]
prom_next_entry(e) == IF tag(e) = PROM_END_TAG THEN e ELSE e + size(e) + 2

IsDma(e) == tag(e) \in {PROM_DMA_TAG, PROM_DMA_EXT_TAG}
prom_entry_needs_minor(e) == tag(e) = PROM_DEVICE_TAG \/ IsDma(e)

\* What prom_for_each_entry visits; outside the buffer it would run on.
prom_for_each_entry ==
    LET from[e \in 0 .. PROM_MAX_LENGTH] ==
          IF tag(e) = PROM_END_TAG THEN <<>>
          ELSE <<e>> \o (IF prom_next_entry(e) < PROM_MAX_LENGTH
                         THEN from[prom_next_entry(e)] ELSE <<>>)
    IN  from[PROM_FIRST_ENTRY_OFFSET]

\* Where the walk stops.
walk_end ==
    LET seen == prom_for_each_entry
    IN  IF seen = <<>> THEN PROM_FIRST_ENTRY_OFFSET
        ELSE prom_next_entry(seen[Len(seen)])

\* How many of the first k entries of a walk need a minor.
MinorsAmong(seen, k) ==
    Cardinality({j \in 1 .. k : prom_entry_needs_minor(seen[j])})

\* The entry of a minor number, counted from 0; None if there is none.
prom_find_entry_with_minor(minor) ==
    LET seen == prom_for_each_entry
        found == {k \in DOMAIN seen : /\ prom_entry_needs_minor(seen[k])
                                      /\ MinorsAmong(seen, k - 1) = minor}
    IN  IF found = {} THEN None ELSE seen[CHOOSE k \in found : TRUE]

\* The fields of an entry, as amc_pci_open and initialise_board read them.
Number(at, n) ==
    LET digits[i \in 0 .. n] ==
          IF i = 0 THEN 0
          ELSE digits[i - 1] + buff[at + i - 1] * Power[i - 1]
    IN  digits[n]

Name(at) ==
    LET rest[i \in 0 .. PROM_MAX_LENGTH] ==
          IF buff[i] = 0 THEN <<>> ELSE <<buff[i]>> \o rest[i + 1]
    IN  rest[at]

Flag(l) == IF l = "r" THEN PROM_DMA_PERM_READ ELSE PROM_DMA_PERM_WRITE
Perm(x) == {l \in {"r", "w"} : (x \div Flag(l)) % 2 = 1}

Area(e, baseBytes, lengthBytes) ==
    LET at == e + 2 + baseBytes + lengthBytes
    IN  [field |-> "dma", base |-> Number(e + 2, baseBytes),
         length |-> Number(e + 2 + baseBytes, lengthBytes),
         perm |-> Perm(buff[at]), name |-> Name(at + 1)]

Fields(e) ==
    CASE tag(e) = PROM_DEVICE_TAG  -> [field |-> "name", name |-> Name(e + 2)]
      [] tag(e) = PROM_DMA_TAG     -> Area(e, BaseBytes, LengthBytes)
      [] tag(e) = PROM_DMA_EXT_TAG -> Area(e, ExtBytes, ExtBytes)
      [] tag(e) = PROM_DMA_MASK_TAG -> [field |-> "mask", value |-> buff[e + 2]]
      [] tag(e) = PROM_DMA_ALIGN_TAG ->
            [field |-> "align", value |-> buff[e + 2]]

-----------------------------------------------------------------------------
(* load_prom. *)

\* The tags and sizes of the entries and of the end marker.
Heads ==
    LET seen == prom_for_each_entry
    IN  {seen[k] + d : k \in DOMAIN seen, d \in 0 .. 1}
        \cup {walk_end, walk_end + 1}

\* Before the PROM is read, one byte of an image may change: of the contents
\* of an entry or of the checksum, not of a tag or a size.
Damage ==
    /\ pc = "load" /\ WellFormed(config) /\ ~ damaged
    /\ LET length == Len(process_config_file(config))
       IN  /\ length < PROM_MAX_LENGTH
           /\ \E i \in (PROM_FIRST_ENTRY_OFFSET .. length - 1) \ Heads :
                \E b \in Bytes \ {prom[i]} : prom' = [prom EXCEPT ![i] = b]
    /\ damaged' = TRUE
    /\ UNCHANGED <<config, pc, ent_i, counts, nodeVars, dma>>

\* The PROM is copied and its version checked.
load_prom ==
    /\ pc = "load"
    /\ pc' = IF buff[PROM_VERSION_OFFSET] = PROM_VERSION THEN "scan"
             ELSE "rejected"
    /\ UNCHANGED <<promVars, ent_i, counts, nodeVars, dma>>

AtEnd == ent_i < PROM_MAX_LENGTH => tag(ent_i) = PROM_END_TAG

One(b) == IF b THEN 1 ELSE 0

\* Wrong: entries of an unknown kind are counted as needing a minor.
scan_entry_Mut ==
    /\ pc = "scan" /\ ~ AtEnd
    /\ dma_nentries' = dma_nentries + One(IsDma(ent_i))
    /\ nentries_with_minor' = nentries_with_minor + 1
    /\ nentries' = nentries + 1
    /\ ent_i' = ent_i + size(ent_i) + 2
    /\ UNCHANGED <<promVars, pc, data_len, nodeVars, dma>>

scan_entry ==
    /\ pc = "scan" /\ ~ AtEnd
    /\ dma_nentries' = dma_nentries + One(IsDma(ent_i))
    /\ nentries_with_minor' =
            nentries_with_minor + One(prom_entry_needs_minor(ent_i))
    /\ nentries' = nentries + 1
    /\ ent_i' = ent_i + size(ent_i) + 2
    /\ UNCHANGED <<promVars, pc, data_len, nodeVars, dma>>

\* Wrong: an image may end with the PROM.
scan_end_Mut ==
    /\ pc = "scan" /\ AtEnd
    /\ \E s \in (IF ent_i < PROM_MAX_LENGTH THEN {size(ent_i)} ELSE Bytes) :
        /\ data_len' = ent_i + s + 2
        /\ pc' = IF /\ data_len' <= PROM_MAX_LENGTH
                    /\ tag(ent_i) = PROM_END_TAG
                    /\ s \in {PROM_CHECKSUM_SIZE, PROM_CHECKSUM_SIZE + 1}
                    /\ calc_checksum16(buff, data_len') = 0
                 THEN "loaded" ELSE "rejected"
    /\ UNCHANGED <<promVars, ent_i, nentries, dma_nentries,
                   nentries_with_minor, nodeVars, dma>>

\* The end marker and the checksum are checked.  When the walk has run off
\* the end, the size is read from behind the buffer and may be anything.
scan_end ==
    /\ pc = "scan" /\ AtEnd
    /\ \E s \in (IF ent_i < PROM_MAX_LENGTH THEN {size(ent_i)} ELSE Bytes) :
        /\ data_len' = ent_i + s + 2
        /\ pc' = IF /\ data_len' < PROM_MAX_LENGTH
                    /\ tag(ent_i) = PROM_END_TAG
                    /\ s \in {PROM_CHECKSUM_SIZE, PROM_CHECKSUM_SIZE + 1}
                    /\ calc_checksum16(buff, data_len') = 0
                 THEN "loaded" ELSE "rejected"
    /\ UNCHANGED <<promVars, ent_i, nentries, dma_nentries,
                   nentries_with_minor, nodeVars, dma>>

-----------------------------------------------------------------------------
(* initialise_board, create_device_nodes and destroy_device_nodes. *)

\* The mask and the alignment are taken from the first entry of their kind.
prom_find_entry_by_tag(t) ==
    LET seen == prom_for_each_entry
        found == {k \in DOMAIN seen : tag(seen[k]) = t}
    IN  IF found = {} THEN None
        ELSE seen[CHOOSE k \in found : \A j \in found : k <= j]

Value(t, default) ==
    LET e == prom_find_entry_by_tag(t) IN IF e = None THEN default ELSE buff[e + 2]

DmaSettings ==
    [mask  |-> Value(PROM_DMA_MASK_TAG, DMA_DEFAULT_MASK),
     shift |-> Value(PROM_DMA_ALIGN_TAG, DMA_DEFAULT_ALIGNMENT_SHIFT)]

\* Wrong: only the entries that need a minor are limited.
initialise_board_Mut ==
    /\ pc = "loaded"
    /\ \/ /\ nentries_with_minor > MAX_MINORS_PER_BOARD
          /\ pc' = "E2BIG"
          /\ UNCHANGED dma
       \/ /\ nentries_with_minor <= MAX_MINORS_PER_BOARD
          /\ pc' = "cdev"
          /\ dma' = IF dma_nentries = 0 THEN None ELSE DmaSettings
    /\ UNCHANGED <<promVars, ent_i, counts, nodeVars>>

initialise_board ==
    /\ pc = "loaded"
    /\ \/ /\ nentries > MAX_MINORS_PER_BOARD
          /\ pc' = "E2BIG"
          /\ UNCHANGED dma
       \/ /\ nentries <= MAX_MINORS_PER_BOARD
          /\ pc' = "cdev"
          /\ dma' = IF dma_nentries = 0 THEN None ELSE DmaSettings
    /\ UNCHANGED <<promVars, ent_i, counts, nodeVars>>

\* cdev_add, if there is anything to add.
create_device_nodes ==
    /\ pc = "cdev"
    /\ pc' = IF nentries_with_minor > 0 THEN "nodes" ELSE "failed"
    /\ ent_i' = PROM_FIRST_ENTRY_OFFSET
    /\ UNCHANGED <<promVars, counts, nodeVars, dma>>

\* Wrong: every entry takes a minor.
device_create_Mut ==
    /\ pc = "nodes" /\ tag(ent_i) # PROM_END_TAG
    /\ ent_i' = prom_next_entry(ent_i)
    /\ nodes' = Append(nodes, ent_i)
    /\ UNCHANGED <<promVars, pc, counts, device_name, destroyed, dma, file>>

\* One entry of the loop.  There must be one device entry, before the areas.
device_create ==
    /\ pc = "nodes" /\ tag(ent_i) # PROM_END_TAG
    /\ ent_i' = prom_next_entry(ent_i)
    /\ \/ /\ ~ prom_entry_needs_minor(ent_i)
          /\ UNCHANGED <<pc, device_name, nodes>>
       \/ /\ prom_entry_needs_minor(ent_i)
          /\ device_name <=> IsDma(ent_i)
          /\ device_name' = TRUE
          /\ nodes' = Append(nodes, ent_i)
          /\ UNCHANGED pc
       \/ /\ prom_entry_needs_minor(ent_i)
          /\ ~ (device_name <=> IsDma(ent_i))
          /\ pc' = "failed"
          /\ UNCHANGED <<device_name, nodes>>
    /\ UNCHANGED <<promVars, counts, destroyed, dma, file>>

nodes_created ==
    /\ pc = "nodes" /\ tag(ent_i) = PROM_END_TAG
    /\ pc' = "bound"
    /\ UNCHANGED <<promVars, ent_i, counts, nodeVars, dma>>

\* O_RDONLY, O_WRONLY, O_RDWR and the fourth value of O_ACCMODE.
Modes == {{"r"}, {"w"}, {"r", "w"}, {"neither"}}

\* Wrong: one of the rights asked for is enough.
validate_file_permission_Mut(mode, perm) == mode \cap perm # {}

validate_file_permission(mode, perm) == mode \subseteq perm

\* The VFS asks only for minors the cdev was added with.
amc_pci_open(minor, mode) ==
    /\ pc = "bound" /\ minor < nentries_with_minor
    /\ LET e == prom_find_entry_with_minor(minor)
       IN  file' = [minor |-> minor, mode |-> mode, got |->
                CASE e = None -> <<"EINVAL">>
                  [] tag(e) = PROM_DEVICE_TAG -> <<"reg">>
                  [] IsDma(e) ->
                        IF validate_file_permission(mode, Fields(e).perm)
                        THEN <<"area", Fields(e).base, Fields(e).length>>
                        ELSE <<"EACCES">>]
    /\ UNCHANGED <<promVars, pc, ent_i, counts, device_name, nodes, destroyed,
                   dma>>

destroy_device_nodes ==
    /\ pc = "bound"
    /\ pc' = "removed"
    /\ destroyed' = 0 .. nentries - 1
    /\ UNCHANGED <<promVars, ent_i, counts, device_name, nodes, dma, file>>

-----------------------------------------------------------------------------
Next ==
    \/ Damage
    \/ load_prom
    \/ scan_entry
    \/ scan_end
    \/ initialise_board
    \/ create_device_nodes
    \/ device_create
    \/ nodes_created
    \/ \E minor \in 0 .. MAX_MINORS_PER_BOARD - 1 :
            \E mode \in Modes : amc_pci_open(minor, mode)
    \/ destroy_device_nodes

Spec == Init /\ [][Next]_vars

-----------------------------------------------------------------------------
(* Properties. *)

Accepted == {"loaded", "E2BIG", "cdev", "nodes", "failed", "bound", "removed"}

\* Every variable keeps its type, and once load_prom has accepted a PROM all
\* indices into buff are within the PROM: the byte that may have been read
\* from behind the buffer decides nothing.
TypeOK ==
    /\ pc \in {"load", "scan", "rejected"} \cup Accepted
    /\ {nentries, dma_nentries, nentries_with_minor, data_len} \subseteq Nat
    /\ ent_i \in 0 .. PROM_MAX_LENGTH + Radix
    /\ pc \in Accepted =>
        /\ ent_i < PROM_MAX_LENGTH /\ data_len \in 1 .. PROM_MAX_LENGTH - 1
        /\ \A k \in DOMAIN nodes : nodes[k] < data_len

\* After load_prom, every walk over the entries ends at the end marker the
\* loader found, and meets as many entries of each kind as it counted.
WalksAgree ==
    pc \in Accepted =>
        LET seen == prom_for_each_entry
        IN  /\ Len(seen) = nentries
            /\ Cardinality({k \in DOMAIN seen : IsDma(seen[k])}) = dma_nentries
            /\ MinorsAmong(seen, Len(seen)) = nentries_with_minor
            /\ walk_end < data_len /\ tag(walk_end) = PROM_END_TAG

\* amc_pci_open finds for a node's minor the entry that create_device_nodes
\* made the node for, whatever other entries are in between; a board that was
\* bound has a node for each minor of its cdev, the register node first.
NodesMatchOpen ==
    /\ \A k \in DOMAIN nodes : prom_find_entry_with_minor(k - 1) = nodes[k]
    /\ pc = "bound" =>
        /\ Len(nodes) = nentries_with_minor
        /\ \A k \in DOMAIN nodes : IsDma(nodes[k]) <=> k > 1

\* destroy_device_nodes counts to nentries, not to the number of nodes: it
\* reaches all nodes of the board and none of the next board's minors.
DestroysOwnNodes ==
    pc = "removed" =>
        /\ 0 .. Len(nodes) - 1 \subseteq destroyed
        /\ destroyed \subseteq 0 .. MAX_MINORS_PER_BOARD - 1

\* The lines behind the version, and what a line is to be read as: names as
\* bytes, a permission as letters or, if there are none, as a number of flags.
Entries(c) == [k \in 1 .. Len(c) - 1 |-> c[k + 1]]
Rights(arg) == IF arg.letters = {} THEN Perm(arg.number) ELSE arg.letters
Meaning(l) ==
    CASE l.field = "name" -> [l EXCEPT !.name = encode(l.name)]
      [] l.field = "dma" -> [l EXCEPT !.name = encode(l.name), !.perm = Rights(l.perm)]
      [] l.field \in {"mask", "align"} -> l

\* What the creator writes for a file that starts with the version and whose
\* names have characters of one byte, the loader accepts, and reads the same
\* names, addresses, lengths, permissions, mask and alignment from it.
RoundTrip ==
    /\ WellFormed(config) /\ ~ damaged
    /\ Len(process_config_file(config)) < PROM_MAX_LENGTH
    => /\ pc # "rejected"
       /\ pc \in Accepted =>
            [k \in DOMAIN Entries(config) |-> Meaning(Entries(config)[k])]
            = [k \in DOMAIN prom_for_each_entry |-> Fields(prom_for_each_entry[k])]

\* The lines that get a node, and the line of the node with a minor number.
Describes(l) == l.field \in {"name", "dma"}
LineOf(minor) ==
    LET lines == Entries(config)
    IN  lines[CHOOSE k \in DOMAIN lines :
             /\ Describes(lines[k])
             /\ Cardinality({j \in 1 .. k - 1 : Describes(lines[j])}) = minor]

\* The value of the first line of a kind.
First(field, default) ==
    LET lines == Entries(config)
        found == {k \in DOMAIN lines : lines[k].field = field}
    IN  IF found = {} THEN default
        ELSE lines[CHOOSE k \in found : \A j \in found : k <= j].value

\* From such a file to open(): node k is opened as the area of the k-th line
\* that describes one, with its base and length and never with more rights
\* than its line gives; the engine is set up with the first mask and alignment
\* of the file, or the defaults.
OpensAsConfigured ==
    file # None /\ WellFormed(config) /\ ~ damaged =>
        LET l == LineOf(file.minor)
        IN  /\ file.got = IF l.field = "name" THEN <<"reg">>
                          ELSE IF file.mode \subseteq Rights(l.perm)
                          THEN <<"area", l.base, l.length>> ELSE <<"EACCES">>
            /\ dma # None =>
                 /\ dma.mask = First("mask", DMA_DEFAULT_MASK)
                 /\ dma.shift = First("align", DMA_DEFAULT_ALIGNMENT_SHIFT)
            /\ l.field = "dma" => dma # None

\* The checksum refuses an image in which one byte of an entry's contents or
\* of the checksum itself has changed.
DamageDetected == damaged => pc \notin Accepted
=============================================================================
