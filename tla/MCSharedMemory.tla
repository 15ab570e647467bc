--------------------------- MODULE MCSharedMemory ---------------------------
(***************************************************************************)
(* Segments with two clients and two sizes; beside it the mapped           *)
(* configuration of tm_shm.c (CfgMmap) with one to three blocks, and the   *)
(* configuration of conf_parser (Config) with files of up to three lines   *)
(* of two keys.                                                            *)
(***************************************************************************)
EXTENDS Segments, TLC

CONSTANTS
  c1, c2,
  Counts, Readers, Zero, Junk, MaxLoads   (* of CfgMmap                    *)

\* update_cfg_on_mmap refuses a mem_size of less than one meta_size, or of a part.
ASSUME MmapAssumption == Counts \subseteq Nat \ {0}

VARIABLES
  part,
  n, file, mem, owner, version, reader, cur, overrun, disturbed,
  heads, inited, index, first, iter, result, loads, before, lines, present, dumped

mapping == <<n, file, mem, owner, version, reader, cur, overrun, disturbed>>
config  == <<heads, inited, index, first, iter, result, loads, before, lines, present, dumped>>

Symmetry == Permutations({c1, c2})

Mmap == INSTANCE CfgMmap

\* Comments, blanks before and after, one separator or several, keys without a
\* value, values too long.
MCLines ==
  {<<"#", "k", "=", "v">>, <<"k", "=", "v">>, <<"k", " ", "=", "w", " ">>, <<"m", "=", "w">>,
   <<" ", "k">>, <<>>, <<"l", "=", "v", "v", "v", "v">>, <<"l", "=", "v">>}

MCFiles ==
  {<<>>} \cup {<<a>> : a \in MCLines} \cup {<<a, b>> : a \in MCLines, b \in MCLines}
    \cup {<<a, <<"l", " ", "v">>, <<"m", "=", "w">>>> : a \in MCLines}

HashOf(k) == IF k = <<"m">> THEN 1 ELSE 0

Conf == INSTANCE Config WITH
  Files <- MCFiles, Separators <- {" ", "="}, Hash <- HashOf, Buckets <- 3, MaxVal <- 3,
  None <- NoSeg, MaxLoads <- 2, file <- lines

\* The parts that are not looked at stay in one state.
MCInit ==
  /\ part \in {"segments", "mapping", "config"}
  /\ Init /\ Mmap!Init /\ (part = "mapping" \/ n = 1) /\ Conf!Init

MCNext ==
  /\ part' = part
  /\ \/ part = "segments" /\ Next /\ UNCHANGED <<mapping, config>>
     \/ part = "mapping" /\ Mmap!Next /\ UNCHANGED <<vars, config>>
     \/ part = "config" /\ Conf!Next /\ UNCHANGED <<vars, mapping>>

MCSpec == MCInit /\ [][MCNext]_<<vars, mapping, config, part>>

\* update_cfg_on_mmap (tm_shm.c:94): a configuration in use is never torn.
MCMappingRight == part = "mapping" => Mmap!MappingRight

\* config_init (config.c): a file that is read again means what it says.
MCConfigRight == part = "config" => Conf!ConfigRight
=============================================================================
