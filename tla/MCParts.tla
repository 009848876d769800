------------------------------ MODULE MCParts ------------------------------
(***************************************************************************)
(* The parts that share no state with one another, checked side by side on *)
(* small instances: the name a logo's file stands for, the launches of the *)
(* app, of LevelDB the log, the iterators, the skip list, the cache, the   *)
(* tables, the environment and the repair, and nanopb's decoder.           *)
(* A behaviour chooses a part and takes only its steps.                    *)
(***************************************************************************)
EXTENDS LogoPaths, Launch, PosixEnv, SkipList, LRUCache, Repair, Nanopb

VARIABLES
  part,                                                       \* the part chosen
  logFile, blockOff, records, damage, place, rd, out, drops,  \* LogFormat
  blocks, unread, wide, sequence, m, it, want,                \* DBIter
  blockSize, block, lastKey, done, index, waiting, offset, filterKeys, filters,
  added, closed, blockIt, at                                  \* Table

logVars == <<logFile, blockOff, records, damage, place, rd, out, drops>>
iterVars == <<blocks, unread, wide, sequence, m, it, want>>
tabVars == <<blockSize, block, lastKey, done, index, waiting, offset,
             filterKeys, filters, added, closed, blockIt, at>>

-----------------------------------------------------------------------------
(* Blocks of five bytes make records of 7 span three of them and leave     *)
(* trailers of no byte and of one.                                         *)
Log == INSTANCE LogFormat WITH
  file <- logFile,
  BlockSize <- 5, HeaderSize <- 2, Lengths <- {0, 1, 2, 4, 7}, MaxRecords <- 3

Iter == INSTANCE DBIter WITH
  Keys <- {1, 2}, MaxSeq <- 3, Snapshots <- {2, 3}, PerBlock <- {1, 2}

(* Keys with and without a shorter separator, of which one is the          *)
(* beginning of another and one has only the greatest letter; small blocks *)
(* that share a stretch of the filter, and blocks longer than a stretch.   *)
Tab == INSTANCE Table WITH
  Letters <- {0, 1, 2}, MaxLength <- 2, MaxSeq <- 2, RestartInterval <- 2,
  Stored <- {<<0>>, <<0, 0>>, <<0, 2>>, <<2>>, <<2, 2>>},
  BlockSizes <- {5, 11}, FilterBase <- 8, MaxEntries <- 5, it <- blockIt,
  pending <- waiting

-----------------------------------------------------------------------------
PartsInit ==
  /\ part \in {"name", "log", "iter", "list", "cache", "table", "launch",
              "env", "repair", "decode"}
  /\ PathInit /\ Log!Init /\ Iter!Init /\ ListInit /\ CacheInit /\ Tab!Init
  /\ Init /\ EnvInit /\ RepairInit /\ PbInit

PartsNext ==
  \/ /\ part = "name" /\ PathNext
     /\ UNCHANGED <<part, logVars, iterVars, listVars, cacheVars, tabVars,
                    vars, envVars, repairVars, pbVars>>
  \/ /\ part = "log" /\ Log!Next
     /\ UNCHANGED <<part, path, iterVars, listVars, cacheVars, tabVars,
                    vars, envVars, repairVars, pbVars>>
  \/ /\ part = "iter" /\ Iter!Next
     /\ UNCHANGED <<part, path, logVars, listVars, cacheVars, tabVars,
                    vars, envVars, repairVars, pbVars>>
  \/ /\ part = "list" /\ ListNext
     /\ UNCHANGED <<part, path, logVars, iterVars, cacheVars, tabVars,
                    vars, envVars, repairVars, pbVars>>
  \/ /\ part = "cache" /\ CacheNext
     /\ UNCHANGED <<part, path, logVars, iterVars, listVars, tabVars,
                    vars, envVars, repairVars, pbVars>>
  \/ /\ part = "table" /\ Tab!Next
     /\ UNCHANGED <<part, path, logVars, iterVars, listVars, cacheVars,
                    vars, envVars, repairVars, pbVars>>
  \/ /\ part = "launch" /\ Next
     /\ UNCHANGED <<part, path, logVars, iterVars, listVars, cacheVars,
                    tabVars, envVars, repairVars, pbVars>>
  \/ /\ part = "env" /\ EnvNext
     /\ UNCHANGED <<part, path, logVars, iterVars, listVars, cacheVars,
                    tabVars, vars, repairVars, pbVars>>
  \/ /\ part = "repair" /\ RepairNext
     /\ UNCHANGED <<part, path, logVars, iterVars, listVars, cacheVars,
                    tabVars, vars, envVars, pbVars>>
  \/ /\ part = "decode" /\ PbNext
     /\ UNCHANGED <<part, path, logVars, iterVars, listVars, cacheVars,
                    tabVars, vars, envVars, repairVars>>

partsVars == <<part, path, logVars, iterVars, listVars, cacheVars, tabVars,
          vars, envVars, repairVars, pbVars>>
PartsSpec == PartsInit /\ [][PartsNext]_partsVars

-----------------------------------------------------------------------------
(* Properties.                                                             *)

(* log_reader.cc:56-174 gives back what log_writer.cc:34-80 was given: see *)
(* LogFormat for what is promised after a cut, a damaged byte or a call    *)
(* that failed.                                                            *)
LogReadsBack == Log!LogReadsBack

(* An iterator of db_iter.cc, whatever the calls and their directions, is  *)
(* at the key that the snapshot has there, or says that a block was not    *)
(* readable.                                                               *)
IteratorAgrees == Iter!IteratorAgrees

(* A table built by table_builder.cc is read by table.cc and block.cc as   *)
(* what was added to it.                                                   *)
TableReadsBack == Tab!TableReadsBack

=============================================================================
