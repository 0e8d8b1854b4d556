--------------------------- MODULE MCRecommender ----------------------------
(***************************************************************************)
(* Requests for the recommender: all sizes, limits and priority lists with *)
(* few options, and all options with few sizes.                            *)
(***************************************************************************)
EXTENDS Recommender

Opt(name, spelling, arg, mb) == [key |-> <<name, spelling>>, arg |-> arg, mb |-> mb]

StatOpt(mb) == Opt(statCacheKey, "lower", "int", mb)
FileOpt(mb) == Opt(fileCacheKey, "lower", "int", mb)

\* In the order of their text: capitals first, "-1" before "0" before "128".
AllOptions ==
  <<Opt("file-cache-max-size-mb", "capital", "int", 3),
    Opt("file-cache-max-size-mb", "lower", "none", 0),
    Opt("file-cache-max-size-mb", "lower", "int", 3),
    FileOpt(-1), FileOpt(0), FileOpt(3),
    Opt("implicit-dirs", "lower", "none", 0),
    Opt("implicit-dirs", "lower", "malformed", 0),
    StatOpt(-1), StatOpt(128), StatOpt(3),
    Opt(statCacheKey, "lower", "text", 0),
    Opt("stat-cache-max-size-mb", "lower", "int", 128),
    Opt("stat-cache-max-size-mb", "lower", "int", 3)>>

UserOptions == {S \in SUBSET ToSet(AllOptions) : Cardinality(S) <= 2}
ClassOptions ==
  {<<>>, <<StatOpt(3)>>, <<Opt("implicit-dirs", "capital", "none", 0), FileOpt(3)>>,
   <<StatOpt(-1), Opt("stat-cache-max-size-mb", "lower", "int", 1)>>,
   <<Opt("implicit-dirs", "lower", "malformed", 0)>>}

NoAttributes == [k \in {} |-> 0]
Attribute(name, spelling, mb) == [k \in {<<name, spelling>>} |-> mb]
Attributes ==
  {NoAttributes, Attribute("fileCacheCapacity", "exact", -1),
   Attribute("fileCacheCapacity", "capital", 3),
   Attribute("metadataStatCacheCapacity", "exact", 3)}
Parameters ==
  {NoAttributes, Attribute("fileCacheCapacity", "capital", 0),
   Attribute("fileCacheCapacity", "exact", 0),
   [k \in {<<"fileCacheCapacity", "exact">>, <<"fileCacheCapacity", "capital">>} |-> 3]}

Plain ==
  [numObjects |-> 5, totalSizeBytes |-> 9, zonal |-> FALSE, hns |-> FALSE,
   nodeType |-> "gpu", localSSD |-> TRUE, memory |-> 60, disk |-> 40,
   memoryLimit |-> 0, diskLimit |-> 0, customCache |-> FALSE,
   hasPriority |-> TRUE, priority |-> <<"ram", "lssd">>,
   memoryFactor |-> <<7, 10>>, diskFactor |-> <<17, 20>>,
   options |-> {}, classOptions |-> <<>>, attributes |-> NoAttributes,
   parameters |-> NoAttributes]

Sizes ==
  {[Plain EXCEPT !.numObjects = n, !.totalSizeBytes = s, !.hns = h, !.localSSD = l,
                 !.nodeType = t, !.memoryLimit = m, !.priority = p, !.options = o] :
     n \in {0, 5, 12, 200}, s \in {0, 1, 9, 26, 33, 200}, h \in BOOLEAN, l \in BOOLEAN,
     t \in {"gpu", "tpu"}, m \in {0, 1, 30, 90},
     p \in {<<"ram", "lssd">>, <<"lssd", "ram">>, <<"lssd">>, <<"disk", "ram">>, <<>>},
     o \in {{}, {StatOpt(-1)}, {StatOpt(3)}}}

Kinds ==
  {[Plain EXCEPT !.zonal = z, !.customCache = c, !.hasPriority = p, !.memoryFactor = f,
                 !.diskLimit = d, !.totalSizeBytes = s] :
     z \in BOOLEAN, c \in BOOLEAN, p \in BOOLEAN, f \in {<<0, 1>>, <<7, 10>>, <<1, 1>>},
     d \in {0, 10}, s \in {0, 9, 38, 61}}

Options ==
  {[Plain EXCEPT !.options = o, !.classOptions = c, !.attributes = a, !.parameters = p,
                 !.totalSizeBytes = s] :
     o \in UserOptions, c \in ClassOptions, a \in Attributes, p \in Parameters, s \in {9, 38}}

AllRequests == Sizes \cup Kinds \cup Options
=============================================================================
