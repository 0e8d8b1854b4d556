---------------------------- MODULE Recommender -----------------------------
(***************************************************************************)
(* The GCSFuse profiles recommender (pkg/profiles/recommender.go) as       *)
(* NodePublishVolume and NodeStageVolume call it: BuildProfileConfig, the  *)
(* merge of the StorageClass parameters into the volume attributes, their  *)
(* conversion to mount options (parseRequestArguments), and the merge of   *)
(* the StorageClass options and of the recommended cache sizes into the    *)
(* options of the user.                                                    *)
(*                                                                         *)
(* A mount option is its key (a name and a spelling: upper and lower case  *)
(* are told apart by some comparisons only), the kind of its argument and, *)
(* for an integer, the integer.  int64 is Width bits wide.  The float      *)
(* factors are fractions and their products are exact.                     *)
(***************************************************************************)
EXTENDS Integers, SequencesExt

CONSTANTS
  Requests,     \* what the PV, its StorageClass, the node and the Pod may be
  Ascii,        \* every mount option of the user, in the order of their text
  mib,
  minMetadataStatCacheMBSize,
  metadataStatCacheBytesPerObjectFlat,
  metadataStatCacheBytesPerObjectHNS,
  Width         \* bits of an int64

ASSUME SizesAssumption ==
  /\ mib \in Nat \ {0} /\ minMetadataStatCacheMBSize \in Nat
  /\ metadataStatCacheBytesPerObjectFlat \in Nat
  /\ metadataStatCacheBytesPerObjectHNS \in Nat
  /\ Width \in Nat \ {0} /\ minMetadataStatCacheMBSize * mib < 2 ^ (Width - 1)

VARIABLES
  request,
  pc,
  code,     \* what the call returned, "" while it runs
  vc,       \* the volume context: attribute -> MiB
  opts      \* the mount options passed on to gcsfuse

vars == <<request, pc, code, vc, opts>>

Init ==
  /\ request \in Requests
  /\ pc = "build" /\ code = "" /\ opts = <<>>
  /\ vc = request.attributes

-----------------------------------------------------------------------------
int64(x) == ((x + 2 ^ (Width - 1)) % 2 ^ Width) - 2 ^ (Width - 1)

minInt64(a, b) == IF a < b THEN a ELSE b
maxInt64(a, b) == IF a > b THEN a ELSE b

\* Go's division truncates towards zero; sizes other than -1 are not negative.
bytesToMiB(a) == IF a = -1 THEN -1 ELSE int64(a + mib - 1) \div mib
mibToBytes(a) == IF a = -1 THEN -1 ELSE int64(a * mib)

statCacheKey == "metadata-cache:stat-cache-max-size-mb"
fileCacheKey == "file-cache:max-size-mb"
mediumKey    == "file-cache-medium"

ToLower(key) == key[1]

normalizeOpt(key) ==
  CASE ToLower(key) = "stat-cache-max-size-mb" -> statCacheKey
    [] ToLower(key) = "file-cache-max-size-mb" -> fileCacheKey
    [] OTHER -> ToLower(key)

Keys(options) == {normalizeOpt(o.key) : o \in ToSet(options)}

isValidMountOption(o) == o.arg # "malformed"
AllValid(options)     == \A o \in ToSet(options) : isValidMountOption(o)

-----------------------------------------------------------------------------
\* The StorageClass's entry of a key that the user did not spell in any way.
\* Go ranges over the map in any order: of two spellings either may be taken.
mergeMapsOnMissingKeys(dst, src) ==
  LET taken == {ToLower(k) : k \in DOMAIN dst}
      new   == {S \in SUBSET {k \in DOMAIN src : ToLower(k) \notin taken} :
                  /\ \A k \in DOMAIN src : ToLower(k) \in taken \cup {ToLower(j) : j \in S}
                  /\ \A j, k \in S : j # k => ToLower(j) # ToLower(k)}
  IN {[k \in DOMAIN dst \cup S |-> IF k \in S THEN src[k] ELSE dst[k]] : S \in new}

\* parseVolumeAttributes reads the exact spellings only; a negative quantity
\* is unlimited.
AttributeOption(attribute, mb) ==
  [key |-> <<IF attribute = "fileCacheCapacity" THEN fileCacheKey ELSE statCacheKey, "lower">>,
   arg |-> "int", mb |-> IF mb < 0 THEN -1 ELSE mb]

parseVolumeAttributes(options, context) ==
  options \cup {AttributeOption(k[1], context[k]) :
                  k \in {j \in DOMAIN context : j[2] = "exact"}}

\* joinMountOptions keeps a set and returns its elements sorted by their text.
joinMountOptions(options) == SelectSeq(Ascii, LAMBDA o : o \in options)

mergeIgnoringCLIKeys(userOpts, systemOpts) ==
  FoldLeft(LAMBDA merged, o : IF \E p \in ToSet(merged) : p.key = o.key
                              THEN merged ELSE Append(merged, o),
           userOpts, systemOpts)

mergeMountOptionsOnMissingKeys(userOpts, systemOpts) ==
  FoldLeft(LAMBDA merged, o : IF normalizeOpt(o.key) \in Keys(merged)
                              THEN merged ELSE Append(merged, o),
           userOpts, systemOpts)

\* parseCacheOverrides: the last option of the key that has a value.
NoOverride == [set |-> FALSE, bytes |-> 0]

CacheOverride(options, key) ==
  LET i == SelectLastInSeq(options, LAMBDA o : normalizeOpt(o.key) = key /\ o.arg = "int")
  IN IF i = 0 THEN NoOverride ELSE [set |-> TRUE, bytes |-> mibToBytes(options[i].mb)]

OverridesParse(options) ==
  \A o \in ToSet(options) : normalizeOpt(o.key) \in {statCacheKey, fileCacheKey} => o.arg # "text"

-----------------------------------------------------------------------------
BytesPerObject(r) == IF r.hns THEN metadataStatCacheBytesPerObjectHNS
                              ELSE metadataStatCacheBytesPerObjectFlat

buildCacheRequirements(r) ==
  [stat |-> maxInt64(int64(r.numObjects * BytesPerObject(r)),
                     mibToBytes(minMetadataStatCacheMBSize)),
   file |-> IF r.zonal THEN 0 ELSE r.totalSizeBytes]

\* No limit means the whole node; the product is truncated.
calculateFuseResourceBudget(allocatable, factor, limit) ==
  ((IF limit > 0 /\ limit < allocatable THEN limit ELSE allocatable) * factor[1]) \div factor[2]

MemoryBudget(r)    == calculateFuseResourceBudget(r.memory, r.memoryFactor, r.memoryLimit)
EphemeralBudget(r) == calculateFuseResourceBudget(r.disk, r.diskFactor, r.diskLimit)

StatCacheNotCharged(required, budget, override) ==
  [bytes |-> IF override.set THEN override.bytes ELSE minInt64(required, budget),
   left  |-> budget]

\* An unlimited stat cache is charged with its estimated size.
recommendMetadataStatCacheSize(required, budget, override) ==
  LET bytes == IF override.set THEN override.bytes ELSE minInt64(required, budget)
  IN [bytes |-> bytes,
      left  |-> maxInt64(0, int64(budget - (IF override.set /\ bytes = -1 THEN required ELSE bytes)))]

\* Where the required bytes fit, for one medium of the priority list.  On a
\* TPU node a local SSD stands for RAM.
Place(r, medium) == IF medium = "lssd" /\ r.nodeType = "tpu" THEN "ram" ELSE medium

Fits(r, medium, required, memoryBudget) ==
  \/ Place(r, medium) = "ram" /\ required <= memoryBudget
  \/ Place(r, medium) = "lssd" /\ r.localSSD /\ required <= EphemeralBudget(r)

FirstMedium(r, required, memoryBudget) ==
  LET i == SelectInSeq(r.priority, LAMBDA m : \/ m \notin {"ram", "lssd"}
                                              \/ Fits(r, m, required, memoryBudget))
  IN CASE i = 0 -> [bytes |-> 0, medium |-> "", err |-> FALSE]
       [] i # 0 /\ r.priority[i] \in {"ram", "lssd"} ->
            [bytes |-> required, medium |-> Place(r, r.priority[i]), err |-> FALSE]
       [] OTHER -> [bytes |-> 0, medium |-> "", err |-> TRUE]

recommendFileCacheSizeAndMedium(r, required, override, memoryBudget) ==
  CASE override.set -> [bytes |-> override.bytes, medium |-> "", err |-> FALSE]
    [] ~override.set /\ r.customCache -> [bytes |-> -1, medium |-> "", err |-> FALSE]
    [] ~override.set /\ ~r.customCache /\ ~r.hasPriority ->
         [bytes |-> 0, medium |-> "", err |-> TRUE]
    [] ~override.set /\ ~r.customCache /\ r.hasPriority /\ required = 0 ->
         [bytes |-> 0, medium |-> "", err |-> FALSE]
    [] OTHER -> FirstMedium(r, required, memoryBudget)

recommendCacheConfigs(r, options) ==
  LET required == buildCacheRequirements(r)
      stat == recommendMetadataStatCacheSize(required.stat, MemoryBudget(r),
                                             CacheOverride(options, statCacheKey))
      file == recommendFileCacheSizeAndMedium(r, required.file,
                                              CacheOverride(options, fileCacheKey), stat.left)
  IN [stat |-> stat.bytes, file |-> file.bytes, medium |-> file.medium,
      err |-> ~OverridesParse(options) \/ file.err]

\* The two sizes come from a map, in any order; the medium follows them.
CacheOptions(rec) ==
  LET size(key, bytes) == [key |-> <<key, "lower">>, arg |-> "int", mb |-> bytesToMiB(bytes)]
      stat   == size(statCacheKey, rec.stat)
      file   == size(fileCacheKey, rec.file)
      medium == IF rec.file # 0 /\ rec.medium # ""
                THEN <<[key |-> <<mediumKey, "lower">>, arg |-> rec.medium, mb |-> 0]>>
                ELSE <<>>
  IN {<<stat, file>> \o medium, <<file, stat>> \o medium}

-----------------------------------------------------------------------------
Return(c) == pc' = "done" /\ code' = c

\* BuildProfileConfig finds no profile: no PV, no StorageClass or one that is
\* not a profile.  The volume is mounted with the options of the user.
NotAProfile ==
  /\ pc = "build"
  /\ pc' = "parseOnly"
  /\ UNCHANGED <<request, code, vc, opts>>

\* A lookup of BuildProfileConfig fails, or what it finds does not parse.
BuildFails ==
  /\ pc = "build"
  /\ \E c \in {"Internal", "InvalidArgument", "NotFound"} : Return(c)
  /\ UNCHANGED <<request, vc, opts>>

BuildProfileConfig ==
  /\ pc = "build"
  /\ pc' = "parse"
  /\ vc' \in mergeMapsOnMissingKeys(vc, request.parameters)
  /\ UNCHANGED <<request, code, opts>>

\* An attribute that is not a quantity, a bool or an integer is refused.
ParseRequestArguments ==
  /\ pc \in {"parse", "parseOnly"}
  /\ \/ Return("InvalidArgument") /\ UNCHANGED opts
     \/ /\ opts' = joinMountOptions(parseVolumeAttributes(request.options, vc))
        /\ IF pc = "parse" THEN pc' = "merge" /\ UNCHANGED code ELSE Return("disabled")
  /\ UNCHANGED <<request, vc>>

MergeRecommendedMountOptionsOnMissingKeys ==
  /\ pc = "merge"
  /\ LET valid  == AllValid(opts) /\ AllValid(request.classOptions)
         merged == mergeMountOptionsOnMissingKeys(opts, request.classOptions)
         rec    == recommendCacheConfigs(request, merged)
     IN \/ /\ ~valid
           /\ Return("InvalidArgument") /\ UNCHANGED opts
        \/ /\ valid /\ rec.err
           /\ Return("Unknown") /\ UNCHANGED opts
        \/ /\ valid /\ ~rec.err
           /\ Return("OK")
           /\ \E cache \in CacheOptions(rec) :
                opts' = mergeMountOptionsOnMissingKeys(merged, cache)
  /\ UNCHANGED <<request, vc>>

Next ==
  \/ NotAProfile \/ BuildFails \/ BuildProfileConfig
  \/ ParseRequestArguments \/ MergeRecommendedMountOptionsOnMissingKeys

Spec == Init /\ [][Next]_vars

-----------------------------------------------------------------------------
\* What the user gave, and what the recommender gets: the parameters of the
\* StorageClass for attributes that the user did not spell are among it.
UserGiven   == parseVolumeAttributes(request.options, request.attributes)
Given       == parseVolumeAttributes(request.options, vc)
Recommended == SubSeq(opts, Cardinality(Given) + 1, Len(opts))
Done        == pc = "done" /\ code = "OK"

\* The size gcsfuse gets for a cache, in MiB.
Passed(key) ==
  opts[SelectLastInSeq(opts, LAMBDA o : normalizeOpt(o.key) = key /\ o.arg = "int")].mb

Medium == {o.arg : o \in {p \in ToSet(Recommended) : p.key[1] = mediumKey}}

\* Every cache size of the user and the StorageClass has a value that gcsfuse
\* accepts and that fits an int64 as bytes.
SaneSizes ==
  \A o \in Given \cup ToSet(request.classOptions) :
    normalizeOpt(o.key) \in {statCacheKey, fileCacheKey} =>
      o.arg = "int" /\ o.mb >= -1 /\ o.mb * mib < 2 ^ (Width - 1)

-----------------------------------------------------------------------------
\* The caches that recommendCacheConfigs chooses stay within the share of the
\* container's memory and ephemeral storage that belongs to gcsfuse, but for
\* the rounding to whole MiB: the stat cache alone, a file cache in RAM
\* together with the stat cache (as the user set it, or its estimated size
\* when it is unlimited), and a file cache on a local SSD, which the node has.
\* A size is -1 (unlimited) or not negative, even if the number of objects times
\* the size of an entry overflows in buildCacheRequirements.
CachesFitBudgets ==
  Done =>
    /\ \A o \in ToSet(Recommended) \ ToSet(request.classOptions) : o.arg = "int" => o.mb >= -1
    /\ SaneSizes =>
       LET stat == IF Passed(statCacheKey) = -1 THEN buildCacheRequirements(request).stat
                                                ELSE Passed(statCacheKey) * mib
           file == Passed(fileCacheKey) * mib
       IN /\ statCacheKey \notin Keys(joinMountOptions(Given)) \cup Keys(request.classOptions)
               => stat < MemoryBudget(request) + mib
          /\ "ram" \in Medium => stat + file < MemoryBudget(request) + 2 * mib
          /\ "lssd" \in Medium => /\ request.localSSD /\ request.nodeType # "tpu"
                                  /\ file < EphemeralBudget(request) + mib

\* What the user asked for survives both merges, MergeVolumeAttributesOn...
\* and MergeRecommendedMountOptionsOnMissingKeys: every option and attribute of
\* the user is passed on, and nothing is added for a key the user set under
\* either of its two names and in any case, with one exception: the merge of the
\* attributes does not look at mount options, so a parameter of the StorageClass
\* that the user set as an option only is passed next to it.  The recommender adds
\* nothing twice, and both cache sizes are always passed, to override gcsfuse's
\* own profile.
UserOptionsWin ==
  LET ClassParameter(o) ==
        \E k \in DOMAIN request.parameters :
          /\ ToLower(k) \notin {ToLower(j) : j \in DOMAIN request.attributes}
          /\ o = AttributeOption(k[1], request.parameters[k])
  IN  Done =>
        /\ UserGiven \subseteq ToSet(opts)
        /\ \A o \in ToSet(opts) \ UserGiven :
             normalizeOpt(o.key) \in {normalizeOpt(u.key) : u \in UserGiven} => ClassParameter(o)
        /\ \A i, j \in DOMAIN Recommended :
             normalizeOpt(Recommended[i].key) = normalizeOpt(Recommended[j].key) => i = j
        /\ {statCacheKey, fileCacheKey} \subseteq Keys(opts)
=============================================================================
