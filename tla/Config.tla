-------------------------------- MODULE Config -------------------------------
(***************************************************************************)
(* The loading of a client's configuration in the four SDKs (config.rs,    *)
(* config.go, config.py, config.ts).  An application makes a client with   *)
(* each of them, with the same options in the same environment.  What is   *)
(* wrong with rejected options is left out: every error is of kind config. *)
(***************************************************************************)
EXTENDS Integers, Sequences

CONSTANTS ByName,       \* the names an application gives to regions, sorted
          Default,      \* DEFAULT_REGION
          Options,      \* what an application may give
          Environments, \* what the environment may hold
          None,         \* not given, or not set
          Empty,        \* the empty string
          Rejected      \* RustboxError::Config and its like

Sdks == {"rust", "go", "python", "typescript"}

VARIABLES options, env, config

vars == <<options, env, config>>

(* A URL is a record of whether it starts with http:// or https://, its      *)
(* trailing slashes, and the rest.                                          *)
Url(u) == IF u.http THEN [u EXCEPT !.slashes = 0] ELSE Rejected

Regions == [name \in DOMAIN options.regions |-> Url(options.regions[name])]

KnownRegion(name) == IF name \in DOMAIN Regions THEN Regions[name] ELSE Rejected

FirstByName(regions) ==
  regions[ByName[CHOOSE i \in DOMAIN ByName :
    /\ ByName[i] \in DOMAIN regions
    /\ \A j \in 1 .. i - 1 : ByName[j] \notin DOMAIN regions]]

InvalidRegions == \E name \in DOMAIN Regions : Regions[name] = Rejected

(* The client is made, with the endpoint it is pinned to, if any, and the    *)
(* region it falls back to when no probe answers, if that is known.         *)
Load(sdk, rejects, pinned, fallback) ==
  /\ config[sdk] = None
  /\ config' = [config EXCEPT ![sdk] =
       IF rejects \/ pinned = Rejected THEN Rejected
       ELSE [pinned |-> pinned, regions |-> Regions, fallback |-> fallback]]
  /\ UNCHANGED <<options, env>>
-----------------------------------------------------------------------------
(* Rust.  The types leave no negative retries or timeout.                   *)
NonEmpty(value) == IF value = Empty THEN None ELSE value

RustPinned ==
  IF options.baseUrl # None THEN Url(options.baseUrl)
  ELSE IF NonEmpty(env.baseUrl) # None THEN Url(NonEmpty(env.baseUrl))
  ELSE IF options.region # None THEN KnownRegion(options.region)
  ELSE IF NonEmpty(env.region) # None THEN KnownRegion(NonEmpty(env.region))
  ELSE None

(* Mutant: the fallback is taken from the options as they were given.       *)
RustFallbackUnchecked ==
  IF Default \in DOMAIN options.regions THEN options.regions[Default]
  ELSE FirstByName(options.regions)

RustFallback == IF Default \in DOMAIN Regions THEN Regions[Default] ELSE FirstByName(Regions)

LoadRust ==
  /\ options.retries >= 0 /\ options.timeout >= 0
  /\ Load("rust",
          ~options.apiKey \/ options.timeout = 0 \/ InvalidRegions \/ DOMAIN Regions = {},
          RustPinned, RustFallback)
-----------------------------------------------------------------------------
(* Go.                                                                      *)
IsSet(value) == value \notin {None, Empty}

(* Mutant: both variables of the environment come before the region.        *)
GoPinnedByEnv ==
  IF options.baseUrl # None THEN Url(options.baseUrl)
  ELSE IF IsSet(env.baseUrl) THEN Url(env.baseUrl)
  ELSE IF IsSet(env.region) THEN KnownRegion(env.region)
  ELSE IF options.region # None THEN KnownRegion(options.region)
  ELSE None

GoPinned ==
  IF options.baseUrl # None THEN Url(options.baseUrl)
  ELSE IF IsSet(env.baseUrl) THEN Url(env.baseUrl)
  ELSE IF options.region # None THEN KnownRegion(options.region)
  ELSE IF IsSet(env.region) THEN KnownRegion(env.region)
  ELSE None

GoFallback == IF Default \in DOMAIN Regions THEN Regions[Default] ELSE FirstByName(Regions)

LoadGo ==
  Load("go",
       \/ ~options.apiKey \/ options.retries < 0 \/ options.timeout <= 0
       \/ InvalidRegions
       \/ DOMAIN Regions = {},
       GoPinned, GoFallback)
-----------------------------------------------------------------------------
(* Python.  The region to fall back to is looked up when it is needed, as in *)
(* TypeScript.  Mutant: an empty region is none.                            *)
PyPinnedIfNonEmpty ==
  LET chosen == IF IsSet(options.region) THEN options.region ELSE env.region
  IN  IF options.baseUrl # None THEN Url(options.baseUrl)
      ELSE IF IsSet(env.baseUrl) THEN Url(env.baseUrl)
      ELSE IF ~IsSet(chosen) THEN None
      ELSE KnownRegion(chosen)

PyPinned ==
  LET chosen == IF options.region # None THEN options.region ELSE env.region
  IN  IF options.baseUrl # None THEN Url(options.baseUrl)
      ELSE IF IsSet(env.baseUrl) THEN Url(env.baseUrl)
      ELSE IF options.region = None /\ ~IsSet(chosen) THEN None
      ELSE KnownRegion(chosen)

DefaultRegion == IF Default \in DOMAIN Regions THEN Regions[Default] ELSE None

LoadPy ==
  Load("python",
       \/ ~options.apiKey \/ options.retries < 0 \/ options.timeout <= 0
       \/ DOMAIN Regions = {}
       \/ InvalidRegions,
       PyPinned, DefaultRegion)
-----------------------------------------------------------------------------
(* TypeScript.  processEnv takes an empty variable for one that is not set.  *)
ProcessEnv(value) == IF value = Empty THEN None ELSE value

RegionUrl(name) == IF name \in DOMAIN Regions THEN Regions[name] ELSE None

TsKnownRegion(name) == IF RegionUrl(name) = None THEN Rejected ELSE RegionUrl(name)

TsPinned ==
  IF options.baseUrl # None THEN Url(options.baseUrl)
  ELSE IF ProcessEnv(env.baseUrl) # None THEN Url(ProcessEnv(env.baseUrl))
  ELSE IF options.region # None THEN TsKnownRegion(options.region)
  ELSE IF ProcessEnv(env.region) = None THEN None
  ELSE TsKnownRegion(ProcessEnv(env.region))

LoadTs ==
  Load("typescript",
       \/ ~options.apiKey \/ options.retries < 0 \/ ~(options.timeout > 0)
       \/ InvalidRegions
       \/ DOMAIN Regions = {},
       TsPinned, RegionUrl(Default))
-----------------------------------------------------------------------------
Init ==
  /\ options \in Options
  /\ env \in Environments
  /\ config = [sdk \in Sdks |-> None]

Next == LoadRust \/ LoadGo \/ LoadPy \/ LoadTs

Spec == Init /\ [][Next]_vars
-----------------------------------------------------------------------------
Loaded(sdk) == config[sdk] \notin {None, Rejected}

(* "The SDKs resolve the endpoint in this order: an explicit base URL,       *)
(* RUSTBOX_BASE_URL, an explicit region, RUSTBOX_REGION, then automatic     *)
(* selection" (README.md:83), and what comes later in the order does not    *)
(* matter, valid or not.                                                    *)
ResolvedInOrder ==
  \A sdk \in {s \in Sdks : Loaded(s)} :
    LET pinned == config[sdk].pinned
        regions == config[sdk].regions
        IsRegion(name) == name \in DOMAIN regions /\ pinned = regions[name]
    IN  IF options.baseUrl # None THEN pinned = Url(options.baseUrl)
        ELSE IF IsSet(env.baseUrl) THEN pinned = Url(env.baseUrl)
        ELSE IF options.region # None THEN IsRegion(options.region)
        ELSE IF IsSet(env.region) THEN IsRegion(env.region)
        ELSE pinned = None

(* "Behaviour every SDK shares" (README.md:72): the SDKs accept the same     *)
(* options in the same environments, and make the same of them.             *)
SdksAgree ==
  \A s, t \in {sdk \in Sdks : config[sdk] # None} :
    /\ Loaded(s) <=> Loaded(t)
    /\ Loaded(s) => config[s].pinned = config[t].pinned /\ config[s].regions = config[t].regions

(* A client that selects falls back to a base of its table, as it was        *)
(* checked, and to the default region if it has one.                        *)
FallsBackToARegion ==
  \A sdk \in {s \in Sdks : Loaded(s)} :
    LET fallback == config[sdk].fallback
        regions == config[sdk].regions
    IN  /\ fallback = None \/ \E name \in DOMAIN regions : fallback = regions[name]
        /\ Default \in DOMAIN regions => fallback = regions[Default]
=============================================================================
