------------------------------ MODULE Startup ------------------------------
(***************************************************************************)
(* The files a start of obcrawler finds and leaves behind: LoadConfig      *)
(* (repo/config.go:102-276, 313-344) creates a default configuration and   *)
(* a TLS pair where they are missing, and NewCrawler (crawler/crawler.go:  *)
(* 58-152, crawler/rpc.go:28-71) loads the pair.  Each of these writes may *)
(* fail or be cut short by the end of the process.                         *)
(***************************************************************************)

VARIABLES
  phase,     \* how far the start has come; "down" without a process
  conf,      \* the configuration file
  cert,      \* rpc.cert
  key,       \* rpc.key
  cut        \* history: the files left behind by a write that was cut short, or
             \* that could not be removed

files == <<conf, cert, key, cut>>

\* A file a write was cut short in.  A configuration cut at the end of a line is
\* read like any other, one cut in a bootstrapaddr line is not.
TornConf == {"short", "garbled"}
Loading == {"config", "parse", "pair", "certificate", "key", "build"}

FilesTypeOK ==
  /\ phase \in {"down", "up", "stopping"} \cup Loading
  /\ conf \in {"none", "whole"} \cup TornConf
  /\ cert \in {"none", "torn", "whole"}
  /\ key \in {"none", "torn", "whole"}
  /\ cut \subseteq {"conf", "pair"}

FilesInit ==
  /\ phase = "down"
  /\ conf = "none"
  /\ cert = "none"
  /\ key = "none"
  /\ cut = {}

Cut(name, really) == IF really THEN {name} ELSE {}

\* log.Fatal in main.
Fatal == phase' = "down"

-----------------------------------------------------------------------------
Launch ==
  /\ phase = "down"
  /\ phase' = "config"
  /\ UNCHANGED files

FindConfig ==
  /\ phase = "config"
  /\ conf # "none"
  /\ phase' = "parse"
  /\ UNCHANGED files

\* createDefaultConfigFile.  When the file cannot be opened, or a line cannot be
\* written, the error is printed and the start goes on.
CreateConfig ==
  /\ phase = "config"
  /\ conf = "none"
  /\ conf' \in {"none", "whole"} \cup TornConf
  /\ cut' = cut \cup Cut("conf", conf' \in TornConf)
  /\ phase' = "parse"
  /\ UNCHANGED <<cert, key>>

\* A file that is not there is only a warning.
ParseConfig ==
  /\ phase = "parse"
  /\ conf # "garbled"
  /\ phase' = "pair"
  /\ UNCHANGED files

\* Help was asked for, the file cannot be parsed, or a later step of LoadConfig
\* fails: an option is out of range, localhost cannot be looked up, no pair can be
\* generated.
LoadConfigFails ==
  /\ phase \in {"config", "parse", "pair"}
  /\ Fatal
  /\ UNCHANGED files

\* genCertPair is called only if neither file exists.
GeneratePair ==
  /\ phase = "pair"
  /\ phase' = IF key = "none" /\ cert = "none" THEN "certificate" ELSE "build"
  /\ UNCHANGED files

WriteCert ==
  /\ phase = "certificate"
  /\ cert' = "whole"
  /\ phase' = "key"
  /\ UNCHANGED <<conf, key, cut>>

\* WriteFile creates the file and then writes it.
WriteCertFails ==
  /\ phase = "certificate"
  /\ cert' \in {"none", "torn"}
  /\ cut' = cut \cup Cut("pair", cert' # "none")
  /\ Fatal
  /\ UNCHANGED <<conf, key>>

WriteKey ==
  /\ phase = "key"
  /\ key' = "whole"
  /\ phase' = "build"
  /\ UNCHANGED <<conf, cert, cut>>

WriteKeyFailsKeepingCert ==
  /\ phase = "key"
  /\ key' \in {"none", "torn"}
  /\ cut' = cut \cup Cut("pair", key' # "none")
  /\ Fatal
  /\ UNCHANGED <<conf, cert>>

\* The certificate is removed again, if os.Remove succeeds; a key that was created
\* is not.
WriteKeyFails ==
  /\ phase = "key"
  /\ key' \in {"none", "torn"}
  /\ \/ cert' = "none" /\ cut' = cut \cup Cut("pair", key' # "none")
     \/ cert' = cert /\ cut' = cut \cup {"pair"}
  /\ Fatal
  /\ UNCHANGED conf

\* NewCrawler returns an error: newGrpcServer cannot load the pair, or a node,
\* the database or the file limit fails.
NewCrawlerFails ==
  /\ phase = "build"
  /\ Fatal
  /\ UNCHANGED files

NewCrawlerSucceeds ==
  /\ phase = "build"
  /\ cert = "whole"
  /\ key = "whole"

\* The process ends while it loads: a file it is writing may be cut short.
KilledWhileLoading ==
  /\ phase \in Loading
  /\ conf' \in IF phase = "config" /\ conf = "none" THEN {"none", "whole"} \cup TornConf ELSE {conf}
  /\ cert' \in IF phase = "certificate" THEN {"none", "torn", "whole"} ELSE {cert}
  /\ key' \in IF phase = "key" THEN {"none", "torn", "whole"} ELSE {key}
  /\ cut' = cut \cup Cut("conf", conf' # conf /\ conf' \in TornConf)
                \cup Cut("pair", \/ phase = "certificate" /\ cert' # "none"
                                 \/ phase = "key" /\ key' # "whole")
  /\ phase' = "down"

\* The operator deletes the files that keep the crawler from starting.
Repair ==
  /\ phase = "down"
  /\ conf' = "none"
  /\ cert' = "none"
  /\ key' = "none"
  /\ cut' = {}
  /\ UNCHANGED phase

\* What a start does until it has a crawler, and what can go wrong.
LoadStep ==
  \/ Launch \/ FindConfig \/ CreateConfig \/ ParseConfig \/ LoadConfigFails
  \/ GeneratePair \/ WriteCert \/ WriteCertFails \/ WriteKey \/ WriteKeyFails
  \/ NewCrawlerFails \/ KilledWhileLoading \/ Repair

-----------------------------------------------------------------------------
\* The pair is there as a whole or not at all, and the configuration is complete
\* or missing, unless a write was cut short, or the certificate could not be
\* removed, since the files were last deleted: every other failure of a start
\* cleans up after itself, and the next start can succeed.  A pair that was cut
\* short is never regenerated (config.go:203-208, 323-330).
FilesSound ==
  phase \notin {"certificate", "key"} =>
    /\ "pair" \notin cut => cert = key /\ cert # "torn"
    /\ "conf" \notin cut => conf \notin TornConf
=============================================================================
