-------------------------------- MODULE CertInit --------------------------------
(*******************************************************************************)
(* How the key server comes by its own certificate (cmd/gokeyless): key, CSR   *)
(* and certificate are three files, written one after the other by whichever   *)
(* run finds them unusable.  A run may end between any two steps, by a crash,  *)
(* an error of the file system or of the certificate API.  The daemon and a    *)
(* run of the command line (--config-only or --manual-activation) may overlap, *)
(* and after --manual-activation the operator has the CSR signed and installs  *)
(* the certificate by hand.                                                    *)
(*******************************************************************************)
EXTENDS Integers, FiniteSets

CONSTANTS
    None,           \* no such file, nothing
    Torn,           \* a file that was emptied or only partly written
    Gen,            \* key pairs; also the CSR and the certificate of a pair
    MaxFaults,      \* the number of runs that end too early (a bound)
    MaxRuns         \* the number of runs of the command line (a bound)

Proc == {"daemon", "cli"}
File == {"key", "csr", "cert"}
Mode == {"daemon", "config", "manual"}

(* More pairs than anything can refer to at a time.                            *)
ASSUME CertInitAssumption ==
    /\ IsFiniteSet(Gen) /\ Cardinality(Gen) >= 7
    /\ None \notin Gen /\ Torn \notin Gen /\ None # Torn
    /\ MaxFaults \in Nat /\ MaxRuns \in Nat

VARIABLES
    configured,     \* hostname, zone and API key are in the configuration
    disk,           \* the three files
    expired,        \* the certificate on disk has expired
    pc, mode,       \* of each run
    held,           \* the pair that the run has generated
    told,           \* the operator was told to have the CSR of this pair signed
    pending,        \* the pair whose certificate the operator has been given
    alone,          \* history: runs that nobody interfered with since their check
    disturbed,      \* history: somebody interfered since the operator was told
    faults, runs

env == <<configured, faults, runs>>
operator == <<told, pending>>
vars == <<disk, expired, pc, mode, held, told, pending, alone, disturbed, env>>

(* A run that will write, or is writing, the files.                            *)
Writing == {"key", "keyData", "csr", "csrData", "api", "remove", "cert", "certData"}

TypeOK ==
    /\ configured \in BOOLEAN /\ disturbed \in BOOLEAN /\ expired \in BOOLEAN
    /\ disk \in [File -> Gen \cup {None, Torn}]
    /\ alone \subseteq Proc
    /\ pc \in [Proc -> {"off", "check", "load", "serving"} \cup Writing]
    /\ mode \in [Proc -> Mode]
    /\ held \in [Proc -> Gen \cup {None}]
    /\ told \in Gen \cup {None} /\ pending \in Gen \cup {None}
    /\ faults \in 0 .. MaxFaults /\ runs \in 0 .. MaxRuns

Init ==
    /\ configured \in BOOLEAN
    /\ disk = [f \in File |-> None]
    /\ expired = FALSE /\ alone = {} /\ disturbed = FALSE
    /\ pc = [p \in Proc |-> "off"]
    /\ mode = [p \in Proc |-> "daemon"]
    /\ held = [p \in Proc |-> None]
    /\ told = None /\ pending = None
    /\ faults = 0 /\ runs = 0

(* A pair that is not in use: stands for a newly generated one.                *)
InUse == {disk[f] : f \in File} \cup {held[p] : p \in Proc} \cup {told, pending}
Fresh == CHOOSE g \in Gen : g \notin InUse

Goto(p, l) == pc' = [pc EXCEPT ![p] = l]
--------------------------------------------------------------------------------
(* tls.LoadX509KeyPair: both files can be read and belong together.            *)
Loadable == disk["cert"] \in Gen /\ disk["cert"] = disk["key"]

(* validCertExpiry: the clock is within the dates of the certificate.          *)
validCertExpiry == ~expired

(* Mutant of needNewCertAndKey: it is enough that the files can be parsed.     *)
needNewIfUnreadable ==
    ~(disk["cert"] \in Gen /\ disk["key"] \in Gen /\ validCertExpiry)

(* Mutant of needNewCertAndKey: the CSR must be there, too.                    *)
needNewWithoutCSR == ~(Loadable /\ validCertExpiry /\ disk["csr"] = disk["key"])

needNewCertAndKey == ~(Loadable /\ validCertExpiry)

(* Mutant of verifyCSRAndKey: whether they belong together is not checked.     *)
verifyReadable == disk["csr"] \in Gen /\ disk["key"] \in Gen

verifyCSRAndKey == disk["csr"] \in Gen /\ disk["key"] = disk["csr"]
--------------------------------------------------------------------------------
Start(p, m) ==
    /\ pc[p] = "off"
    /\ p = "daemon" <=> m = "daemon"
    /\ p = "cli" => runs < MaxRuns
    /\ runs' = IF p = "cli" THEN runs + 1 ELSE runs
    /\ mode' = [mode EXCEPT ![p] = m]
    /\ Goto(p, "check")
    /\ UNCHANGED <<disk, expired, held, operator, alone, disturbed, configured, faults>>

(* The run ends, or goes on to load the pair that it has found.                *)
Found(p, l) ==
    /\ Goto(p, l)
    /\ alone' = alone \ {p}
    /\ UNCHANGED <<disk, expired, mode, held, operator, disturbed, env>>

(* generateCSR.                                                                *)
generateCSR(p) ==
    /\ Goto(p, "key")
    /\ held' = [held EXCEPT ![p] = Fresh]
    /\ alone' = IF \E q \in Proc \ {p} : pc[q] \in Writing THEN {} ELSE {p}
    /\ disturbed' = (told # None /\ (disturbed \/ mode[p] # "manual"))
    /\ UNCHANGED <<disk, expired, mode, operator, env>>

(* main, up to initializeServerCertAndKey: the daemon does not ask for what is *)
(* missing in the configuration, --config-only does.                           *)
CheckCert(p) ==
    /\ pc[p] = "check" /\ mode[p] # "manual"
    /\ \/ ~needNewCertAndKey /\ Found(p, IF mode[p] = "daemon" THEN "load" ELSE "off")
       \/ needNewCertAndKey /\ mode[p] = "daemon" /\ ~configured /\ Found(p, "off")
       \/ needNewCertAndKey /\ (mode[p] = "config" \/ configured) /\ generateCSR(p)

(* The operator is told where to find the CSR.                                 *)
Tell(p, undisturbed) ==
    /\ Goto(p, "off")
    /\ told' = disk'["csr"]
    /\ disturbed' = ~undisturbed
    /\ held' = [held EXCEPT ![p] = None]
    /\ alone' = alone \ {p}

(* main with --manual-activation, up to manualActivation.                      *)
CheckCSR(p) ==
    /\ pc[p] = "check" /\ mode[p] = "manual"
    /\ \/ /\ verifyCSRAndKey
          /\ UNCHANGED disk
          /\ Tell(p, \A q \in Proc \ {p} : pc[q] \notin Writing)
          /\ UNCHANGED <<expired, mode, pending, env>>
       \/ ~verifyCSRAndKey /\ generateCSR(p)
--------------------------------------------------------------------------------
(* Mutant of Truncate: a key that is there is not overwritten.                 *)
TruncateNoKey(p, f) ==
    /\ pc[p] = f
    /\ disk' = IF f = "key" /\ disk[f] \in Gen THEN disk ELSE [disk EXCEPT ![f] = Torn]
    /\ Goto(p, CASE f = "key" -> IF disk[f] \in Gen THEN "csr" ELSE "keyData"
                 [] f = "csr" -> "csrData"
                 [] OTHER -> "certData")
    /\ UNCHANGED <<expired, mode, held, operator, alone, disturbed, env>>

(* ioutil.WriteFile empties the file, then writes it.                          *)
Truncate(p, f) ==
    /\ pc[p] = f
    /\ disk' = [disk EXCEPT ![f] = Torn]
    /\ Goto(p, CASE f = "key" -> "keyData" [] f = "csr" -> "csrData" [] OTHER -> "certData")
    /\ UNCHANGED <<expired, mode, held, operator, alone, disturbed, env>>

WriteKey(p) ==
    /\ pc[p] = "keyData"
    /\ disk' = [disk EXCEPT !["key"] = held[p]]
    /\ Goto(p, "csr")
    /\ UNCHANGED <<expired, mode, held, operator, alone, disturbed, env>>

(* The last step of manualActivation; initializeServerCertAndKey goes on.      *)
WriteCSR(p) ==
    /\ pc[p] = "csrData"
    /\ disk' = [disk EXCEPT !["csr"] = held[p]]
    /\ IF mode[p] = "manual"
       THEN Tell(p, p \in alone) /\ UNCHANGED <<expired, mode, pending, env>>
       ELSE /\ Goto(p, "api")
            /\ UNCHANGED <<expired, mode, held, operator, alone, disturbed, env>>

(* initAPICall: the API signs the CSR that was sent.                           *)
initAPICall(p) ==
    /\ pc[p] = "api"
    /\ Goto(p, "remove")
    /\ UNCHANGED <<disk, expired, mode, held, operator, alone, disturbed, env>>

RemoveCert(p) ==
    /\ pc[p] = "remove"
    /\ disk' = [disk EXCEPT !["cert"] = None] /\ expired' = FALSE
    /\ Goto(p, "cert")
    /\ UNCHANGED <<mode, held, operator, alone, disturbed, env>>

WriteCert(p) ==
    /\ pc[p] = "certData"
    /\ disk' = [disk EXCEPT !["cert"] = held[p]] /\ expired' = FALSE
    /\ Goto(p, IF mode[p] = "daemon" THEN "load" ELSE "off")
    /\ held' = IF mode[p] = "daemon" THEN held ELSE [held EXCEPT ![p] = None]
    /\ UNCHANGED <<mode, operator, alone, disturbed, env>>

(* server.NewServerFromFile and what follows it in main.                       *)
Load(p) ==
    /\ pc[p] = "load"
    /\ Goto(p, IF Loadable THEN "serving" ELSE "off")
    /\ held' = [held EXCEPT ![p] = None]
    /\ alone' = alone \ {p}
    /\ UNCHANGED <<disk, expired, mode, operator, disturbed, env>>

(* A crash, or log.Fatal after any of the calls above.                         *)
Fail(p) ==
    /\ pc[p] # "off" /\ faults < MaxFaults
    /\ faults' = faults + 1
    /\ Goto(p, "off")
    /\ held' = [held EXCEPT ![p] = None]
    /\ alone' = alone \ {p}
    /\ UNCHANGED <<disk, expired, mode, operator, disturbed, configured, runs>>
--------------------------------------------------------------------------------
(* The operator and the clock                                                  *)
Submit ==
    /\ told # None /\ pending = None /\ disk["csr"] \in Gen
    /\ pending' = disk["csr"]
    /\ UNCHANGED <<disk, expired, pc, mode, held, told, alone, disturbed, env>>

Install ==
    /\ pending # None
    /\ disk' = [disk EXCEPT !["cert"] = pending] /\ expired' = FALSE
    /\ pending' = None /\ told' = None
    /\ alone' = {} /\ disturbed' = FALSE
    /\ UNCHANGED <<pc, mode, held, env>>

Expire ==
    /\ disk["cert"] \in Gen /\ ~expired
    /\ expired' = TRUE
    /\ UNCHANGED <<disk, pc, mode, held, operator, alone, disturbed, env>>

Step(p) ==
    \/ CheckCert(p) \/ CheckCSR(p)
    \/ \E f \in File : Truncate(p, f)
    \/ WriteKey(p) \/ WriteCSR(p) \/ initAPICall(p) \/ RemoveCert(p) \/ WriteCert(p)
    \/ Load(p)

Next ==
    \/ \E p \in Proc, m \in Mode : Start(p, m)
    \/ \E p \in Proc : Step(p) \/ Fail(p)
    \/ Submit \/ Install \/ Expire

Spec == Init /\ [][Next]_vars

(* A run that has been started goes on until it ends, or until it waits for    *)
(* the API: the http.Client of initAPICall has no timeout.  Nothing is assumed *)
(* of the operator, and nobody need start anything.                            *)
FairSpec == Spec /\ \A p \in Proc : WF_vars(pc[p] # "api" /\ Step(p))
--------------------------------------------------------------------------------
(* Once --manual-activation has told the operator to have the CSR signed, the  *)
(* key it belongs to stays in place, whatever happened before that and however *)
(* often --manual-activation or an unconfigured daemon is started after it.    *)
ManualPairFits ==
    told # None /\ ~disturbed => disk["key"] = told /\ disk["csr"] = told

(* A run that has generated a pair with nobody interfering finds it on disk    *)
(* when NewServerFromFile loads it, whatever earlier runs have left there.     *)
InitGivesUsablePair ==
    \A p \in Proc :
        pc[p] = "load" /\ p \in alone => Loadable /\ disk["key"] = held[p]

(* A pair that the server could start with is not given up: only manual        *)
(* activation, or two runs at once, overwrite one that has not expired.        *)
GoodPairKept ==
    [][\A p \in alone :
          Loadable /\ validCertExpiry /\ mode[p] # "manual" /\ pc'[p] # pc[p]
            => Loadable']_vars

(* One start is enough: when nothing fails any more and the command line is    *)
(* not used, a configured daemon gets to serve in the run that is starting,    *)
(* whatever crashes have left on disk, provided that the API answers it        *)
(* (initAPICall would wait forever).                                           *)
OneStartIsEnough ==
    WF_vars(initAPICall("daemon")) =>
        (configured /\ pc["daemon"] = "check" /\ faults = MaxFaults
            /\ pc["cli"] = "off" /\ runs = MaxRuns /\ pending = None /\ told = None
            ~> pc["daemon"] = "serving")
================================================================================
