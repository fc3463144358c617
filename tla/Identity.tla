---------------------------- MODULE Identity ----------------------------
(***************************************************************************)
(* The host's identity: four files that belong together, and the processes *)
(* that read, write and remove them.                                       *)
(*                                                                         *)
(* muxdeckd is one binary: a daemon, a command line (`pair ...`, `service  *)
(* ...`) that is a process of its own, and `--reset-identity`.  Each but   *)
(* the reset begins with Engine::load, which loads the identity or, when   *)
(* any of the four files is missing, generates a new one.  Nothing locks   *)
(* the files against another process, and a process may die at any step.   *)
(*                                                                         *)
(* The content of a file is the number of the generation that wrote it.    *)
(***************************************************************************)
EXTENDS Naturals, Sequences

CONSTANTS Procs,        \* processes of muxdeckd, one command after the other
          Decks,        \* devices that may be paired
          Missing,      \* no such file
          Torn,         \* a file that was created and not (fully) written
          MaxGen,       \* bound: identities ever generated
          MaxResets     \* bound: resets ever begun

ASSUME IdentityAssumption ==
    /\ MaxGen \in Nat /\ MaxResets \in Nat
    /\ Missing \notin Nat /\ Torn \notin Nat /\ Missing # Torn

Pieces == {"key", "cert", "tlskey", "token"}

\* The orders of load_or_generate's checks, of load's reads, of generate's
\* secrets (the certificate comes last) and of the reset.
LoadOrder_NoToken  == <<"key", "cert", "tlskey">>
WriteOrder_NoToken == <<"key", "tlskey">>

CheckOrder == <<"key", "cert", "tlskey", "token">>
LoadOrder  == <<"key", "cert", "tlskey", "token">>
WriteOrder == <<"key", "tlskey", "token">>
ResetOrder == <<"key", "cert", "tlskey", "token", "devices">>

Commands == {"daemon", "pair", "reset"}
NoIdentity == [f \in Pieces |-> Missing]

VARIABLES
    disk,       \* what each of the four files holds
    tmp,        \* what each temporary file holds: one name per file
    devices,    \* devices.json: the paired decks
    cmd,        \* what each process was started to do
    pc, at,     \* where it is, and at which file
    mem,        \* the identity a process holds
    reg,        \* the registry a process holds
    gen,        \* the generation a process writes
    gens,       \* generations so far
    era, eras,  \* the resets begun before a process started; so far
    promised,   \* history: pairings that were answered, and to which identity
    overlapped, \* history: two processes were at the files at once
    cut         \* history: a reset has taken the key from under a certificate

vars == <<disk, tmp, devices, cmd, pc, at, mem, reg, gen, gens, era, eras,
          promised, overlapped, cut>>

files == <<disk, tmp, devices>>
local == <<mem, reg, gen>>
global == <<gens, eras, promised, overlapped, cut>>

Busy(p) == pc[p] \in {"check", "read", "write", "fill tmp", "install", "create", "fill", "reset"}
Loaded(p) == pc[p] \in {"registry", "bind", "tls", "serving", "connect"}
Serving(p) == pc[p] = "serving"

Init ==
    /\ disk = NoIdentity /\ tmp = NoIdentity /\ devices = {}
    /\ cmd = [p \in Procs |-> "daemon"]
    /\ pc = [p \in Procs |-> "idle"] /\ at = [p \in Procs |-> 1]
    /\ mem = [p \in Procs |-> NoIdentity] /\ reg = [p \in Procs |-> {}]
    /\ gen = [p \in Procs |-> 0] /\ gens = 0
    /\ era = [p \in Procs |-> 0] /\ eras = 0
    /\ promised = {} /\ overlapped = FALSE /\ cut = FALSE

Goto(p, l, i) ==
    /\ pc' = [pc EXCEPT ![p] = l] /\ at' = [at EXCEPT ![p] = i]
    /\ UNCHANGED <<cmd, era>>

\* A process ends, and what it held in memory with it.
End(p) ==
    /\ pc' = [pc EXCEPT ![p] = "idle"] /\ at' = [at EXCEPT ![p] = 1]
    /\ cmd' = [cmd EXCEPT ![p] = "daemon"] /\ era' = [era EXCEPT ![p] = 0]
    /\ mem' = [mem EXCEPT ![p] = NoIdentity] /\ reg' = [reg EXCEPT ![p] = {}]
    /\ gen' = [gen EXCEPT ![p] = 0]

-----------------------------------------------------------------------------
\* main: the reset touches nothing but the files; everything else loads.
Start(p, c) ==
    /\ pc[p] = "idle"
    /\ c = "reset" => eras < MaxResets
    /\ pc' = [pc EXCEPT ![p] = IF c = "reset" THEN "reset" ELSE "check"]
    /\ cmd' = [cmd EXCEPT ![p] = c]
    /\ eras' = IF c = "reset" THEN eras + 1 ELSE eras
    /\ era' = [era EXCEPT ![p] = eras']
    /\ promised' = IF c = "reset" THEN {} ELSE promised
    /\ overlapped' = \/ overlapped
                     \/ \E q \in Procs : Busy(q)
                     \/ c = "daemon" /\ \E q \in Procs : Loaded(q) /\ cmd[q] = "daemon"
    /\ UNCHANGED <<files, local, at, gens, cut>>

\* load_or_generate: `exists() && exists() && ...`, one file after the other.
Check(p) ==
    /\ pc[p] = "check"
    /\ IF disk[CheckOrder[at[p]]] = Missing
       THEN /\ gens < MaxGen
            /\ gens' = gens + 1 /\ gen' = [gen EXCEPT ![p] = gens']
            /\ Goto(p, "write", 1)
       ELSE /\ IF at[p] < Len(CheckOrder)
               THEN Goto(p, "check", at[p] + 1) ELSE Goto(p, "read", 1)
            /\ UNCHANGED <<gen, gens>>
    /\ UNCHANGED <<files, mem, reg, eras, promised, overlapped, cut>>

\* Identity::load: a file that is gone again ends the process.
Read(p) ==
    /\ pc[p] = "read"
    /\ LET f == LoadOrder[at[p]] IN
       \/ disk[f] = Missing /\ End(p)
       \/ /\ disk[f] # Missing
          /\ mem' = [mem EXCEPT ![p][f] = disk[f]]
          /\ IF at[p] < Len(LoadOrder)
             THEN Goto(p, "read", at[p] + 1) ELSE Goto(p, "registry", 1)
          /\ UNCHANGED <<reg, gen>>
    /\ UNCHANGED <<files, global>>

WriteTmp_InPlace(p) ==
    /\ pc[p] = "write"
    /\ disk' = [disk EXCEPT ![WriteOrder[at[p]]] = Torn]
    /\ Goto(p, "fill tmp", at[p])
    /\ UNCHANGED <<tmp, devices, local, global>>

\* write_secret: the temporary file, created or truncated, and filled; then its
\* permissions and the rename, either of which may fail: the first leaves no
\* readable copy behind.
WriteTmp(p) ==
    /\ pc[p] = "write"
    /\ tmp' = [tmp EXCEPT ![WriteOrder[at[p]]] = Torn]
    /\ Goto(p, "fill tmp", at[p])
    /\ UNCHANGED <<disk, devices, local, global>>

\* Where another process has renamed the file meanwhile, what is filled is that.
FillTmp(p) ==
    /\ pc[p] = "fill tmp"
    /\ LET f == WriteOrder[at[p]] IN
       IF tmp[f] # Missing
       THEN tmp' = [tmp EXCEPT ![f] = gen[p]] /\ UNCHANGED disk
       ELSE disk' = [disk EXCEPT ![f] = IF @ = Missing THEN Missing ELSE gen[p]] /\ UNCHANGED tmp
    /\ Goto(p, "install", at[p])
    /\ UNCHANGED <<devices, local, global>>

Install(p) ==
    /\ pc[p] = "install"
    /\ LET f == WriteOrder[at[p]] IN
       /\ tmp' = [tmp EXCEPT ![f] = Missing]
       /\ \/ disk' = disk /\ End(p)     \* refused, or renamed away by another
          \/ /\ tmp[f] # Missing
             /\ disk' = [disk EXCEPT ![f] = tmp[f]]
             /\ IF at[p] < Len(WriteOrder)
                THEN Goto(p, "write", at[p] + 1) ELSE Goto(p, "create", 1)
             /\ UNCHANGED local
    /\ UNCHANGED <<devices, global>>

\* The certificate is written in place, last: fs::write creates or truncates
\* the file, and then fills it.
CreateCert(p) ==
    /\ pc[p] = "create"
    /\ disk' = [disk EXCEPT !["cert"] = Torn]
    /\ cut' = FALSE
    /\ Goto(p, "fill", 1)
    /\ UNCHANGED <<tmp, devices, local, gens, eras, promised, overlapped>>

FillCert(p) ==
    /\ pc[p] = "fill"
    /\ disk' = [disk EXCEPT !["cert"] = gen[p]]
    /\ mem' = [mem EXCEPT ![p] = [f \in Pieces |-> gen[p]]]
    /\ Goto(p, "registry", 1)
    /\ UNCHANGED <<tmp, devices, reg, gen, global>>

\* The rest of Engine::load reads what belongs to other modules; the registry
\* is what an identity is kept for.
LoadRegistry(p) ==
    /\ pc[p] = "registry"
    /\ reg' = [reg EXCEPT ![p] = devices]
    /\ Goto(p, IF cmd[p] = "daemon" THEN "bind" ELSE "connect", 1)
    /\ UNCHANGED <<files, mem, gen, global>>

-----------------------------------------------------------------------------
\* server::serve: the port first, which one process can have, then rustls,
\* which refuses a certificate that is not one or is not of this private key.
Bind(p) ==
    /\ pc[p] = "bind"
    /\ IF \E q \in Procs : pc[q] \in {"tls", "serving"}
       THEN End(p) ELSE Goto(p, "tls", 1) /\ UNCHANGED local
    /\ UNCHANGED <<files, global>>

Serve(p) ==
    /\ pc[p] = "tls"
    /\ IF mem[p]["cert"] = mem[p]["tlskey"]
       THEN Goto(p, "serving", 1) /\ UNCHANGED local ELSE End(p)
    /\ UNCHANGED <<files, global>>

Pair_MemoryOnly(p, d) ==
    /\ Serving(p)
    /\ d \notin reg[p]
    /\ reg' = [reg EXCEPT ![p] = @ \cup {d}]
    /\ promised' = IF era[p] = eras
                   THEN promised \cup {[deck |-> d, pin |-> mem[p]["cert"], host |-> mem[p]["key"]]}
                   ELSE promised
    /\ UNCHANGED <<files, cmd, pc, at, mem, gen, gens, era, eras, overlapped, cut>>

\* A deck pairs: it pins the certificate, and remembers the host by its key.
Pair(p, d) ==
    /\ Serving(p)
    /\ d \notin reg[p]
    /\ reg' = [reg EXCEPT ![p] = @ \cup {d}]
    /\ devices' = reg'[p]
    /\ promised' = IF era[p] = eras
                   THEN promised \cup {[deck |-> d, pin |-> mem[p]["cert"], host |-> mem[p]["key"]]}
                   ELSE promised
    /\ UNCHANGED <<disk, tmp, cmd, pc, at, mem, gen, gens, era, eras, overlapped, cut>>

\* A process of the command line gets through to a daemon when the daemon
\* shows the certificate and accepts the token that are in the files.
Reaches(p, q) ==
    /\ Serving(q)
    /\ mem[p]["cert"] = mem[q]["cert"]
    /\ mem[p]["token"] = mem[q]["token"]

\* run_pair: begin, list and revoke over an admin connection.
Revoke(p, q, d) ==
    /\ pc[p] = "connect" /\ Reaches(p, q)
    /\ d \in reg[q]
    /\ reg' = [reg EXCEPT ![q] = @ \ {d}]
    /\ devices' = reg'[q]
    /\ promised' = {r \in promised : r.deck # d}
    /\ UNCHANGED <<disk, tmp, cmd, pc, at, mem, gen, gens, era, eras, overlapped, cut>>

\* reset_identity: the files one after the other; one that is missing is fine.
Remove(p) ==
    /\ pc[p] = "reset"
    /\ LET f == ResetOrder[at[p]] IN
       /\ disk' = [g \in Pieces |-> IF g = f THEN Missing ELSE disk[g]]
       /\ devices' = IF f = "devices" THEN {} ELSE devices
       /\ cut' = \/ cut /\ f # "cert"
                 \/ f = "key" /\ disk["cert"] # Missing
    /\ IF at[p] < Len(ResetOrder)
       THEN Goto(p, "reset", at[p] + 1) /\ UNCHANGED local ELSE End(p)
    /\ UNCHANGED <<tmp, gens, eras, promised, overlapped>>

\* A step that fails ends the process where it is; so does a kill, a crash, the
\* end of a command and, for a daemon, Ctrl-C.
Stop(p) ==
    /\ pc[p] # "idle"
    /\ End(p)
    /\ UNCHANGED <<files, global>>

Step(p) ==
    \/ \E c \in Commands : Start(p, c)
    \/ Check(p) \/ Read(p)
    \/ WriteTmp(p) \/ FillTmp(p) \/ Install(p) \/ CreateCert(p) \/ FillCert(p)
    \/ LoadRegistry(p) \/ Bind(p) \/ Serve(p)
    \/ \E d \in Decks : Pair(p, d) \/ \E q \in Procs : Revoke(p, q, d)
    \/ Remove(p) \/ Stop(p)

Next == \E p \in Procs : Step(p)

Spec == Init /\ [][Next]_vars

-----------------------------------------------------------------------------
Content == 0 .. MaxGen \cup {Missing, Torn}

Locations == {"idle", "check", "read", "write", "fill tmp", "install", "create", "fill",
              "registry", "bind", "tls", "serving", "connect", "reset"}
Steps(l) == IF l \in {"check", "read"} THEN 1 .. 4
            ELSE IF l \in {"write", "fill tmp", "install"} THEN 1 .. 3
            ELSE IF l = "reset" THEN 1 .. 5 ELSE {1}

FileTypes ==
    /\ disk \in [Pieces -> Content] /\ tmp \in [Pieces -> Content]
    /\ devices \in SUBSET Decks
PlaceTypes ==
    /\ cmd \in [Procs -> Commands] /\ era \in [Procs -> 0 .. MaxResets]
    /\ pc \in [Procs -> Locations] /\ at \in [Procs -> 1 .. 5]
    /\ \A p \in Procs : at[p] \in Steps(pc[p])
HeldTypes ==
    /\ mem \in [Procs -> [Pieces -> Content]]
    /\ reg \in [Procs -> SUBSET Decks]
    /\ gen \in [Procs -> 0 .. MaxGen]
GlobalTypes ==
    /\ gens \in 0 .. MaxGen /\ eras \in 0 .. MaxResets
    /\ promised \in SUBSET [deck : Decks, pin : Content, host : Content]
    /\ overlapped \in BOOLEAN /\ cut \in BOOLEAN

Types == FileTypes /\ PlaceTypes /\ HeldTypes /\ GlobalTypes

\* Type invariant: every file holds a generation, or nothing, or a torn write;
\* a secret is torn only where two processes write it at once.  Of identity.rs
\* and secret_file.rs.
TypeOK ==
    /\ Types
    /\ ~overlapped => \A f \in Pieces : (f # "cert") => disk[f] # Torn

HaveAll == \A f \in Pieces : disk[f] # Missing

\* The certificate is written last, and so it commits the set: where there is
\* one, the key, its private key and the token are there and of one generation,
\* wherever processes die.  The reset, which takes the key first, is the
\* exception as long as its certificate stands.  Of Identity::generate.
CertificateCommits ==
    ~overlapped /\ ~cut /\ disk["cert"] # Missing
      => /\ disk["key"] # Missing
         /\ disk["tlskey"] = disk["key"] /\ disk["token"] = disk["key"]
         /\ disk["cert"] \in {disk["key"], Torn}

\* Processes that loaded since the last reset hold the same identity: the
\* command line pins the certificate the daemon shows and has its token, and a
\* daemon that is started again is the same host.  Of Identity::load_or_generate.
OneIdentity ==
    ~overlapped => \A p, q \in Procs :
        Loaded(p) /\ Loaded(q) /\ era[p] = eras /\ era[q] = eras => mem[p] = mem[q]

\* A deck whose pairing was answered finds the host it pinned, and is known to
\* it, in every daemon since, unless it is revoked or the identity is reset.
\* Of identity.rs:38, "regenerating unpairs every device".
PairedStaysPaired ==
    ~overlapped => \A p \in Procs : \A r \in promised :
        Serving(p) /\ era[p] = eras
          => /\ mem[p]["cert"] = r.pin /\ mem[p]["key"] = r.host
             /\ r.deck \in reg[p]

\* "Generation is all-or-nothing in practice" (identity.rs:36): when nobody is
\* at the files, either one is missing and the next start begins anew, or the
\* four make one identity.
AllOrNothing ==
    (\A p \in Procs : ~Busy(p)) /\ HaveAll
      => \A f \in Pieces : disk[f] = disk["key"]
=============================================================================
