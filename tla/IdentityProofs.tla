--------------------------- MODULE IdentityProofs ---------------------------
(***************************************************************************)
(* Proofs about module Identity, for any number of processes, generations  *)
(* and resets: wherever processes die, as long as two are not at the files *)
(* at once, the certificate commits its set, and every process that loads  *)
(* holds the identity the decks have pinned.                               *)
(***************************************************************************)
EXTENDS Identity, TLAPS

\* Between the first secret and the certificate.
Writing(p) == pc[p] \in {"write", "fill tmp", "install", "create", "fill"}
AtSecrets(p) == pc[p] \in {"write", "fill tmp", "install"}
Daemon(p) == pc[p] # "idle" /\ cmd[p] = "daemon"
Up(p) == pc[p] \in {"bind", "tls", "serving"}

\* Nobody holds the identity that is in the files, and no deck was promised it.
Nobody == promised = {} /\ \A q \in Procs : Loaded(q) => era[q] < eras

-----------------------------------------------------------------------------
(* The inductive invariant, in parts: what holds always, ...               *)

Roles == \A p \in Procs :
    /\ Up(p) => cmd[p] = "daemon"
    /\ era[p] <= eras

(* ... and as long as no two processes have been at the files at once.     *)

Alone == \A p, q \in Procs :
    \/ Busy(p) /\ Busy(q)
    \/ Daemon(p) /\ Daemon(q)
    => p = q

\* What a reset has removed so far.
Resetting(p) == pc[p] = "reset" =>
    /\ Nobody
    /\ at[p] = 2 => disk["cert"] = Missing \/ cut
    /\ at[p] >= 3 => disk["cert"] = Missing

\* What a generation has written so far.
Generating(p) == Writing(p) =>
    /\ Nobody
    /\ pc[p] # "fill" => disk["cert"] = Missing \/ cut
    /\ AtSecrets(p) => /\ at[p] >= 2 => disk["key"] = gen[p]
                       /\ at[p] >= 3 => disk["tlskey"] = gen[p]
    /\ pc[p] = "fill tmp" => tmp[WriteOrder[at[p]]] = Torn
    /\ pc[p] = "install" => tmp[WriteOrder[at[p]]] = gen[p]
    /\ pc[p] \in {"create", "fill"} =>
         disk["key"] = gen[p] /\ disk["tlskey"] = gen[p] /\ disk["token"] = gen[p]

\* What a load has read so far.
Reading(p) == pc[p] = "read" => \A j \in 1 .. 4 : j < at[p] =>
    /\ mem[p][LoadOrder[j]] = disk[LoadOrder[j]]
    /\ disk[LoadOrder[j]] # Missing

\* Who has loaded since the last reset holds what is in the files.
Holding(p) == Loaded(p) /\ era[p] = eras =>
    /\ mem[p] = disk /\ HaveAll
    /\ Up(p) => reg[p] = devices

\* Where a process is with the files is where they are.
Local(p) == Resetting(p) /\ Generating(p) /\ Reading(p) /\ Holding(p)

\* What decks were promised is in the files.
Promising ==
    /\ \A r \in promised : /\ r.pin = disk["cert"] /\ r.host = disk["key"]
                           /\ r.deck \in devices
    /\ promised # {} => HaveAll /\ \A p \in Procs : Daemon(p) => era[p] = eras

Whole == \A f \in Pieces : (f # "cert") => disk[f] # Torn

Commits == ~cut /\ disk["cert"] # Missing
    => /\ disk["key"] # Missing
       /\ disk["tlskey"] = disk["key"] /\ disk["token"] = disk["key"]
       /\ disk["cert"] \in {disk["key"], Torn}

InOrder == Alone /\ (\A p \in Procs : Local(p)) /\ Promising /\ Whole /\ Commits

IInv == Types /\ Roles /\ (~overlapped => InOrder)

-----------------------------------------------------------------------------
(* Types.                                                                  *)

\* The orders in which files are looked for, read, written and removed.
LEMMA Orders ==
  /\ Len(CheckOrder) = 4 /\ Len(LoadOrder) = 4 /\ Len(WriteOrder) = 3 /\ Len(ResetOrder) = 5
  /\ \A i \in 1 .. 4 : CheckOrder[i] \in Pieces /\ LoadOrder[i] \in Pieces
  /\ LoadOrder[1] = "key" /\ LoadOrder[2] = "cert" /\ LoadOrder[3] = "tlskey" /\ LoadOrder[4] = "token"
  /\ WriteOrder[1] = "key" /\ WriteOrder[2] = "tlskey" /\ WriteOrder[3] = "token"
  /\ ResetOrder[1] = "key" /\ ResetOrder[2] = "cert" /\ ResetOrder[3] = "tlskey"
  /\ ResetOrder[4] = "token" /\ ResetOrder[5] = "devices"
BY DEF CheckOrder, LoadOrder, WriteOrder, ResetOrder, Pieces

\* What a file may hold is a generation, or one of two marks that are not.
LEMMA Marks == Missing # Torn /\ \A n \in 0 .. MaxGen : n # Missing /\ n # Torn
BY IdentityAssumption

\* A process that ends or goes on keeps the types.
LEMMA EndTypes ==
  ASSUME PlaceTypes, HeldTypes, NEW p \in Procs, End(p)
  PROVE  PlaceTypes' /\ HeldTypes'
<1>1. cmd' \in [Procs -> Commands] /\ pc' \in [Procs -> Locations]
  BY DEF PlaceTypes, End, Commands, Locations
<1>6. era' \in [Procs -> 0 .. MaxResets]
  <2>1. 0 \in 0 .. MaxResets
    BY IdentityAssumption
  <2> QED
    BY <2>1 DEF PlaceTypes, End
<1>2. at' \in [Procs -> 1 .. 5] /\ at'[p] = 1 /\ pc'[p] = "idle"
  BY DEF PlaceTypes, End
<1>3. \A q \in Procs : at'[q] \in Steps(pc'[q])
  <2>1. 1 \in Steps("idle")
    BY DEF Steps
  <2>2. \A q \in Procs \ {p} : at'[q] = at[q] /\ pc'[q] = pc[q]
    BY DEF PlaceTypes, End
  <2> QED
    BY <1>2, <2>1, <2>2 DEF PlaceTypes
<1>4. mem' \in [Procs -> [Pieces -> Content]]
  BY DEF HeldTypes, End, NoIdentity, Content
<1>5. reg' \in [Procs -> SUBSET Decks] /\ gen' \in [Procs -> 0 .. MaxGen]
  BY IdentityAssumption DEF HeldTypes, End
<1> QED
  BY <1>1, <1>2, <1>3, <1>4, <1>5, <1>6 DEF PlaceTypes, HeldTypes

LEMMA GotoTypes ==
  ASSUME PlaceTypes, NEW p \in Procs, NEW l \in Locations, NEW i \in Steps(l), i \in 1 .. 5,
         Goto(p, l, i)
  PROVE  PlaceTypes'
<1>1. /\ cmd' \in [Procs -> Commands] /\ era' \in [Procs -> 0 .. MaxResets]
      /\ pc' \in [Procs -> Locations]
  BY DEF PlaceTypes, Goto
<1>2. at' \in [Procs -> 1 .. 5] /\ at'[p] = i /\ pc'[p] = l
  BY DEF PlaceTypes, Goto
<1>3. \A q \in Procs \ {p} : at'[q] = at[q] /\ pc'[q] = pc[q]
  BY DEF PlaceTypes, Goto
<1> QED
  BY <1>1, <1>2, <1>3 DEF PlaceTypes

\* What goes wrong or is over keeps the types, whatever the files are.
LEMMA InitTypes == Init => Types
<1> SUFFICES ASSUME Init PROVE Types
  OBVIOUS
<1>0. 0 \in 0 .. MaxGen /\ 0 \in 0 .. MaxResets
  BY IdentityAssumption
<1>1. FileTypes
  BY DEF Init, FileTypes, NoIdentity, Content
<1>2. PlaceTypes
  BY <1>0 DEF Init, PlaceTypes, Commands, Locations, Steps
<1>3. HeldTypes
  BY <1>0 DEF Init, HeldTypes, NoIdentity, Content
<1>4. GlobalTypes
  BY <1>0 DEF Init, GlobalTypes
<1> QED
  BY <1>1, <1>2, <1>3, <1>4 DEF Types

\* A step that leaves the files, or what processes hold, or the rest alone.
LEMMA SameTypes ==
  /\ FileTypes /\ UNCHANGED files => FileTypes'
  /\ HeldTypes /\ UNCHANGED local => HeldTypes'
  /\ GlobalTypes /\ UNCHANGED global => GlobalTypes'
BY DEF FileTypes, HeldTypes, GlobalTypes, files, local, global

\* What a process writes is a generation, and what a file holds it may hold.
LEMMA Contents ==
  ASSUME HeldTypes, FileTypes, NEW p \in Procs
  PROVE  /\ gen[p] \in Content /\ Torn \in Content /\ Missing \in Content
         /\ \A f \in Pieces : disk[f] \in Content /\ tmp[f] \in Content
BY DEF HeldTypes, FileTypes, Content

LEMMA NextTypes == Types /\ [Next]_vars => Types'
<1> SUFFICES ASSUME FileTypes, PlaceTypes, HeldTypes, GlobalTypes, [Next]_vars PROVE Types'
  BY DEF Types
<1> USE DEF Types
<1>1. ASSUME NEW p \in Procs, NEW c \in Commands, Start(p, c) PROVE Types'
  <2>1. eras' \in 0 .. MaxResets
    BY <1>1, IdentityAssumption DEF Start, GlobalTypes
  <2>2. PlaceTypes'
    <3>1. cmd' \in [Procs -> Commands] /\ era' \in [Procs -> 0 .. MaxResets]
      BY <1>1, <2>1 DEF Start, PlaceTypes
    <3>2. pc' \in [Procs -> Locations] /\ at' = at
      BY <1>1 DEF Start, PlaceTypes, Locations, local
    <3>3. at[p] = 1 /\ 1 \in Steps(pc'[p])
      <4>1. pc[p] = "idle" /\ at[p] \in Steps(pc[p]) /\ pc'[p] \in {"check", "reset"}
        BY <1>1 DEF Start, PlaceTypes
      <4>2. Steps("idle") = {1} /\ 1 \in Steps("check") /\ 1 \in Steps("reset")
        BY DEF Steps
      <4> QED
        BY <4>1, <4>2
    <3>4. \A q \in Procs \ {p} : pc'[q] = pc[q]
      BY <1>1 DEF Start, PlaceTypes
    <3> QED
      BY <3>1, <3>2, <3>3, <3>4 DEF PlaceTypes
  <2>3. gens' \in 0 .. MaxGen /\ cut' \in BOOLEAN
    BY <1>1 DEF Start, GlobalTypes
  <2>4. promised' \in SUBSET [deck : Decks, pin : Content, host : Content]
    BY <1>1 DEF Start, GlobalTypes
  <2>5. overlapped' \in BOOLEAN
    <3> DEFINE o == overlapped \/ (\E q \in Procs : Busy(q))
                      \/ (c = "daemon" /\ \E q \in Procs : Loaded(q) /\ cmd[q] = "daemon")
    <3>1. o = TRUE \/ o = FALSE
      OBVIOUS
    <3>2. overlapped' = o
      BY <1>1, Zenon DEF Start
    <3> HIDE DEF o
    <3> QED
      BY <3>1, <3>2
  <2>6. FileTypes' /\ HeldTypes'
    BY <1>1, SameTypes DEF Start
  <2> QED
    BY <2>1, <2>2, <2>3, <2>4, <2>5, <2>6 DEF GlobalTypes
<1>2. ASSUME NEW p \in Procs, Check(p) PROVE Types'
  <2>1. /\ FileTypes'
        /\ mem' = mem /\ reg' = reg
        /\ UNCHANGED <<eras, promised, overlapped, cut>>
    BY <1>2, SameTypes DEF Check
  <2>2. gens' \in 0 .. MaxGen /\ gen' \in [Procs -> 0 .. MaxGen]
    BY <1>2, IdentityAssumption DEF Check, GlobalTypes, HeldTypes
  <2>3. PlaceTypes'
    <3>1. at[p] \in 1 .. 4
      BY <1>2 DEF Check, PlaceTypes, Steps
    <3>2. /\ 1 \in Steps("write") /\ 1 \in Steps("read") /\ 1 \in 1 .. 5
          /\ at[p] < 4 => at[p] + 1 \in Steps("check") /\ at[p] + 1 \in 1 .. 5
      BY <3>1 DEF Steps
    <3>3. \/ Goto(p, "write", 1)
          \/ at[p] < 4 /\ Goto(p, "check", at[p] + 1)
          \/ Goto(p, "read", 1)
      BY <1>2, Orders DEF Check
    <3> QED
      BY <3>2, <3>3, GotoTypes DEF Locations
  <2> QED
    BY <2>1, <2>2, <2>3 DEF HeldTypes, GlobalTypes
<1>3. ASSUME NEW p \in Procs, Read(p) PROVE Types'
  <2>1. FileTypes' /\ GlobalTypes'
    BY <1>3, SameTypes DEF Read
  <2>2. CASE End(p)
    BY <2>1, <2>2, EndTypes
  <2>3. CASE ~End(p)
    <3> DEFINE f == LoadOrder[at[p]]
    <3>1. at[p] \in 1 .. 4
      BY <1>3 DEF Read, PlaceTypes, Steps
    <3>2. f \in Pieces /\ disk[f] \in Content
      BY <3>1, Orders, Contents
    <3>3. mem' = [mem EXCEPT ![p][f] = disk[f]] /\ UNCHANGED <<reg, gen>>
      BY <1>3, <2>3 DEF Read
    <3>4. HeldTypes'
      BY <3>2, <3>3 DEF HeldTypes
    <3>5. (at[p] < 4 /\ Goto(p, "read", at[p] + 1)) \/ Goto(p, "registry", 1)
      BY <1>3, <2>3, Orders DEF Read
    <3>6. /\ 1 \in Steps("registry") /\ 1 \in 1 .. 5
          /\ at[p] < 4 => at[p] + 1 \in Steps("read") /\ at[p] + 1 \in 1 .. 5
      BY <3>1 DEF Steps
    <3>7. PlaceTypes'
      BY <3>5, <3>6, GotoTypes DEF Locations
    <3> QED
      BY <2>1, <3>4, <3>7
  <2> QED
    BY <2>2, <2>3
<1>4. ASSUME NEW p \in Procs, WriteTmp(p) PROVE Types'
  <2>1. HeldTypes' /\ GlobalTypes'
    BY <1>4, SameTypes DEF WriteTmp
  <2>2. FileTypes'
    BY <1>4, Contents DEF WriteTmp, FileTypes
  <2>3. at[p] \in Steps("fill tmp") /\ at[p] \in 1 .. 5
    BY <1>4 DEF WriteTmp, PlaceTypes, Steps
  <2>4. PlaceTypes'
    BY <1>4, <2>3, GotoTypes DEF WriteTmp, Locations
  <2> QED
    BY <2>1, <2>2, <2>4
<1>5. ASSUME NEW p \in Procs, FillTmp(p) PROVE Types'
  <2>1. HeldTypes' /\ GlobalTypes'
    BY <1>5, SameTypes DEF FillTmp
  <2>2. FileTypes'
    BY <1>5, Contents DEF FillTmp, FileTypes
  <2>3. at[p] \in Steps("install") /\ at[p] \in 1 .. 5
    BY <1>5 DEF FillTmp, PlaceTypes, Steps
  <2>4. PlaceTypes'
    BY <1>5, <2>3, GotoTypes DEF FillTmp, Locations
  <2> QED
    BY <2>1, <2>2, <2>4
<1>6. ASSUME NEW p \in Procs, Install(p) PROVE Types'
  <2>1. GlobalTypes'
    BY <1>6, SameTypes DEF Install
  <2>2. at[p] \in 1 .. 3
    BY <1>6 DEF Install, PlaceTypes, Steps
  <2>3. FileTypes'
    BY <1>6, <2>2, Orders, Contents DEF Install, FileTypes, Pieces
  <2>4. CASE End(p)
    BY <2>1, <2>3, <2>4, EndTypes
  <2>5. CASE ~End(p)
    <3>1. HeldTypes'
      BY <1>6, <2>5, SameTypes DEF Install
    <3>2. (at[p] < 3 /\ Goto(p, "write", at[p] + 1)) \/ Goto(p, "create", 1)
      BY <1>6, <2>5, Orders DEF Install
    <3>3. /\ 1 \in Steps("create") /\ 1 \in 1 .. 5
          /\ at[p] < 3 => at[p] + 1 \in Steps("write") /\ at[p] + 1 \in 1 .. 5
      BY <2>2 DEF Steps
    <3>4. PlaceTypes'
      BY <3>2, <3>3, GotoTypes DEF Locations
    <3> QED
      BY <2>1, <2>3, <3>1, <3>4
  <2> QED
    BY <2>4, <2>5
<1>7. ASSUME NEW p \in Procs, CreateCert(p) PROVE Types'
  <2>1. HeldTypes' /\ GlobalTypes'
    BY <1>7, SameTypes DEF CreateCert, GlobalTypes
  <2>2. FileTypes'
    BY <1>7, Contents DEF CreateCert, FileTypes
  <2>3. 1 \in Steps("fill") /\ 1 \in 1 .. 5
    BY DEF Steps
  <2>4. PlaceTypes'
    BY <1>7, <2>3, GotoTypes DEF CreateCert, Locations
  <2> QED
    BY <2>1, <2>2, <2>4
<1>8. ASSUME NEW p \in Procs, FillCert(p) PROVE Types'
  <2>1. GlobalTypes'
    BY <1>8, SameTypes DEF FillCert
  <2>2. FileTypes'
    BY <1>8, Contents DEF FillCert, FileTypes
  <2>3. HeldTypes'
    BY <1>8, Contents DEF FillCert, HeldTypes
  <2>4. 1 \in Steps("registry") /\ 1 \in 1 .. 5
    BY DEF Steps
  <2>5. PlaceTypes'
    BY <1>8, <2>4, GotoTypes DEF FillCert, Locations
  <2> QED
    BY <2>1, <2>2, <2>3, <2>5
<1>9. ASSUME NEW p \in Procs, LoadRegistry(p) PROVE Types'
  <2>1. FileTypes' /\ GlobalTypes'
    BY <1>9, SameTypes DEF LoadRegistry
  <2>2. HeldTypes'
    BY <1>9 DEF LoadRegistry, HeldTypes, FileTypes
  <2>3. 1 \in Steps("bind") /\ 1 \in Steps("connect") /\ 1 \in 1 .. 5
    BY DEF Steps
  <2>4. PlaceTypes'
    BY <1>9, <2>3, GotoTypes DEF LoadRegistry, Locations
  <2> QED
    BY <2>1, <2>2, <2>4
<1>10. ASSUME NEW p \in Procs, Bind(p) \/ Serve(p) PROVE Types'
  <2>1. FileTypes' /\ GlobalTypes'
    BY <1>10, SameTypes DEF Bind, Serve
  <2>2. \/ End(p)
        \/ UNCHANGED local /\ (Goto(p, "tls", 1) \/ Goto(p, "serving", 1))
    BY <1>10 DEF Bind, Serve
  <2>3. 1 \in Steps("tls") /\ 1 \in Steps("serving") /\ 1 \in 1 .. 5
    BY DEF Steps
  <2>4. PlaceTypes' /\ HeldTypes'
    BY <2>2, <2>3, EndTypes, GotoTypes, SameTypes DEF Locations
  <2> QED
    BY <2>1, <2>4
<1>11. ASSUME NEW p \in Procs, NEW d \in Decks, Pair(p, d) PROVE Types'
  <2>1. PlaceTypes'
    BY <1>11 DEF Pair, PlaceTypes
  <2>2. HeldTypes' /\ FileTypes'
    BY <1>11 DEF Pair, HeldTypes, FileTypes
  <2>3. mem[p]["cert"] \in Content /\ mem[p]["key"] \in Content
    BY DEF HeldTypes, Pieces
  <2>4. promised' \in SUBSET [deck : Decks, pin : Content, host : Content]
    BY <1>11, <2>3 DEF Pair, GlobalTypes
  <2>5. UNCHANGED <<gens, eras, overlapped, cut>>
    BY <1>11 DEF Pair
  <2> QED
    BY <2>1, <2>2, <2>4, <2>5 DEF GlobalTypes
<1>12. ASSUME NEW p \in Procs, NEW q \in Procs, NEW d \in Decks, Revoke(p, q, d) PROVE Types'
  <2>1. PlaceTypes'
    BY <1>12 DEF Revoke, PlaceTypes
  <2>2. HeldTypes' /\ FileTypes'
    BY <1>12 DEF Revoke, HeldTypes, FileTypes
  <2>3. promised' \in SUBSET [deck : Decks, pin : Content, host : Content]
    BY <1>12 DEF Revoke, GlobalTypes
  <2>4. UNCHANGED <<gens, eras, overlapped, cut>>
    BY <1>12 DEF Revoke
  <2> QED
    BY <2>1, <2>2, <2>3, <2>4 DEF GlobalTypes
<1>13. ASSUME NEW p \in Procs, Remove(p) PROVE Types'
  <2>1. FileTypes'
    BY <1>13, Contents DEF Remove, FileTypes
  <2>2. cut' \in BOOLEAN
    <3> DEFINE f == ResetOrder[at[p]]
               c == (cut /\ f # "cert") \/ (f = "key" /\ disk["cert"] # Missing)
    <3>1. c = TRUE \/ c = FALSE
      OBVIOUS
    <3>2. cut' = c
      BY <1>13, Zenon DEF Remove
    <3> HIDE DEF c
    <3> QED
      BY <3>1, <3>2
  <2>3. UNCHANGED <<gens, eras, promised, overlapped>>
    BY <1>13 DEF Remove
  <2>4. GlobalTypes'
    BY <2>2, <2>3 DEF GlobalTypes
  <2>5. End(p) \/ (at[p] < 5 /\ UNCHANGED local /\ Goto(p, "reset", at[p] + 1))
    BY <1>13, Orders DEF Remove
  <2>6. at[p] < 5 => at[p] + 1 \in Steps("reset") /\ at[p] + 1 \in 1 .. 5
    <3>1. at[p] \in 1 .. 5
      BY DEF PlaceTypes
    <3> QED
      BY <3>1 DEF Steps
  <2>7. PlaceTypes' /\ HeldTypes'
    BY <2>5, <2>6, EndTypes, GotoTypes, SameTypes DEF Locations
  <2> QED
    BY <2>1, <2>4, <2>7
<1>14. ASSUME NEW p \in Procs, Stop(p) PROVE Types'
  BY <1>14, EndTypes, SameTypes DEF Stop
<1>15. CASE UNCHANGED vars
  BY <1>15, SameTypes DEF PlaceTypes, vars, files, local, global
<1> QED
  BY <1>1, <1>2, <1>3, <1>4, <1>5, <1>6, <1>7, <1>8, <1>9, <1>10, <1>11, <1>12, <1>13, <1>14,
     <1>15 DEF Next, Step

-----------------------------------------------------------------------------
(* What a step of one process leaves alone.                                *)

PlaceOthers(p) == \A q \in Procs \ {p} :
    cmd'[q] = cmd[q] /\ pc'[q] = pc[q] /\ at'[q] = at[q] /\ era'[q] = era[q]
HeldOthers(p) == \A q \in Procs \ {p} :
    mem'[q] = mem[q] /\ reg'[q] = reg[q] /\ gen'[q] = gen[q]
\* A process that was started goes on in its role, or ends.
Moves(p) == /\ pc[p] # "idle"
            /\ pc'[p] # "idle" => cmd'[p] = cmd[p]
            /\ era'[p] = era[p] \/ (pc'[p] = "idle" /\ era'[p] = 0)

LEMMA GotoMoves ==
  ASSUME PlaceTypes, NEW p \in Procs, pc[p] # "idle", NEW l, NEW i, Goto(p, l, i)
  PROVE  /\ PlaceOthers(p) /\ Moves(p)
         /\ pc'[p] = l /\ at'[p] = i /\ cmd'[p] = cmd[p] /\ era'[p] = era[p]
BY DEF PlaceTypes, Goto, PlaceOthers, Moves

LEMMA EndMoves ==
  ASSUME PlaceTypes, HeldTypes, NEW p \in Procs, pc[p] # "idle", End(p)
  PROVE  PlaceOthers(p) /\ HeldOthers(p) /\ Moves(p) /\ pc'[p] = "idle"
<1>1. PlaceOthers(p) /\ Moves(p) /\ pc'[p] = "idle"
  BY DEF PlaceTypes, End, PlaceOthers, Moves
<1>2. HeldOthers(p)
  BY DEF HeldTypes, End, HeldOthers
<1> QED
  BY <1>1, <1>2

\* A process that goes on in its role keeps the roles, and stays alone.
LEMMA MovesRoles ==
  ASSUME Types, Roles, NEW p \in Procs, PlaceOthers(p), Moves(p), eras' = eras,
         Up(p)' => cmd[p] = "daemon"
  PROVE  Roles'
<1>1. \A q \in Procs : era'[q] <= eras
  BY DEF Types, PlaceTypes, GlobalTypes, Roles, PlaceOthers, Moves
<1>2. \A q \in Procs : Up(q)' => cmd'[q] = "daemon"
  BY DEF Roles, PlaceOthers, Moves, Up
<1> QED
  BY <1>1, <1>2 DEF Roles

LEMMA MovesAlone ==
  ASSUME Alone, NEW p \in Procs, PlaceOthers(p), Moves(p), Busy(p)' => Busy(p)
  PROVE  Alone'
<1>1. \A q \in Procs : (Busy(q)' => Busy(q)) /\ (Daemon(q)' => Daemon(q))
  BY DEF PlaceOthers, Moves, Busy, Daemon
<1> QED
  BY <1>1 DEF Alone

\* Whoever has loaded since the reset is somebody.
LEMMA NobodyAtAll ==
  ASSUME Types, Roles, InOrder, ~HaveAll
  PROVE  Nobody
<1>1. promised = {}
  BY DEF InOrder, Promising
<1>2. ASSUME NEW q \in Procs, Loaded(q) PROVE era[q] < eras
  <2>1. era[q] # eras
    BY <1>2 DEF InOrder, Local, Holding
  <2>2. era[q] <= eras /\ era[q] \in Nat /\ eras \in Nat
    BY IdentityAssumption DEF Roles, Types, PlaceTypes, GlobalTypes
  <2> QED
    BY <2>1, <2>2
<1> QED
  BY <1>1, <1>2 DEF Nobody

\* What a process is at does not touch those that are not at the files.
LEMMA OthersKeep ==
  ASSUME Types, Roles, InOrder, NEW p \in Procs, PlaceOthers(p), HeldOthers(p), Moves(p),
         UNCHANGED <<files, promised, eras, cut>>,
         Busy(p)' => Busy(p),
         Loaded(p)' => Busy(p) \/ Loaded(p)
  PROVE  /\ Alone' /\ Promising' /\ Whole' /\ Commits'
         /\ \A q \in Procs \ {p} : Local(q)'
<1>1. Alone'
  BY MovesAlone DEF InOrder
<1>2. Whole' /\ Commits' /\ (HaveAll <=> HaveAll')
  BY DEF InOrder, Whole, Commits, HaveAll, files
<1>3. Promising'
  <2>1. \A q \in Procs : Daemon(q)' => Daemon(q) /\ era'[q] = era[q]
    BY DEF PlaceOthers, Moves, Daemon
  <2> QED
    BY <1>2, <2>1 DEF InOrder, Promising, files
<1>4. ASSUME NEW q \in Procs \ {p} PROVE Local(q)'
  <2>1. Local(q)
    BY DEF InOrder
  <2>2. /\ pc'[q] = pc[q] /\ at'[q] = at[q] /\ era'[q] = era[q] /\ cmd'[q] = cmd[q]
        /\ mem'[q] = mem[q] /\ reg'[q] = reg[q] /\ gen'[q] = gen[q]
    BY DEF PlaceOthers, HeldOthers
  <2>3. ASSUME Busy(q), Nobody PROVE Nobody'
    <3>1. ~Busy(p)
      BY <2>3 DEF InOrder, Alone
    <3>2. Loaded(p)' => Loaded(p) /\ era'[p] = era[p]
      BY <3>1 DEF Moves, Loaded
    <3> QED
      BY <2>3, <3>2 DEF Nobody, PlaceOthers, Loaded
  <2>4. Resetting(q)'
    BY <2>1, <2>2, <2>3 DEF Local, Resetting, Busy, files
  <2>5. Generating(q)'
    <3>1. Writing(q)' <=> Writing(q)
      BY <2>2 DEF Writing
    <3>2. Writing(q) => Busy(q)
      BY DEF Writing, Busy
    <3>3. AtSecrets(q)' <=> AtSecrets(q)
      BY <2>2 DEF AtSecrets
    <3> QED
      BY <2>1, <2>2, <2>3, <3>1, <3>2, <3>3 DEF Local, Generating, files
  <2>6. Reading(q)'
    BY <2>1, <2>2 DEF Local, Reading, files
  <2>7. Holding(q)'
    BY <1>2, <2>1, <2>2 DEF Local, Holding, Loaded, Up, files
  <2> QED
    BY <2>4, <2>5, <2>6, <2>7 DEF Local
<1> QED
  BY <1>1, <1>2, <1>3, <1>4

\* A step at the files, when they are nobody's.
LEMMA WriterStep ==
  ASSUME Types, Roles, InOrder, NEW p \in Procs, PlaceOthers(p), HeldOthers(p), Moves(p),
         Busy(p), Nobody, UNCHANGED <<promised, eras>>
  PROVE  /\ Alone' /\ Promising'
         /\ ~Loaded(p)' => Nobody'
         /\ \A q \in Procs \ {p} : Local(q)'
<1>1. Alone'
  BY MovesAlone DEF InOrder
<1>2. Promising'
  BY DEF Promising, Nobody
<1>3. ~Loaded(p)' => Nobody'
  BY DEF Nobody, PlaceOthers, Loaded
<1>4. ASSUME NEW q \in Procs \ {p} PROVE Local(q)'
  <2>1. ~Busy(q)
    BY DEF InOrder, Alone
  <2>2. pc'[q] = pc[q] /\ era'[q] = era[q]
    BY DEF PlaceOthers
  <2>3. Resetting(q)' /\ Generating(q)' /\ Reading(q)'
    BY <2>1, <2>2 DEF Resetting, Generating, Reading, Writing, Busy
  <2>4. Loaded(q) => era[q] < eras
    BY DEF Nobody
  <2>5. era[q] \in Nat /\ eras \in Nat
    BY IdentityAssumption DEF Types, PlaceTypes, GlobalTypes
  <2>6. ~(Loaded(q)' /\ era'[q] = eras')
    BY <2>2, <2>4, <2>5 DEF Loaded
  <2>7. Holding(q)'
    BY <2>6 DEF Holding
  <2> QED
    BY <2>3, <2>7 DEF Local
<1> QED
  BY <1>1, <1>2, <1>3, <1>4

-----------------------------------------------------------------------------
(* The steps, one by one: each keeps the roles, and the order too as long  *)
(* as nobody else is at the files.                                         *)

\* A process that ends.
LEMMA EndStep ==
  ASSUME Types, Roles, NEW p \in Procs, pc[p] # "idle", End(p), UNCHANGED <<files, promised, eras, cut>>
  PROVE  Roles' /\ (InOrder => InOrder')
<1>1. PlaceOthers(p) /\ HeldOthers(p) /\ Moves(p) /\ pc'[p] = "idle"
  BY EndMoves DEF Types
<1>2. Roles'
  BY <1>1, MovesRoles DEF Up
<1>3. ~Busy(p)' /\ ~Loaded(p)' /\ Local(p)'
  BY <1>1 DEF Busy, Loaded, Local, Resetting, Generating, Reading, Holding, Writing
<1>4. InOrder => InOrder'
  BY <1>1, <1>3, OthersKeep DEF InOrder
<1> QED
  BY <1>2, <1>4

LEMMA StartStep ==
  ASSUME Types, Roles, NEW p \in Procs, NEW c \in Commands, Start(p, c)
  PROVE  Roles' /\ (~overlapped' /\ (~overlapped => InOrder) => InOrder')
<1>1. /\ pc[p] = "idle" /\ PlaceOthers(p) /\ UNCHANGED <<files, local, cut>>
      /\ pc'[p] = (IF c = "reset" THEN "reset" ELSE "check") /\ at'[p] = 1
      /\ cmd'[p] = c /\ era'[p] = eras'
  <2>1. at[p] = 1
    <3>1. Steps("idle") = {1}
      BY DEF Steps
    <3> QED
      BY <3>1 DEF Start, Types, PlaceTypes
  <2> QED
    BY <2>1 DEF Start, Types, PlaceTypes, PlaceOthers
<1>2. /\ eras' = (IF c = "reset" THEN eras + 1 ELSE eras)
      /\ promised' = (IF c = "reset" THEN {} ELSE promised)
  BY DEF Start
<1>3. eras \in Nat /\ eras' \in Nat /\ \A q \in Procs : era[q] \in Nat
  BY <1>2, IdentityAssumption DEF Types, PlaceTypes, GlobalTypes
<1>4. Roles'
  <2>1. \A q \in Procs : era'[q] <= eras'
    BY <1>1, <1>2, <1>3 DEF Roles, PlaceOthers
  <2>2. \A q \in Procs : Up(q)' => cmd'[q] = "daemon"
    BY <1>1 DEF Roles, Up, PlaceOthers
  <2> QED
    BY <2>1, <2>2 DEF Roles
<1>5. ASSUME ~overlapped', ~overlapped => InOrder PROVE InOrder'
  <2>1. /\ ~overlapped /\ \A q \in Procs : ~Busy(q)
        /\ c = "daemon" => \A q \in Procs : ~(Loaded(q) /\ cmd[q] = "daemon")
    BY <1>5, Zenon DEF Start
  <2>2. InOrder
    BY <1>5, <2>1
  <2>3. \A q \in Procs : pc[q] = "idle" \/ Busy(q) \/ Loaded(q)
    BY DEF Types, PlaceTypes, Locations, Busy, Loaded
  <2>4. Alone'
    <3>1. \A q \in Procs \ {p} : ~Busy(q)' /\ (Daemon(q)' <=> Daemon(q))
      BY <1>1, <2>1 DEF PlaceOthers, Busy, Daemon
    <3>2. Daemon(p)' => \A q \in Procs \ {p} : ~Daemon(q)
      BY <1>1, <2>1, <2>3 DEF Daemon
    <3> QED
      BY <2>2, <3>1, <3>2 DEF InOrder, Alone
  <2>5. Whole' /\ Commits' /\ (HaveAll <=> HaveAll')
    BY <1>1, <2>2 DEF InOrder, Whole, Commits, HaveAll, files
  <2>6. Promising'
    <3>1. CASE c = "reset"
      BY <1>2, <3>1 DEF Promising
    <3>2. CASE c # "reset"
      <4>1. \A q \in Procs : Daemon(q)' => era'[q] = eras \/ (Daemon(q) /\ era'[q] = era[q])
        BY <1>1, <1>2, <3>2 DEF PlaceOthers, Daemon
      <4> QED
        BY <1>1, <1>2, <2>2, <2>5, <3>2, <4>1 DEF InOrder, Promising, files
    <3> QED
      BY <3>1, <3>2
  <2>7. ASSUME NEW q \in Procs \ {p} PROVE Local(q)'
    <3>1. /\ pc'[q] = pc[q] /\ era'[q] = era[q] /\ ~Busy(q) /\ Local(q)
          /\ UNCHANGED <<mem, reg, disk, devices>>
      BY <1>1, <2>1, <2>2 DEF PlaceOthers, InOrder, files, local
    <3>2. Resetting(q)' /\ Generating(q)' /\ Reading(q)'
      BY <3>1 DEF Resetting, Generating, Reading, Writing, Busy
    <3>3. era'[q] = eras' => era[q] = eras
      <4>1. era'[q] = era[q] /\ era[q] \in Nat /\ era[q] <= eras /\ eras \in Nat
        BY <1>3, <3>1 DEF Roles
      <4>2. eras' = eras \/ eras' = eras + 1
        BY <1>2
      <4> QED
        BY <4>1, <4>2
    <3>4. Holding(q)'
      BY <2>5, <3>1, <3>3 DEF Local, Holding, Loaded, Up
    <3> QED
      BY <3>2, <3>4 DEF Local
  <2>8. Local(p)'
    <3>1. Generating(p)' /\ Reading(p)' /\ Holding(p)'
      BY <1>1 DEF Generating, Writing, Reading, Holding, Loaded
    <3>2. CASE c = "reset"
      <4>1. \A q \in Procs : Loaded(q)' => era'[q] < eras'
        BY <1>1, <1>2, <1>3, <3>2 DEF PlaceOthers, Loaded, Roles
      <4>2. Resetting(p)'
        BY <1>1, <1>2, <3>2, <4>1 DEF Resetting, Nobody
      <4> QED
        BY <3>1, <4>2 DEF Local
    <3>3. CASE c # "reset"
      BY <1>1, <3>1, <3>3 DEF Local, Resetting
    <3> QED
      BY <3>2, <3>3
  <2> QED
    BY <2>4, <2>5, <2>6, <2>7, <2>8 DEF InOrder
<1> QED
  BY <1>4, <1>5

LEMMA CheckStep ==
  ASSUME Types, Roles, NEW p \in Procs, Check(p)
  PROVE  Roles' /\ (InOrder => InOrder')
<1>1. /\ pc[p] = "check" /\ UNCHANGED <<files, mem, reg, promised, eras, cut>>
      /\ \A q \in Procs \ {p} : gen'[q] = gen[q]
  BY DEF Check, Types, HeldTypes
<1>2. at[p] \in 1 .. 4
  BY <1>1 DEF Types, PlaceTypes, Steps
<1>3. \/ disk[CheckOrder[at[p]]] = Missing /\ Goto(p, "write", 1)
      \/ Goto(p, "check", at[p] + 1)
      \/ Goto(p, "read", 1)
  BY DEF Check
<1>4. PlaceOthers(p) /\ HeldOthers(p) /\ Moves(p)
  BY <1>1, <1>3, GotoMoves DEF Types, HeldOthers
<1>5. \/ disk[CheckOrder[at[p]]] = Missing /\ pc'[p] = "write" /\ at'[p] = 1
      \/ pc'[p] = "check"
      \/ pc'[p] = "read" /\ at'[p] = 1
  BY <1>1, <1>3, GotoMoves DEF Types
<1>6. Roles'
  BY <1>1, <1>4, <1>5, MovesRoles DEF Up
<1>7. ASSUME InOrder PROVE InOrder'
  <2>1. Busy(p) /\ ~Loaded(p)'
    BY <1>1, <1>5 DEF Busy, Loaded
  <2>2. /\ Alone' /\ Promising' /\ Whole' /\ Commits'
        /\ \A q \in Procs \ {p} : Local(q)'
    BY <1>1, <1>4, <1>7, <2>1, OthersKeep
  <2>3. Resetting(p)' /\ Reading(p)' /\ Holding(p)'
    BY <1>5, <2>1 DEF Resetting, Reading, Holding
  <2>4. CASE disk[CheckOrder[at[p]]] = Missing /\ pc'[p] = "write" /\ at'[p] = 1
    <3>1. \E f \in Pieces : disk[f] = Missing
      BY <1>2, <2>4, Orders
    <3>2. Nobody
      BY <1>7, <3>1, NobodyAtAll DEF HaveAll
    <3>3. disk["cert"] = Missing \/ cut
      <4>1. \/ disk["key"] = Missing \/ disk["cert"] = Missing
            \/ disk["tlskey"] = Missing \/ disk["token"] = Missing
        BY <3>1 DEF Pieces
      <4> QED
        BY <1>7, <4>1 DEF InOrder, Commits
    <3>4. Nobody'
      BY <1>1, <1>4, <2>1, <3>2 DEF Nobody, PlaceOthers, Loaded
    <3>5. Generating(p)'
      BY <1>1, <2>4, <3>3, <3>4 DEF Generating, files
    <3> QED
      BY <2>2, <2>3, <3>5 DEF InOrder, Local
  <2>5. CASE pc'[p] \in {"check", "read"}
    BY <2>2, <2>3, <2>5 DEF InOrder, Local, Generating, Writing
  <2> QED
    BY <1>5, <2>4, <2>5
<1> QED
  BY <1>6, <1>7

LEMMA ReadStep ==
  ASSUME Types, Roles, NEW p \in Procs, Read(p)
  PROVE  Roles' /\ (InOrder => InOrder')
<1>1. pc[p] = "read" /\ UNCHANGED <<files, promised, eras, cut>>
  BY DEF Read, global
<1>2. CASE End(p)
  BY <1>1, <1>2, EndStep
<1>3. CASE ~End(p)
  <2> DEFINE i == at[p]
             f == LoadOrder[i]
  <2>1. i \in 1 .. 4 /\ f \in Pieces
    <3>1. i \in 1 .. 4
      BY <1>1 DEF Types, PlaceTypes, Steps
    <3> QED
      BY <3>1, Orders
  <2>2. /\ disk[f] # Missing /\ reg' = reg /\ gen' = gen
        /\ mem' = [mem EXCEPT ![p][f] = disk[f]]
        /\ (i < 4 /\ Goto(p, "read", i + 1)) \/ (~(i < 4) /\ Goto(p, "registry", 1))
    BY <1>3, Orders DEF Read
  <2>3. /\ mem'[p][f] = disk[f]
        /\ \A g \in Pieces \ {f} : mem'[p][g] = mem[p][g]
        /\ \A q \in Procs \ {p} : mem'[q] = mem[q]
        /\ mem'[p] \in [Pieces -> Content]
    BY <2>1, <2>2, Contents DEF Types, HeldTypes
  <2>4. PlaceOthers(p) /\ HeldOthers(p) /\ Moves(p)
    BY <1>1, <2>2, <2>3, GotoMoves DEF Types, HeldOthers
  <2>5. \/ i < 4 /\ pc'[p] = "read" /\ at'[p] = i + 1
        \/ i = 4 /\ pc'[p] = "registry"
    BY <1>1, <2>1, <2>2, GotoMoves DEF Types
  <2>6. Roles'
    BY <1>1, <2>4, <2>5, MovesRoles DEF Up
  <2>7. ASSUME InOrder PROVE InOrder'
    <3>1. Busy(p)
      BY <1>1 DEF Busy
    <3>2. /\ Alone' /\ Promising' /\ Whole' /\ Commits'
          /\ \A q \in Procs \ {p} : Local(q)'
      BY <1>1, <2>4, <2>7, <3>1, OthersKeep
    <3>3. Resetting(p)' /\ Generating(p)'
      BY <2>5 DEF Resetting, Generating, Writing
    <3>4. \A j \in 1 .. 4 : j < i + 1 =>
              mem'[p][LoadOrder[j]] = disk[LoadOrder[j]] /\ disk[LoadOrder[j]] # Missing
      <4>1. \A j \in 1 .. 4 : j < i =>
                mem[p][LoadOrder[j]] = disk[LoadOrder[j]] /\ disk[LoadOrder[j]] # Missing
        BY <1>1, <2>7 DEF InOrder, Local, Reading
      <4>2. \A j \in 1 .. 4 : j < i + 1 => j < i \/ j = i
        BY <2>1
      <4> QED
        BY <2>2, <2>3, <4>1, <4>2, Orders
    <3>5. Reading(p)'
      BY <1>1, <2>5, <3>4 DEF Reading, files
    <3>6. Holding(p)'
      <4>1. CASE i < 4
        BY <2>5, <4>1 DEF Holding, Loaded
      <4>2. CASE i = 4
        <5>1. \A g \in Pieces : mem'[p][g] = disk[g] /\ disk[g] # Missing
          BY <3>4, <4>2, Orders DEF Pieces
        <5>2. mem'[p] = disk
          BY <2>3, <5>1 DEF Types, FileTypes
        <5> QED
          BY <1>1, <2>5, <4>2, <5>1, <5>2 DEF Holding, HaveAll, Up, files
      <4> QED
        BY <2>1, <4>1, <4>2
    <3> QED
      BY <3>2, <3>3, <3>5, <3>6 DEF InOrder, Local
  <2> QED
    BY <2>6, <2>7
<1> QED
  BY <1>2, <1>3

\* While a generation is under way the files are nobody's.
LEMMA WritingIsNobodys ==
  ASSUME InOrder, NEW p \in Procs, Writing(p) \/ pc[p] = "reset"
  PROVE  Nobody /\ Local(p)
BY DEF InOrder, Local, Resetting, Generating

LEMMA WriteTmpStep ==
  ASSUME Types, Roles, NEW p \in Procs, WriteTmp(p)
  PROVE  Roles' /\ (InOrder => InOrder')
<1>1. /\ pc[p] = "write" /\ UNCHANGED <<disk, devices, local, gen, eras, promised, cut>>
      /\ tmp' = [tmp EXCEPT ![WriteOrder[at[p]]] = Torn]
      /\ Goto(p, "fill tmp", at[p])
  BY DEF WriteTmp, local, global
<1>2. /\ PlaceOthers(p) /\ HeldOthers(p) /\ Moves(p)
      /\ pc'[p] = "fill tmp" /\ at'[p] = at[p]
  BY <1>1, GotoMoves DEF Types, HeldOthers, local
<1>3. Roles'
  BY <1>1, <1>2, MovesRoles DEF Up
<1>4. ASSUME InOrder PROVE InOrder'
  <2>1. Writing(p) /\ Busy(p) /\ ~Loaded(p)'
    BY <1>1, <1>2 DEF Writing, Busy, Loaded
  <2>2. Nobody /\ Generating(p)
    BY <1>4, <2>1, WritingIsNobodys DEF Local
  <2>3. /\ Alone' /\ Promising' /\ Nobody'
        /\ \A q \in Procs \ {p} : Local(q)'
    BY <1>1, <1>2, <1>4, <2>1, <2>2, WriterStep
  <2>4. Whole' /\ Commits'
    BY <1>1, <1>4 DEF InOrder, Whole, Commits
  <2>5. Resetting(p)' /\ Reading(p)' /\ Holding(p)'
    BY <1>2, <2>1 DEF Resetting, Reading, Holding
  <2>6. tmp'[WriteOrder[at[p]]] = Torn
    <3>1. at[p] \in 1 .. 3
      BY <1>1 DEF Types, PlaceTypes, Steps
    <3>2. WriteOrder[at[p]] \in Pieces
      BY <3>1, Orders DEF Pieces
    <3> QED
      BY <1>1, <3>2 DEF Types, FileTypes
  <2>7. Generating(p)'
    BY <1>1, <1>2, <2>1, <2>2, <2>3, <2>6 DEF Generating, AtSecrets
  <2> QED
    BY <2>3, <2>4, <2>5, <2>7 DEF InOrder, Local
<1> QED
  BY <1>3, <1>4

LEMMA FillTmpStep ==
  ASSUME Types, Roles, NEW p \in Procs, FillTmp(p)
  PROVE  Roles' /\ (InOrder => InOrder')
<1> DEFINE f == WriteOrder[at[p]]
<1>1. /\ pc[p] = "fill tmp" /\ UNCHANGED <<devices, mem, reg, gen, eras, promised, cut>>
      /\ tmp[f] # Missing => tmp' = [tmp EXCEPT ![f] = gen[p]] /\ UNCHANGED disk
      /\ Goto(p, "install", at[p])
  BY DEF FillTmp, local, global
<1>2. /\ PlaceOthers(p) /\ HeldOthers(p) /\ Moves(p)
      /\ pc'[p] = "install" /\ at'[p] = at[p]
  BY <1>1, GotoMoves DEF Types, HeldOthers
<1>3. Roles'
  BY <1>1, <1>2, MovesRoles DEF Up
<1>4. ASSUME InOrder PROVE InOrder'
  <2>1. Writing(p) /\ Busy(p) /\ ~Loaded(p)'
    BY <1>1, <1>2 DEF Writing, Busy, Loaded
  <2>2. Nobody /\ Generating(p)
    BY <1>4, <2>1, WritingIsNobodys DEF Local
  <2>3. /\ Alone' /\ Promising' /\ Nobody'
        /\ \A q \in Procs \ {p} : Local(q)'
    BY <1>1, <1>2, <1>4, <2>1, <2>2, WriterStep
  <2>4. tmp' = [tmp EXCEPT ![f] = gen[p]] /\ UNCHANGED disk
    BY <1>1, <2>1, <2>2, Marks DEF Generating
  <2>5. Whole' /\ Commits'
    BY <1>1, <1>4, <2>4 DEF InOrder, Whole, Commits
  <2>6. Resetting(p)' /\ Reading(p)' /\ Holding(p)'
    BY <1>2, <2>1 DEF Resetting, Reading, Holding
  <2>7. tmp'[f] = gen[p]
    <3>1. at[p] \in 1 .. 3
      BY <1>1 DEF Types, PlaceTypes, Steps
    <3>2. f \in Pieces
      BY <3>1, Orders DEF Pieces
    <3> QED
      BY <2>4, <3>2 DEF Types, FileTypes
  <2>8. Generating(p)'
    BY <1>1, <1>2, <2>1, <2>2, <2>3, <2>4, <2>7 DEF Generating, AtSecrets
  <2> QED
    BY <2>3, <2>5, <2>6, <2>8 DEF InOrder, Local
<1> QED
  BY <1>3, <1>4

LEMMA InstallStep ==
  ASSUME Types, Roles, NEW p \in Procs, Install(p)
  PROVE  Roles' /\ (InOrder => InOrder')
<1> DEFINE i == at[p]
           f == WriteOrder[i]
<1>1. pc[p] = "install" /\ UNCHANGED <<devices, eras, promised, cut>>
  BY DEF Install, global
<1>2. i \in 1 .. 3 /\ f \in Pieces /\ f # "cert"
  <2>1. i \in 1 .. 3
    BY <1>1 DEF Types, PlaceTypes, Steps
  <2> QED
    BY <2>1, Orders DEF Pieces
<1>3. \/ disk' = disk /\ End(p)
      \/ /\ disk' = [disk EXCEPT ![f] = tmp[f]] /\ UNCHANGED <<mem, reg, gen>>
         /\ (i < 3 /\ Goto(p, "write", i + 1)) \/ (i = 3 /\ Goto(p, "create", 1))
  BY <1>2, Orders DEF Install, local
<1>4. /\ PlaceOthers(p) /\ HeldOthers(p) /\ Moves(p)
      /\ \/ disk' = disk /\ pc'[p] = "idle"
         \/ /\ disk' = [disk EXCEPT ![f] = tmp[f]] /\ UNCHANGED <<mem, reg, gen>>
            /\ \/ i < 3 /\ pc'[p] = "write" /\ at'[p] = i + 1
               \/ i = 3 /\ pc'[p] = "create"
  BY <1>1, <1>3, GotoMoves, EndMoves DEF Types, HeldOthers
<1>5. Roles'
  BY <1>1, <1>4, MovesRoles DEF Up
<1>6. ASSUME InOrder PROVE InOrder'
  <2>1. Writing(p) /\ AtSecrets(p) /\ Busy(p) /\ ~Loaded(p)'
    BY <1>1, <1>4 DEF Writing, AtSecrets, Busy, Loaded
  <2>2. Nobody /\ Generating(p)
    BY <1>6, <2>1, WritingIsNobodys DEF Local
  <2>3. /\ Alone' /\ Promising' /\ Nobody'
        /\ \A q \in Procs \ {p} : Local(q)'
    BY <1>1, <1>4, <1>6, <2>1, <2>2, WriterStep
  <2>4. /\ tmp[f] = gen[p]
        /\ disk["cert"] = Missing \/ cut
        /\ i >= 2 => disk["key"] = gen[p]
        /\ i >= 3 => disk["tlskey"] = gen[p]
    BY <1>1, <2>1, <2>2 DEF Generating
  <2>5. gen[p] # Torn
    BY Marks DEF Types, HeldTypes
  <2>6. disk' = disk \/ (disk' = [disk EXCEPT ![f] = gen[p]] /\ gen' = gen)
    BY <1>4, <2>4
  <2>7. disk'["cert"] = Missing \/ cut'
    <3>1. disk \in [Pieces -> Content] /\ "cert" \in Pieces
      BY DEF Types, FileTypes, Pieces
    <3>2. disk'["cert"] = disk["cert"]
      BY <1>2, <2>6, <3>1
    <3> QED
      BY <1>1, <2>4, <3>2
  <2>8. Whole' /\ Commits'
    <3>1. Whole'
      BY <1>2, <1>6, <2>5, <2>6 DEF InOrder, Whole, Types, FileTypes
    <3> QED
      BY <2>7, <3>1 DEF Commits
  <2>9. Resetting(p)' /\ Reading(p)' /\ Holding(p)'
    BY <1>4, <2>1 DEF Resetting, Reading, Holding
  <2>10. Generating(p)'
    <3>1. CASE pc'[p] = "idle"
      BY <3>1 DEF Generating, Writing
    <3>2. CASE pc'[p] # "idle"
      <4>1. /\ disk' = [disk EXCEPT ![f] = gen[p]] /\ gen' = gen
            /\ \/ i < 3 /\ pc'[p] = "write" /\ at'[p] = i + 1
               \/ i = 3 /\ pc'[p] = "create"
        BY <1>4, <2>4, <3>2
      <4>2. disk \in [Pieces -> Content]
        BY DEF Types, FileTypes
      <4>3. disk'[f] = gen[p] /\ \A g \in Pieces \ {f} : disk'[g] = disk[g]
        BY <1>2, <4>1, <4>2
      <4>4. "key" \in Pieces /\ "tlskey" \in Pieces
        BY DEF Pieces
      <4>5. /\ disk'["key"] = gen[p]
            /\ i >= 2 => disk'["tlskey"] = gen[p]
            /\ i = 3 => disk'["token"] = gen[p]
        <5>1. i = 1 \/ i = 2 \/ i = 3
          BY <1>2
        <5> QED
          BY <2>4, <4>3, <4>4, <5>1, Orders
      <4>6. CASE i < 3
        <5>1. /\ pc'[p] = "write" /\ at'[p] = i + 1 /\ gen'[p] = gen[p]
              /\ at'[p] >= 3 => i >= 2
          BY <1>2, <4>1, <4>6
        <5> QED
          BY <2>3, <2>7, <4>5, <5>1 DEF Generating, AtSecrets
      <4>7. CASE i = 3
        <5>1. /\ pc'[p] = "create" /\ gen'[p] = gen[p]
              /\ disk'["key"] = gen[p] /\ disk'["tlskey"] = gen[p] /\ disk'["token"] = gen[p]
          BY <4>1, <4>5, <4>7
        <5> QED
          BY <2>3, <2>7, <5>1 DEF Generating, AtSecrets
      <4> QED
        BY <4>1, <4>6, <4>7
    <3> QED
      BY <3>1, <3>2
  <2> QED
    BY <2>3, <2>8, <2>9, <2>10 DEF InOrder, Local
<1> QED
  BY <1>5, <1>6

LEMMA CreateCertStep ==
  ASSUME Types, Roles, NEW p \in Procs, CreateCert(p)
  PROVE  Roles' /\ (InOrder => InOrder')
<1>1. /\ pc[p] = "create" /\ UNCHANGED <<devices, mem, reg, gen, eras, promised>>
      /\ disk' = [disk EXCEPT !["cert"] = Torn] /\ Goto(p, "fill", 1)
  BY DEF CreateCert, local
<1>2. /\ PlaceOthers(p) /\ HeldOthers(p) /\ Moves(p) /\ pc'[p] = "fill"
  BY <1>1, GotoMoves DEF Types, HeldOthers
<1>3. Roles'
  BY <1>1, <1>2, MovesRoles DEF Up
<1>4. ASSUME InOrder PROVE InOrder'
  <2>1. Writing(p) /\ Busy(p) /\ ~Loaded(p)'
    BY <1>1, <1>2 DEF Writing, Busy, Loaded
  <2>2. Nobody /\ Generating(p)
    BY <1>4, <2>1, WritingIsNobodys DEF Local
  <2>3. /\ Alone' /\ Promising' /\ Nobody'
        /\ \A q \in Procs \ {p} : Local(q)'
    BY <1>1, <1>2, <1>4, <2>1, <2>2, WriterStep
  <2>4. disk'["cert"] = Torn /\ \A f \in Pieces \ {"cert"} : disk'[f] = disk[f]
    BY <1>1 DEF Types, FileTypes, Pieces
  <2>5. /\ disk'["key"] = gen[p] /\ disk'["tlskey"] = gen[p] /\ disk'["token"] = gen[p]
    BY <1>1, <2>1, <2>2, <2>4 DEF Generating, Pieces
  <2>6. gen[p] # Missing
    BY Marks DEF Types, HeldTypes
  <2>7. Whole'
    BY <1>4, <2>4 DEF InOrder, Whole
  <2>8. Commits'
    BY <2>4, <2>5, <2>6 DEF Commits
  <2>9. Resetting(p)' /\ Reading(p)' /\ Holding(p)'
    BY <1>2, <2>1 DEF Resetting, Reading, Holding
  <2>10. Generating(p)'
    BY <1>1, <1>2, <2>3, <2>5 DEF Generating, AtSecrets
  <2> QED
    BY <2>3, <2>7, <2>8, <2>9, <2>10 DEF InOrder, Local
<1> QED
  BY <1>3, <1>4

LEMMA FillCertStep ==
  ASSUME Types, Roles, NEW p \in Procs, FillCert(p)
  PROVE  Roles' /\ (InOrder => InOrder')
<1>1. /\ pc[p] = "fill" /\ UNCHANGED <<devices, reg, gen, eras, promised, cut>>
      /\ disk' = [disk EXCEPT !["cert"] = gen[p]]
      /\ mem' = [mem EXCEPT ![p] = [f \in Pieces |-> gen[p]]]
      /\ Goto(p, "registry", 1)
  BY DEF FillCert, global
<1>2. mem'[p] = [f \in Pieces |-> gen[p]] /\ \A q \in Procs \ {p} : mem'[q] = mem[q]
  BY <1>1 DEF Types, HeldTypes
<1>3. /\ PlaceOthers(p) /\ HeldOthers(p) /\ Moves(p) /\ pc'[p] = "registry"
  BY <1>1, <1>2, GotoMoves DEF Types, HeldOthers
<1>4. Roles'
  BY <1>1, <1>3, MovesRoles DEF Up
<1>5. ASSUME InOrder PROVE InOrder'
  <2>1. Writing(p) /\ Busy(p)
    BY <1>1 DEF Writing, Busy
  <2>2. Nobody /\ Generating(p)
    BY <1>5, <2>1, WritingIsNobodys DEF Local
  <2>3. /\ Alone' /\ Promising'
        /\ \A q \in Procs \ {p} : Local(q)'
    BY <1>1, <1>3, <1>5, <2>1, <2>2, WriterStep
  <2>4. /\ disk'["cert"] = gen[p] /\ disk' \in [Pieces -> Content]
        /\ \A f \in Pieces \ {"cert"} : disk'[f] = disk[f]
    <3>1. disk \in [Pieces -> Content] /\ gen[p] \in Content
      BY Contents DEF Types, FileTypes
    <3> QED
      BY <1>1, <3>1 DEF Pieces
  <2>5. \A f \in Pieces : disk'[f] = gen[p]
    BY <1>1, <2>1, <2>2, <2>4 DEF Generating, Pieces
  <2>6. gen[p] # Missing /\ gen[p] # Torn
    BY Marks DEF Types, HeldTypes
  <2>7. Whole' /\ Commits' /\ HaveAll'
    BY <2>5, <2>6 DEF Whole, Commits, HaveAll, Pieces
  <2>8. mem'[p] = disk'
    BY <1>2, <2>4, <2>5
  <2>9. Local(p)'
    BY <1>3, <2>7, <2>8 DEF Local, Resetting, Reading, Holding, Generating, Writing, Up
  <2> QED
    BY <2>3, <2>7, <2>9 DEF InOrder
<1> QED
  BY <1>4, <1>5

LEMMA LoadRegistryStep ==
  ASSUME Types, Roles, NEW p \in Procs, LoadRegistry(p)
  PROVE  Roles' /\ (InOrder => InOrder')
<1>1. /\ pc[p] = "registry" /\ UNCHANGED <<files, mem, gen, eras, promised, cut>>
      /\ reg' = [reg EXCEPT ![p] = devices]
      /\ Goto(p, IF cmd[p] = "daemon" THEN "bind" ELSE "connect", 1)
  BY DEF LoadRegistry, global
<1>2. reg'[p] = devices /\ \A q \in Procs \ {p} : reg'[q] = reg[q]
  BY <1>1 DEF Types, HeldTypes
<1>3. /\ PlaceOthers(p) /\ HeldOthers(p) /\ Moves(p) /\ era'[p] = era[p]
      /\ pc'[p] = IF cmd[p] = "daemon" THEN "bind" ELSE "connect"
  BY <1>1, <1>2, GotoMoves DEF Types, HeldOthers
<1>4. Roles'
  BY <1>1, <1>3, MovesRoles DEF Up
<1>5. ASSUME InOrder PROVE InOrder'
  <2>1. Loaded(p) /\ Loaded(p)' /\ ~Busy(p)'
    BY <1>1, <1>3 DEF Loaded, Busy
  <2>2. /\ Alone' /\ Promising' /\ Whole' /\ Commits'
        /\ \A q \in Procs \ {p} : Local(q)'
    BY <1>1, <1>3, <1>5, <2>1, OthersKeep
  <2>3. Holding(p)'
    BY <1>1, <1>2, <1>3, <1>5, <2>1 DEF InOrder, Local, Holding, HaveAll, files
  <2>4. Local(p)'
    BY <1>3, <2>3 DEF Local, Resetting, Reading, Generating, Writing
  <2> QED
    BY <2>2, <2>4 DEF InOrder
<1> QED
  BY <1>4, <1>5

LEMMA BindServeStep ==
  ASSUME Types, Roles, NEW p \in Procs, Bind(p) \/ Serve(p)
  PROVE  Roles' /\ (InOrder => InOrder')
<1>1. /\ pc[p] \in {"bind", "tls"} /\ UNCHANGED <<files, eras, promised, cut>>
      /\ End(p) \/ (UNCHANGED <<mem, reg, gen>> /\ (Goto(p, "tls", 1) \/ Goto(p, "serving", 1)))
  BY DEF Bind, Serve, global, local
<1>2. CASE End(p)
  BY <1>1, <1>2, EndStep
<1>3. CASE ~End(p)
  <2>1. /\ PlaceOthers(p) /\ HeldOthers(p) /\ Moves(p) /\ era'[p] = era[p]
        /\ pc'[p] \in {"tls", "serving"} /\ UNCHANGED <<mem, reg>>
    BY <1>1, <1>3, GotoMoves DEF Types, HeldOthers
  <2>2. Up(p) /\ Loaded(p) /\ Loaded(p)' /\ ~Busy(p)'
    BY <1>1, <2>1 DEF Up, Loaded, Busy
  <2>3. Roles'
    BY <1>1, <2>1, <2>2, MovesRoles DEF Roles
  <2>4. ASSUME InOrder PROVE InOrder'
    <3>1. /\ Alone' /\ Promising' /\ Whole' /\ Commits'
          /\ \A q \in Procs \ {p} : Local(q)'
      BY <1>1, <2>1, <2>2, <2>4, OthersKeep
    <3>2. Holding(p)'
      BY <1>1, <2>1, <2>2, <2>4 DEF InOrder, Local, Holding, HaveAll, files
    <3>3. Local(p)'
      BY <2>1, <3>2 DEF Local, Resetting, Reading, Generating, Writing
    <3> QED
      BY <3>1, <3>3 DEF InOrder
  <2> QED
    BY <2>3, <2>4
<1> QED
  BY <1>2, <1>3

\* A pairing or a revocation in the daemon q that serves.
LEMMA ServingStep ==
  ASSUME Types, Roles, NEW q \in Procs, Serving(q),
         UNCHANGED <<disk, tmp, cmd, pc, at, mem, gen, era, eras, cut>>,
         reg' = [reg EXCEPT ![q] = devices'],
         \A r \in promised' :
            \/ r \in promised
            \/ era[q] = eras /\ r.pin = mem[q]["cert"] /\ r.host = mem[q]["key"],
         (\A r \in promised : r.deck \in reg[q]) => \A r \in promised' : r.deck \in devices'
  PROVE  Roles' /\ (InOrder => InOrder')
<1>1. Roles'
  BY DEF Roles, Up
<1>2. Loaded(q) /\ Up(q) /\ Daemon(q)
  BY DEF Serving, Loaded, Up, Daemon, Roles
<1>3. reg'[q] = devices' /\ \A p \in Procs \ {q} : reg'[p] = reg[p]
  BY DEF Types, HeldTypes
<1>4. ASSUME InOrder PROVE InOrder'
  <2>1. Alone' /\ Whole' /\ Commits' /\ (HaveAll' <=> HaveAll)
    BY <1>4 DEF InOrder, Alone, Whole, Commits, HaveAll, Busy, Daemon
  <2>2. \A p \in Procs : Daemon(p) => p = q
    BY <1>2, <1>4 DEF InOrder, Alone
  <2>3. \A p \in Procs : Up(p) => Daemon(p)
    BY DEF Roles, Up, Daemon
  <2>4. Holding(q)
    BY <1>4 DEF InOrder, Local
  <2>5. era[q] = eras => mem[q] = disk /\ HaveAll /\ reg[q] = devices
    BY <1>2, <2>4 DEF Holding
  <2>6. era[q] # eras => promised = {} /\ promised' = {}
    BY <1>2, <1>4 DEF InOrder, Promising
  <2>7. Promising'
    <3>1. CASE era[q] = eras
      <4>1. \A r \in promised' : r.pin = disk["cert"] /\ r.host = disk["key"]
        BY <1>4, <2>5, <3>1 DEF InOrder, Promising
      <4>2. \A r \in promised' : r.deck \in devices'
        BY <1>4, <2>5, <3>1 DEF InOrder, Promising
      <4>3. HaveAll' /\ \A p \in Procs : Daemon(p)' => era'[p] = eras'
        BY <2>1, <2>2, <2>5, <3>1 DEF Daemon
      <4> QED
        BY <4>1, <4>2, <4>3 DEF Promising
    <3>2. CASE era[q] # eras
      BY <2>6, <3>2 DEF Promising
    <3> QED
      BY <3>1, <3>2
  <2>8. Nobody => Nobody'
    <3>1. Nobody => era[q] # eras
      <4>1. era[q] \in Nat /\ eras \in Nat
        BY IdentityAssumption DEF Types, PlaceTypes, GlobalTypes
      <4> QED
        BY <1>2, <4>1 DEF Nobody
    <3> QED
      BY <2>6, <3>1 DEF Nobody, Loaded
  <2>9. ASSUME NEW p \in Procs PROVE Local(p)'
    <3>1. Local(p)
      BY <1>4 DEF InOrder
    <3>2. Resetting(p)'
      BY <2>8, <3>1 DEF Local, Resetting
    <3>3. Generating(p)'
      BY <2>8, <3>1 DEF Local, Generating, Writing, AtSecrets
    <3>4. Reading(p)'
      BY <3>1 DEF Local, Reading
    <3>5. Holding(p)'
      BY <1>3, <2>1, <2>2, <2>3, <3>1 DEF Local, Holding, Loaded, Up
    <3> QED
      BY <3>2, <3>3, <3>4, <3>5 DEF Local
  <2> QED
    BY <2>1, <2>7, <2>9 DEF InOrder
<1> QED
  BY <1>1, <1>4

LEMMA PairStep ==
  ASSUME Types, Roles, NEW p \in Procs, NEW d \in Decks, Pair(p, d)
  PROVE  Roles' /\ (InOrder => InOrder')
<1> DEFINE new == [deck |-> d, pin |-> mem[p]["cert"], host |-> mem[p]["key"]]
<1>1. /\ Serving(p) /\ UNCHANGED <<disk, tmp, cmd, pc, at, mem, gen, era, eras, cut>>
      /\ reg' = [reg EXCEPT ![p] = reg[p] \cup {d}] /\ devices' = reg'[p]
      /\ promised' = IF era[p] = eras THEN promised \cup {new} ELSE promised
  BY DEF Pair
<1>2. devices' = reg[p] \cup {d} /\ reg' = [reg EXCEPT ![p] = devices']
  BY <1>1 DEF Types, HeldTypes
<1>3. \A r \in promised' : r \in promised \/ (era[p] = eras /\ r = new)
  BY <1>1
<1>4. new.deck = d /\ new.pin = mem[p]["cert"] /\ new.host = mem[p]["key"]
  OBVIOUS
<1> HIDE DEF new
<1>5. \A r \in promised' :
         \/ r \in promised
         \/ era[p] = eras /\ r.pin = mem[p]["cert"] /\ r.host = mem[p]["key"]
  BY <1>3, <1>4
<1>6. (\A r \in promised : r.deck \in reg[p]) => \A r \in promised' : r.deck \in devices'
  BY <1>2, <1>3, <1>4
<1> QED
  BY <1>1, <1>2, <1>5, <1>6, ServingStep

LEMMA RevokeStep ==
  ASSUME Types, Roles, NEW p \in Procs, NEW q \in Procs, NEW d \in Decks, Revoke(p, q, d)
  PROVE  Roles' /\ (InOrder => InOrder')
<1>1. /\ Serving(q) /\ UNCHANGED <<disk, tmp, cmd, pc, at, mem, gen, era, eras, cut>>
      /\ reg' = [reg EXCEPT ![q] = reg[q] \ {d}] /\ devices' = reg'[q]
      /\ promised' = {r \in promised : r.deck # d}
  BY DEF Revoke, Reaches
<1>2. devices' = reg[q] \ {d} /\ reg' = [reg EXCEPT ![q] = devices']
  BY <1>1 DEF Types, HeldTypes
<1>3. \A r \in promised' : r \in promised /\ r.deck # d
  BY <1>1
<1> QED
  BY <1>1, <1>2, <1>3, ServingStep

LEMMA RemoveStep ==
  ASSUME Types, Roles, NEW p \in Procs, Remove(p)
  PROVE  Roles' /\ (InOrder => InOrder')
<1> DEFINE i == at[p]
           f == ResetOrder[i]
<1>1. /\ pc[p] = "reset" /\ UNCHANGED <<tmp, eras, promised>>
      /\ disk' = [g \in Pieces |-> IF g = f THEN Missing ELSE disk[g]]
  BY DEF Remove
<1>2. cut' <=> (cut /\ f # "cert") \/ (f = "key" /\ disk["cert"] # Missing)
  BY Zenon DEF Remove
<1>3. i \in 1 .. 5
  BY DEF Types, PlaceTypes
<1>4. End(p) \/ (UNCHANGED local /\ i < 5 /\ Goto(p, "reset", i + 1))
  BY <1>3, Orders DEF Remove
<1>5. /\ PlaceOthers(p) /\ HeldOthers(p) /\ Moves(p)
      /\ pc'[p] = "idle" \/ (pc'[p] = "reset" /\ i < 5 /\ at'[p] = i + 1)
  BY <1>1, <1>4, GotoMoves, EndMoves DEF Types, HeldOthers, local
<1>6. Roles'
  BY <1>1, <1>5, MovesRoles DEF Up
<1>7. ASSUME InOrder PROVE InOrder'
  <2>1. Busy(p) /\ ~Loaded(p)'
    BY <1>1, <1>5 DEF Busy, Loaded
  <2>2. Nobody /\ Resetting(p)
    BY <1>1, <1>7, WritingIsNobodys DEF Local
  <2>3. /\ Alone' /\ Promising' /\ Nobody'
        /\ \A q \in Procs \ {p} : Local(q)'
    BY <1>1, <1>5, <1>7, <2>1, <2>2, WriterStep
  <2>4. \A g \in Pieces : disk'[g] = IF g = f THEN Missing ELSE disk[g]
    BY <1>1
  <2>5. Whole'
    BY <1>7, <2>4, Marks DEF InOrder, Whole
  <2>6. (disk'["cert"] = Missing \/ cut') /\ (i >= 2 => disk'["cert"] = Missing)
    <3>1. /\ disk'["cert"] = IF f = "cert" THEN Missing ELSE disk["cert"]
          /\ i = 2 => f = "cert"
          /\ i = 1 => f = "key"
      BY <2>4, Orders DEF Pieces
    <3>2. i >= 3 => disk["cert"] = Missing
      BY <1>1, <2>2 DEF Resetting
    <3>3. i = 1 \/ i = 2 \/ i >= 3
      BY <1>3
    <3> QED
      BY <1>2, <3>1, <3>2, <3>3
  <2>7. Commits'
    BY <2>6 DEF Commits
  <2>8. Resetting(p)'
    <3>1. at'[p] >= 3 /\ at'[p] = i + 1 => i >= 2
      BY <1>3
    <3> QED
      BY <1>5, <2>3, <2>6, <3>1 DEF Resetting
  <2>9. Generating(p)' /\ Reading(p)' /\ Holding(p)'
    BY <1>5, <2>1 DEF Generating, Writing, Reading, Holding
  <2> QED
    BY <2>3, <2>5, <2>7, <2>8, <2>9 DEF InOrder, Local
<1> QED
  BY <1>6, <1>7

-----------------------------------------------------------------------------
(* The theorems.                                                           *)

LEMMA InitIInv == Init => IInv
<1> SUFFICES ASSUME Init PROVE IInv
  OBVIOUS
<1>1. Types
  BY InitTypes
<1>2. \A p \in Procs : pc[p] = "idle" /\ era[p] = 0
  BY DEF Init
<1>3. promised = {} /\ eras = 0 /\ \A f \in Pieces : disk[f] = Missing
  BY DEF Init, NoIdentity
<1>4. Roles
  <2>1. \A p \in Procs : ~Up(p)
    BY <1>2 DEF Up
  <2>2. \A p \in Procs : era[p] <= eras
    <3>1. 0 <= 0
      OBVIOUS
    <3> QED
      BY <1>2, <1>3, <3>1
  <2> QED
    BY <2>1, <2>2 DEF Roles
<1>5. Alone /\ \A p \in Procs : Local(p)
  BY <1>2 DEF Alone, Busy, Daemon, Local, Resetting, Generating, Writing, Reading, Holding, Loaded
<1>6. Promising /\ Whole /\ Commits
  BY <1>3, IdentityAssumption DEF Promising, Whole, Commits, Pieces
<1> QED
  BY <1>1, <1>4, <1>5, <1>6 DEF IInv, InOrder

LEMMA NextIInv == IInv /\ [Next]_vars => IInv'
<1> SUFFICES ASSUME IInv, [Next]_vars PROVE IInv'
  OBVIOUS
<1>1. Types /\ Roles /\ (~overlapped => InOrder) /\ Types'
  BY NextTypes DEF IInv
<1>2. ASSUME NEW p \in Procs, NEW c \in Commands, Start(p, c) PROVE IInv'
  BY <1>1, <1>2, StartStep DEF IInv
<1>3. ASSUME NEW p \in Procs,
             \/ Check(p) \/ Read(p) \/ WriteTmp(p) \/ FillTmp(p) \/ Install(p)
             \/ CreateCert(p) \/ FillCert(p) \/ LoadRegistry(p) \/ Bind(p) \/ Serve(p)
             \/ \E d \in Decks : Pair(p, d) \/ \E q \in Procs : Revoke(p, q, d)
             \/ Remove(p) \/ Stop(p)
      PROVE  IInv'
  <2>1. overlapped' = overlapped
    BY <1>3 DEF Check, Read, WriteTmp, FillTmp, Install, CreateCert, FillCert, LoadRegistry, Bind,
                Serve, Pair, Revoke, Remove, Stop, global
  <2>2. Stop(p) => Roles' /\ (InOrder => InOrder')
    BY <1>1, EndStep DEF Stop, global
  <2>3. Roles' /\ (InOrder => InOrder')
    <3>1. CASE Check(p) \/ Read(p) \/ WriteTmp(p) \/ FillTmp(p) \/ Install(p)
      BY <1>1, <3>1, CheckStep, ReadStep, WriteTmpStep, FillTmpStep, InstallStep
    <3>2. CASE CreateCert(p) \/ FillCert(p) \/ LoadRegistry(p) \/ Bind(p) \/ Serve(p)
      BY <1>1, <3>2, CreateCertStep, FillCertStep, LoadRegistryStep, BindServeStep
    <3>3. CASE \E d \in Decks : Pair(p, d) \/ \E q \in Procs : Revoke(p, q, d)
      BY <1>1, <3>3, PairStep, RevokeStep
    <3>4. CASE Remove(p)
      BY <1>1, <3>4, RemoveStep
    <3> QED
      BY <1>3, <2>2, <3>1, <3>2, <3>3, <3>4
  <2> QED
    BY <1>1, <2>1, <2>3 DEF IInv
<1>4. CASE UNCHANGED vars
  <2>1. Roles' /\ overlapped' = overlapped
    BY <1>1, <1>4 DEF Roles, Up, vars
  <2>2. InOrder => InOrder'
    <3>1. Alone => Alone'
      BY <1>4 DEF Alone, Busy, Daemon, vars
    <3>2. ASSUME NEW p \in Procs, Local(p) PROVE Local(p)'
      <4>1. Resetting(p)' /\ Generating(p)'
        BY <1>4, <3>2 DEF Local, Resetting, Generating, Writing, AtSecrets, Loaded, Nobody,
                          HaveAll, vars, files
      <4>2. Reading(p)' /\ Holding(p)'
        BY <1>4, <3>2 DEF Local, Reading, Holding, Up, Loaded, Daemon, HaveAll, vars, files
      <4> QED
        BY <4>1, <4>2 DEF Local
    <3>3. Promising => Promising'
      BY <1>4 DEF Promising, Daemon, HaveAll, vars, files
    <3>4. Whole /\ Commits => Whole' /\ Commits'
      BY <1>4 DEF Whole, Commits, Daemon, Busy, Writing, AtSecrets, Loaded, HaveAll, vars, files
    <3> QED
      BY <3>1, <3>2, <3>3, <3>4 DEF InOrder
  <2> QED
    BY <1>1, <2>1, <2>2 DEF IInv
<1> QED
  BY <1>2, <1>3, <1>4 DEF Next, Step

\* Of every process, wherever it is: the four files, the temporaries and the
\* memories hold generations, nothing or torn writes, and no secret is torn
\* unless two processes were at the files.  Of identity.rs and secret_file.rs.
THEOREM TypeCorrect == Spec => []TypeOK
<1>1. IInv => TypeOK
  BY DEF IInv, InOrder, Whole, TypeOK
<1> QED
  BY <1>1, InitIInv, NextIInv, PTL DEF Spec

\* A certificate on disk commits its set: the key, its private key and the
\* token are there, of one generation.  Of Identity::generate.
THEOREM CommitCorrect == Spec => []CertificateCommits
<1>1. IInv => CertificateCommits
  BY DEF IInv, InOrder, Commits, CertificateCommits
<1> QED
  BY <1>1, InitIInv, NextIInv, PTL DEF Spec

\* All that have loaded since the last reset hold one identity.
\* Of Identity::load_or_generate.
THEOREM OneIdentityCorrect == Spec => []OneIdentity
<1>1. IInv => OneIdentity
  BY DEF IInv, InOrder, Local, Holding, OneIdentity
<1> QED
  BY <1>1, InitIInv, NextIInv, PTL DEF Spec

\* An answered pairing is honoured by every daemon since, until it is revoked
\* or the identity is reset.  Of Identity::load_or_generate and the registry.
THEOREM PairedCorrect == Spec => []PairedStaysPaired
<1>1. IInv => PairedStaysPaired
  <2> SUFFICES ASSUME IInv, ~overlapped, NEW p \in Procs, NEW r \in promised,
                      Serving(p), era[p] = eras
               PROVE  /\ mem[p]["cert"] = r.pin /\ mem[p]["key"] = r.host
                      /\ r.deck \in reg[p]
    BY DEF PairedStaysPaired
  <2>1. Holding(p) /\ Promising
    BY DEF IInv, InOrder, Local
  <2>2. mem[p] = disk /\ reg[p] = devices
    BY <2>1 DEF Holding, Serving, Loaded, Up
  <2>3. r.pin = disk["cert"] /\ r.host = disk["key"] /\ r.deck \in devices
    BY <2>1 DEF Promising
  <2> QED
    BY <2>2, <2>3
<1> QED
  BY <1>1, InitIInv, NextIInv, PTL DEF Spec
=============================================================================
