------------------------------- MODULE SdCard -------------------------------
(***************************************************************************)
(* Identification and set-up of the SD card (driver/sddef.h) and the read  *)
(* of the partition table by sd_init (driver/sd.c).                        *)
(*                                                                         *)
(* The card is external: it follows the states of the SD specification     *)
(* that the driver's order of commands relies on, and the line may lose a  *)
(* command or its response.  A command waits for its interrupt for a       *)
(* bounded number of polls; here the wait has one of its outcomes.         *)
(*                                                                         *)
(* One action is one stage of sdInit, with every command it sends.         *)
(***************************************************************************)
EXTENDS Integers

CONSTANTS
  Cids,      \* identities of cards, numbers above 0
  CardKind,  \* what each card is: version 2, high capacity, can use a 4 bit bus
  HostVers,  \* what the controller may report: 0, 1 (up to V2) or 2 (V3)
  MaxRetries,\* repetitions of ACMD41, 6 in the code
  BaseClock, \* 41666666 Hz
  FreqSetup, \* FREQ_SETUP
  FreqNormal,\* FREQ_NORMAL
  MaxFaults, \* bound: commands or responses lost and other failures
  MaxInits,  \* bound: calls of sdInit
  MaxSwaps   \* bound: cards taken out and put in

ASSUME SdAssumption ==
  /\ Cids \subseteq Nat \ {0}
  /\ CardKind \in [Cids -> [v2 : BOOLEAN, hc : BOOLEAN, can4 : BOOLEAN]]
  /\ \A c \in Cids : CardKind[c].hc => CardKind[c].v2
  /\ 0 < FreqSetup /\ FreqSetup < FreqNormal /\ FreqNormal < BaseClock

VARIABLES
  stage,  \* of sdInit, "idle" outside of it
  sdCard, \* the descriptor
  oldCID, \* local of sdInit
  host,   \* the controller: clock divider (0: off), bus width, sdHostVer
  card,   \* the card: external
  result, \* what sdInit returned
  tries,  \* times ACMD41 was sent in this sdAppSendOpCond
  ejected,\* event bit of GPEDS1; nothing clears it
  touched,\* the card was changed since sdInit last succeeded
  known,  \* history: identity of the card the last successful sdInit set up
  faults, inits, swaps,
  mbr     \* sd_init: partition table "unread", "read", or "panic"

sdvars == <<stage, sdCard, oldCID, host, card, result, tries, ejected, touched, known,
            faults, inits, swaps, mbr>>

NoDescriptor == [init |-> FALSE, cid |-> 0, rca |-> 0, type |-> "none", complete |-> FALSE,
                 ccs |-> FALSE, support4 |-> FALSE]
PowerUp(cid) == [cid |-> cid, state |-> "idle", up |-> FALSE, rca |-> 0, wide |-> FALSE, app |-> FALSE]

(* The card: the states in which it accepts a command, and what it does then. *)
Needs == [GO_IDLE |-> {"idle", "ready", "ident", "stby", "tran"}, APP_CMD |-> {"idle", "stby", "tran"},
          SEND_IF_COND |-> {"idle"}, OP_COND_HC |-> {"idle"}, OP_COND_SC |-> {"idle"},
          ALL_SEND_CID |-> {"ready"}, SEND_REL_ADDR |-> {"ident"}, SEND_CSD |-> {"stby"}, CARD_SELECT |-> {"stby"},
          SEND_SCR |-> {"tran"}, SET_BUS_WIDTH |-> {"tran"}, SET_BLOCKLEN |-> {"tran"},
          READ_SINGLE |-> {"tran"}]
AppCommands == {"OP_COND_HC", "OP_COND_SC", "SEND_SCR", "SET_BUS_WIDTH"}
Accepts(c, cmd, rca) ==
  /\ c.state \in Needs[cmd]
  /\ cmd \in AppCommands => c.app
  /\ cmd = "SEND_IF_COND" => CardKind[c.cid].v2
  /\ cmd = "SET_BUS_WIDTH" => CardKind[c.cid].can4
  /\ cmd \in {"APP_CMD", "SEND_CSD", "CARD_SELECT"} => rca = c.rca
After(c, cmd) ==
  LET d == [c EXCEPT !.app = cmd = "APP_CMD"]
  IN  CASE cmd = "GO_IDLE"       -> PowerUp(c.cid)
        [] cmd = "OP_COND_HC"    -> [d EXCEPT !.state = IF c.up THEN "ready" ELSE "idle"]
        [] cmd = "OP_COND_SC"    -> [d EXCEPT !.state = IF c.up /\ ~CardKind[c.cid].hc THEN "ready" ELSE "idle"]
        [] cmd = "ALL_SEND_CID"  -> [d EXCEPT !.state = "ident"]
        [] cmd = "SEND_REL_ADDR" -> [d EXCEPT !.state = "stby", !.rca = 1]
        [] cmd = "CARD_SELECT"   -> [d EXCEPT !.state = "tran"]
        [] cmd = "SET_BUS_WIDTH" -> [d EXCEPT !.wide = TRUE]
        [] OTHER                 -> d

-----------------------------------------------------------------------------
(* sdSendCommandP: what the card is afterwards, what is returned, and the faults.  *)
(* SD_BUSY before the command is sent; SD_TIMEOUT when it or its response is lost,  *)
(* when the card refuses it, or when it comes at the last poll; SD_ERROR from the  *)
(* error bits.  GO_IDLE has no response, so its loss is not noticed.               *)
Outcome(c, r, f) == [c |-> c, r |-> r, f |-> f]
SendCommandP(c, cmd, rca) ==
  LET refused == [c EXCEPT !.app = FALSE]
      taken == IF Accepts(c, cmd, rca) THEN After(c, cmd) ELSE refused
      answered == cmd = "GO_IDLE" \/ Accepts(c, cmd, rca)
      lost == IF cmd = "GO_IDLE" THEN "ok" ELSE "timeout"
  IN  {Outcome(taken, IF answered THEN "ok" ELSE "timeout", 0), Outcome(c, "busy", 1),
       Outcome(c, lost, 1), Outcome(taken, "timeout", 1), Outcome(taken, "error", 1)}

(* sdSendAppCommand: without an RCA what APP_CMD returns is not looked at. *)
SendAppCommand(c, rca) ==
  {[o EXCEPT !.r = IF rca = 0 THEN "ok" ELSE o.r] : o \in SendCommandP(c, "APP_CMD", rca)}

(* sdSendCommand and sdSendCommandA, as far as the bound on faults goes. *)
SendCommand(cmd) ==
  LET rca == sdCard.rca
      all == IF cmd \notin AppCommands THEN SendCommandP(card, cmd, rca)
             ELSE UNION {IF o.r # "ok" THEN {o}
                         ELSE {[p EXCEPT !.f = p.f + o.f] : p \in SendCommandP(o.c, cmd, rca)}
                           : o \in SendAppCommand(card, rca)}
  IN  {o \in all : faults + o.f =< MaxFaults}

(* fls_long: the number of bits of x, by halving the range. *)
FlsLong(x) ==
  LET Halve(r, s) == IF x < 2^(r - s) THEN r - s ELSE r
  IN  IF x = 0 THEN 0 ELSE Halve(Halve(Halve(Halve(Halve(32, 16), 8), 4), 2), 1)
(* sdGetClockDivider, before its bits are moved to their places.  The controller   *)
(* divides the base clock by twice this number.                                    *)
GetClockDivider(freq, ver) ==
  LET closest == BaseClock \div freq
      fls == FlsLong(closest - 1)
      shift == IF fls > 8 THEN 7 ELSE IF fls > 0 THEN fls - 1 ELSE 0
      divisor == IF ver > 1 THEN closest ELSE 2^shift
  IN  IF divisor =< 2 THEN 2 ELSE divisor

(* The constants of sddef.h are such that no divider is too small for the frequency *)
(* it was computed for; for other numbers the powers of two of an old controller    *)
(* may be.                                                                          *)
ASSUME ClockAssumption ==
  /\ MaxRetries \in Nat /\ MaxFaults \in Nat
  /\ BaseClock \in Nat /\ FreqSetup \in Nat /\ FreqNormal \in Nat
  /\ \A freq \in {FreqSetup, FreqNormal}, ver \in HostVers :
       /\ GetClockDivider(freq, ver) \in Nat \ {0}
       /\ BaseClock \div (2 * GetClockDivider(freq, ver)) =< freq

-----------------------------------------------------------------------------
SdInit0 ==
  /\ stage = "idle" /\ sdCard = NoDescriptor /\ oldCID = 0 /\ result = "none" /\ tries = 0
  /\ host = [div |-> 0, wide |-> FALSE, ver |-> 0]
  /\ card \in {PowerUp(cid) : cid \in Cids}
  /\ ejected = FALSE /\ touched = FALSE /\ known = 0
  /\ faults = 0 /\ inits = 0 /\ swaps = 0 /\ mbr = "unread"

Env == <<ejected, touched, inits, swaps, mbr>>
GotoStage(s) == stage' = s /\ UNCHANGED <<oldCID, result, known, Env>>
ReturnWith(r) == stage' = "idle" /\ result' = r /\ oldCID' = 0 /\ UNCHANGED <<known, Env>>
Faults(f) == faults' = faults + f
Fail(r) == faults < MaxFaults /\ Faults(1) /\ ReturnWith(r) /\ UNCHANGED tries

\* Mutant of SdInitCall: the old identity is taken from a card that failed, too.
SdInitCallKeepsCid ==
  /\ stage = "idle" /\ inits < MaxInits
  /\ inits = 0 \/ mbr \in {"read", "garbage"}
  /\ inits' = inits + 1 /\ tries' = 0 /\ stage' = "reset"
  /\ sdCard' = [sdCard EXCEPT !.init = FALSE] /\ oldCID' = sdCard.cid
  /\ UNCHANGED <<result, faults, host, card, ejected, touched, known, swaps, mbr>>
(* sdInit up to sdGetBaseClock.  A card that was taken out is set up again; one    *)
(* that stayed in place is left alone.                                             *)
SdInitCall ==
  /\ stage = "idle" /\ inits < MaxInits
  /\ inits = 0 \/ mbr \in {"read", "garbage"}
  /\ inits' = inits + 1 /\ tries' = 0
  /\ IF sdCard.init /\ ~ejected
     THEN /\ result' = "ok"
          /\ UNCHANGED <<stage, sdCard, oldCID, host, faults>>
     ELSE /\ sdCard' = [sdCard EXCEPT !.init = FALSE]
          /\ oldCID' = IF sdCard.init THEN sdCard.cid ELSE 0
          /\ \E ver \in HostVers : host' = [host EXCEPT !.ver = ver]
          /\ \/ stage' = "reset" /\ UNCHANGED <<result, faults>>
             \/ stage' = "idle" /\ result' = "error" /\ faults < MaxFaults /\ Faults(1)
  /\ UNCHANGED <<card, ejected, touched, known, swaps, mbr>>

(* sdResetCard: the controller is reset, its clock set to the identification       *)
(* frequency, the descriptor cleared, and the card told to go idle.                *)
ResetHost == [div |-> GetClockDivider(FreqSetup, host.ver), wide |-> FALSE, ver |-> host.ver]
ClearDescriptor == [sdCard EXCEPT !.rca = 0, !.complete = FALSE, !.ccs = FALSE, !.type = "none"]
ResetCard(next) ==
  \/ /\ Fail("clock") /\ UNCHANGED <<sdCard, card>>
     /\ host' \in {[ResetHost EXCEPT !.div = 0], ResetHost}
  \/ /\ host' = ResetHost /\ sdCard' = ClearDescriptor /\ UNCHANGED tries
     /\ \E o \in SendCommand("GO_IDLE") :
          /\ card' = o.c /\ Faults(o.f)
          /\ IF o.r = "ok" THEN GotoStage(next) ELSE ReturnWith(o.r)
Reset == stage = "reset" /\ ResetCard("ifcond")

(* SEND_IF_COND: a card that does not answer is treated as an old one; when the    *)
(* command line hangs it is reset first.                                           *)
SendIfCond ==
  /\ stage = "ifcond"
  /\ \E o \in SendCommand("SEND_IF_COND") :
       /\ card' = o.c /\ Faults(o.f) /\ UNCHANGED <<sdCard, host, tries>>
       /\ CASE o.r = "ok"   -> GotoStage("opcond_hc")
            [] o.r = "busy" -> ReturnWith("busy")
            [] OTHER        -> GotoStage("opcond_sc") \/ (o.f = 1 /\ GotoStage("reset_sc"))
ResetAgain == stage = "reset_sc" /\ ResetCard("opcond_sc")

(* sdAppSendOpCond: repeated while the card is not ready; a timeout is no reason   *)
(* to stop.  The type depends on whether the card says that its capacity is high.  *)
AppSendOpCond(cmd, low, high) ==
  \E o \in SendCommand(cmd) :
    LET ocr == IF o.r = "ok" THEN [sdCard EXCEPT !.complete = o.c.state = "ready",
                                                 !.ccs = o.c.state = "ready" /\ CardKind[o.c.cid].hc]
               ELSE sdCard
    IN  /\ card' = o.c /\ UNCHANGED host
        /\ \/ /\ o.r \notin {"ok", "timeout"} /\ Faults(o.f) /\ ReturnWith(o.r)
              /\ UNCHANGED <<sdCard, tries>>
           \/ /\ o.r \in {"ok", "timeout"} /\ ocr.complete /\ Faults(o.f) /\ GotoStage("cid")
              /\ sdCard' = [ocr EXCEPT !.type = IF ocr.ccs THEN high ELSE low] /\ UNCHANGED tries
           \/ /\ o.r = "ok" /\ ocr.complete /\ faults + o.f < MaxFaults  \* no voltage in common
              /\ Faults(o.f + 1) /\ ReturnWith("voltage") /\ sdCard' = ocr /\ UNCHANGED tries
           \/ /\ o.r \in {"ok", "timeout"} /\ ~ocr.complete /\ Faults(o.f) /\ sdCard' = ocr
              /\ IF tries < MaxRetries THEN GotoStage(stage) /\ tries' = tries + 1
                 ELSE ReturnWith("timeout") /\ UNCHANGED tries
OpCondHC == stage = "opcond_hc" /\ AppSendOpCond("OP_COND_HC", "2sc", "2hc")
OpCondSC == stage = "opcond_sc" /\ AppSendOpCond("OP_COND_SC", "1", "1")

(* The stages that send one command and go on when it succeeds. *)
Stage(s, cmd, next, descriptor) ==
  /\ stage = s /\ UNCHANGED tries
  /\ \E o \in SendCommand(cmd) :
       /\ card' = o.c /\ Faults(o.f)
       /\ IF o.r = "ok" THEN sdCard' = descriptor /\ GotoStage(next) ELSE ReturnWith(o.r) /\ UNCHANGED sdCard
AllSendCid == Stage("cid", "ALL_SEND_CID", "rca", [sdCard EXCEPT !.cid = card.cid]) /\ UNCHANGED host
SendRelAddr == Stage("rca", "SEND_REL_ADDR", "csd", [sdCard EXCEPT !.rca = 1]) /\ UNCHANGED host
SendCsd == Stage("csd", "SEND_CSD", "clock", sdCard) /\ UNCHANGED host
CardSelect == Stage("select", "CARD_SELECT", "scr", sdCard) /\ UNCHANGED host

(* The file format of the CSD has to be a known one; then the clock goes to full   *)
(* speed (sdSetClock).                                                             *)
SetFullClock ==
  /\ stage = "clock" /\ UNCHANGED <<sdCard, card, tries>>
  /\ LET fast == [host EXCEPT !.div = GetClockDivider(FreqNormal, host.ver)]
     IN  \/ host' = fast /\ Faults(0) /\ GotoStage("select")
         \/ host' \in {host, fast} /\ Fail("clock")

(* sdReadSCR: support is only ever added to. *)
ReadScr ==
  /\ UNCHANGED host
  /\ \/ Stage("scr", "SEND_SCR", "width",
              [sdCard EXCEPT !.support4 = @ \/ CardKind[card.cid].can4])
     \/ stage = "scr" /\ Fail("timeout") /\ UNCHANGED <<sdCard, card>>

\* Mutant of SetBusWidth: the controller keeps its width.
SetBusWidthCardOnly ==
  IF sdCard.support4
  THEN Stage("width", "SET_BUS_WIDTH", "blocklen", sdCard) /\ UNCHANGED host
  ELSE /\ stage = "width" /\ GotoStage("blocklen") /\ Faults(0) /\ UNCHANGED <<sdCard, card, tries, host>>
SetBusWidth ==
  IF sdCard.support4
  THEN /\ Stage("width", "SET_BUS_WIDTH", "blocklen", sdCard)
       /\ host' = [host EXCEPT !.wide = stage' = "blocklen"]
  ELSE /\ stage = "width" /\ GotoStage("blocklen") /\ Faults(0) /\ UNCHANGED <<sdCard, card, tries, host>>

(* SET_BLOCKLEN, and the return of sdInit. *)
SetBlocklen ==
  /\ stage = "blocklen" /\ UNCHANGED <<host, tries>>
  /\ \E o \in SendCommand("SET_BLOCKLEN") :
       /\ card' = o.c /\ Faults(o.f)
       /\ IF o.r # "ok" THEN ReturnWith(o.r) /\ UNCHANGED sdCard
          ELSE /\ sdCard' = [sdCard EXCEPT !.init = TRUE] /\ known' = sdCard.cid
               /\ result' = IF oldCID = sdCard.cid THEN "reinserted" ELSE "changed"
               /\ stage' = "idle" /\ oldCID' = 0 /\ touched' = FALSE
               /\ UNCHANGED <<ejected, inits, swaps, mbr>>

(* The rest of sd_init, whatever sdInit returned: sd_start for block 0, whose      *)
(* failure is a PANIC, and two waits whose outcome is not looked at.               *)
ReadMbr ==
  /\ stage = "idle" /\ inits = 1 /\ mbr = "unread"
  /\ \E o \in SendCommand("READ_SINGLE"), f \in 0..1 :
       /\ faults + o.f + f =< MaxFaults /\ Faults(o.f + f) /\ card' = o.c
       /\ mbr' = IF o.r # "ok" THEN "panic" ELSE IF f = 0 THEN "read" ELSE "garbage"
  /\ UNCHANGED <<stage, sdCard, oldCID, host, result, tries, ejected, touched, known, inits, swaps>>

(* The environment: the card gets ready, and a card is taken out and one put in.   *)
CardReady ==
  /\ card.state = "idle" /\ ~card.up /\ card' = [card EXCEPT !.up = TRUE]
  /\ UNCHANGED <<stage, sdCard, oldCID, host, result, tries, ejected, touched, known,
                 faults, inits, swaps, mbr>>
SwapCard ==
  /\ swaps < MaxSwaps /\ swaps' = swaps + 1
  /\ card' \in {PowerUp(cid) : cid \in Cids} /\ ejected' = TRUE
  /\ touched' = TRUE
  /\ UNCHANGED <<stage, sdCard, oldCID, host, result, tries, known, faults, inits, mbr>>

SdStep == \/ Reset \/ SendIfCond \/ ResetAgain \/ OpCondHC \/ OpCondSC \/ AllSendCid \/ SendRelAddr
          \/ SendCsd \/ SetFullClock \/ CardSelect \/ ReadScr \/ SetBusWidth \/ SetBlocklen
SdNext == SdInitCall \/ SdStep \/ ReadMbr \/ CardReady \/ SwapCard
SdSpec == SdInit0 /\ [][SdNext]_sdvars

-----------------------------------------------------------------------------
Stages == {"reset", "ifcond", "reset_sc", "opcond_hc", "opcond_sc", "cid", "rca", "csd",
           "clock", "select", "scr", "width", "blocklen", "idle"}
Identifying == {"ifcond", "reset_sc", "opcond_hc", "opcond_sc", "cid", "rca", "csd"}
Rate == BaseClock \div (2 * host.div)

(* Type invariant of the driver's descriptor, the controller and the card. *)
SdTypeOK ==
  /\ stage \in Stages /\ tries \in 0..MaxRetries
  /\ sdCard \in [init : BOOLEAN, cid : Cids \cup {0}, rca : 0..1, type : {"none", "1", "2sc", "2hc"},
                 complete : BOOLEAN, ccs : BOOLEAN, support4 : BOOLEAN]
  /\ oldCID \in Cids \cup {0} /\ known \in Cids \cup {0}
  /\ host \in [div : Nat, wide : BOOLEAN, ver : HostVers \cup {0}]
  /\ card \in [cid : Cids, state : Needs["GO_IDLE"], up : BOOLEAN, rca : 0..1, wide : BOOLEAN, app : BOOLEAN]
  /\ faults \in 0..MaxFaults /\ mbr \in {"unread", "read", "garbage", "panic"}

(* When sdInit has succeeded and the card was not changed since, the descriptor    *)
(* and the controller agree with the card about who it is, its address, its way of *)
(* addressing and the width of the bus, whatever was lost on the way and even if   *)
(* cards were changed while sdInit ran: the next sd_start finds a card that takes  *)
(* transfers.                                                                      *)
HostCardAgree ==
  stage = "idle" /\ sdCard.init /\ ~touched =>
    /\ card.state = "tran" /\ card.cid = sdCard.cid /\ card.rca = sdCard.rca
    /\ card.wide = host.wide
    /\ host.div = GetClockDivider(FreqNormal, host.ver)

(* sd_start chooses between block and byte addresses by sdCard.type.  Once sdInit  *)
(* has succeeded, and also when the one call that sd_init makes failed (it goes on *)
(* all the same), a card that takes transfers is addressed in its own way.         *)
AddressingRight ==
  stage = "idle" /\ (sdCard.init \/ inits = 1) /\ card.state = "tran" =>
    (sdCard.type = "2hc" <=> CardKind[card.cid].hc)

(* While a card is being identified its clock is at most FREQ_SETUP, and later it  *)
(* is at most FREQ_NORMAL, for every version of the controller and also when the   *)
(* card before ran at full speed (sdGetClockDivider, sdSetClock, sdResetCard).     *)
ClockSafe ==
  host.div > 0 => /\ Rate =< FreqNormal
                  /\ stage \in Identifying => Rate =< FreqSetup

(* What sdInit leaves behind for sd_start and sd_intr: identity, addressing and     *)
(* clock of the card are as the driver believes (sddef.h:1101-1340).                    *)
CardAgrees == SdTypeOK /\ HostCardAgree /\ AddressingRight /\ ClockSafe

(* A card is reported as reinserted only if it is the one that the last successful *)
(* sdInit set up, whatever other cards failed in between.                          *)
ReinsertedIsSame ==
  [][stage = "blocklen" /\ result' = "reinserted" /\ sdCard'.init => known = sdCard.cid]_sdvars

=============================================================================
