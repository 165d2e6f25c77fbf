------------------------------ MODULE GbCartridge ------------------------------
(***************************************************************************)
(* The Game Boy reader, modules/gb_gba_dumper/src/main.c, and the          *)
(* cartridge it reads.                                                     *)
(*                                                                         *)
(* What makes reading hard is state nobody sees: the bank registers of the *)
(* chip on the cartridge.  The reader writes them and never reads them     *)
(* back; it knows the chip from the header of the cartridge that was in    *)
(* the slot at the last GET_INFO; and the status LED is on the pin of the  *)
(* write line (main.c:25, 47), so that a read while the LED is dark is a   *)
(* write as well.                                                          *)
(*                                                                         *)
(* An address is a record of page, bank in the page and offset: the part   *)
(* of the bank number above the bits of the register at 0x2000, those      *)
(* bits, and the place in the bank.  A byte of the ROM is its own address. *)
(***************************************************************************)
EXTENDS Integers, FiniteSets

CONSTANTS
    BankSize,   \* 0x4000 bytes of a ROM bank
    RamBank,    \* 0x2000 bytes of a RAM bank
    Low,        \* values of the low bank register
    Pages,      \* values of the bits above it
    High,       \* values of the register at 0x4000
    MaxRead,    \* USB_BUF_SIZE - 4 bytes fit into an answer
    MaxWrite,   \* USB_BUF_SIZE - 3 bytes of data fit into a command
    Carts,      \* cartridges the user has
    Data        \* bytes of a saved game

Chips == {"NONE", "MBC1", "MBC2", "MBC3", "MBC5", "HUC1", "MMM01"}
Mbcs == Chips \ {"MMM01"}

\* What is soldered to a cartridge: the ROM has `pages` pages, one of them is `banks`
\* banks long and several are complete; the RAM has `ram` banks.
Cartridge == [chip : Chips, pages : 1 .. Pages, banks : 2 .. Low, ram : 0 .. High]

ASSUME GbAssumption ==
    /\ BankSize \in Nat \ {0}
    /\ RamBank \in Nat \ {0}
    /\ Low \in Nat \ {0, 1}
    /\ Pages \in Nat \ {0}
    /\ High \in Nat \ {0}
    /\ Pages <= High
    /\ MaxRead \in 1 .. RamBank
    /\ MaxRead <= BankSize
    /\ MaxWrite \in 1 .. RamBank
    /\ Carts \subseteq Cartridge
    /\ \A c \in Carts : c.chip = "NONE" => c.pages = 1 /\ c.banks = 2
    /\ Data # {}

VARIABLES
    cart,     \* the cartridge in the slot
    low,      \* its register at 0x2000
    mid,      \* the one at 0x3000
    high,     \* the one at 0x4000
    ramOn,    \* its RAM answers
    ram,      \* its saved game
    info,     \* g_cart_info: mbc and ram_size
    writing,  \* the pin of /WR is low
    job,      \* the command being served
    romRead,  \* the bytes of the last READ_ROM, with the address each was read for
    ramRead,  \* those of the last READ_RAM, with what the host has written there
    save      \* history: the saved game as the host has written it, without the
              \* cells that a WRITE_RAM has announced and its packet has not brought

chipState == <<low, mid, high, ramOn>>
vars == <<cart, chipState, ram, info, writing, job, romRead, ramRead, save>>

Address == [page : 0 .. Pages - 1, bank : 0 .. Low - 1, off : 0 .. BankSize - 1]
answers == <<romRead, ramRead>>
CellsOf(c) == [bank : 0 .. c.ram - 1, off : 0 .. RamBank - 1]
Saves(c) == [CellsOf(c) -> Data]

Idle == [kind |-> "idle"]
Zero == [page |-> 0, bank |-> 0, off |-> 0]
Smaller(a, b) == IF a < b THEN a ELSE b

------------------------------------------------------------------------------
(* The cartridge.                                                          *)

\* Chips take 0 in the bank register for 1; MBC5 does not.
NonZero(n) == IF n = 0 THEN 1 ELSE n

\* The bank that is seen at 0x4000 with the registers l, m and h. A cartridge of
\* one page has no lines for the high register.
Window(c, l, m, h) ==
    CASE c.chip = "NONE" -> [page |-> 0, bank |-> 1]
      [] c.chip = "MBC1" -> [page |-> h % c.pages, bank |-> NonZero(l)]
      [] c.chip = "MBC5" -> [page |-> m % c.pages, bank |-> l]
      [] OTHER           -> [page |-> 0, bank |-> NonZero(l)]

\* The byte at place p of the ROM area.
RomByte(c, p, l, m, h) ==
    IF p < BankSize THEN [Zero EXCEPT !.off = p]
    ELSE LET w == Window(c, l, m, h)
         IN  [page |-> w.page, bank |-> w.bank, off |-> p - BankSize]

\* MBC1 in its first mode, which the reader never leaves, has one RAM bank.
RamWindow(c, h) == IF c.chip \in {"NONE", "MBC1"} THEN 0 ELSE h % c.ram

\* The low register hears a write at 0x2000, of MBC2 only with address line 8.
LowAfter(area, v) ==
    IF cart.chip = "NONE" \/ (cart.chip = "MBC2" /\ area # "2100") THEN low ELSE v

\* Reading with /WR low writes what the chip finds on the data lines; which
\* registers that reaches depends on the chip and the address.
Disturbed ==
    /\ low' \in 0 .. Low - 1
    /\ mid' \in 0 .. Pages - 1
    /\ high' \in 0 .. High - 1

------------------------------------------------------------------------------
(* The reader.                                                             *)

\* main: g_cart_info is cleared, and the LED blinks three times and is left dark,
\* which drives /WR low.
NoInfo == [mbc |-> "NONE", ram |-> 0]
Header(c) ==
    [mbc |-> IF c.chip = "MMM01" THEN "NONE" ELSE c.chip, ram |-> c.ram]

Init ==
    /\ cart \in Carts
    /\ low = 1 /\ mid = 0 /\ high = 0 /\ ramOn = FALSE
    /\ ram \in Saves(cart)
    /\ save = ram
    /\ info = NoInfo
    /\ writing = TRUE
    /\ job = Idle
    /\ romRead = {} /\ ramRead = {}

\* Slip: the bits above the low register are written only if there are any.
SelectRomBankLazily(at) ==
    /\ low' = LowAfter(IF info.mbc = "MBC2" THEN "2100" ELSE "2000", at.bank)
    /\ high' = IF info.mbc = "MBC1" /\ at.page > 0 THEN at.page ELSE high
    /\ mid' = IF info.mbc = "MBC5" /\ at.page > 0 THEN at.page ELSE mid
    /\ writing' = FALSE

\* mbc_select_rom_bank: the bits above the low register go to 0x4000 for MBC1, and
\* only if there are any, to 0x3000 for MBC5, and nowhere for the others.
SelectRomBank(at) ==
    /\ low' = LowAfter(IF info.mbc = "MBC2" THEN "2100" ELSE "2000", at.bank)
    /\ high' = IF info.mbc = "MBC1" /\ at.page > 0 THEN at.page ELSE high
    /\ mid' = IF info.mbc = "MBC5" THEN at.page ELSE mid
    /\ writing' = FALSE

\* Slip: bank 0 is taken for selected.
SelectRamBankLazily(bank) ==
    /\ high' = IF info.mbc \in {"MBC1", "MBC3", "MBC5"} /\ bank > 0
                 THEN bank % High ELSE high
    /\ UNCHANGED <<low, mid>>

\* mbc_select_ram_bank; enabling the RAM before it has made /WR inactive.
SelectRamBank(bank) ==
    /\ high' = IF info.mbc \in {"MBC1", "MBC3", "MBC5"} THEN bank % High ELSE high
    /\ UNCHANGED <<low, mid>>

\* CMD_GET_INFO: read_gb_header.
GetInfo ==
    /\ job = Idle
    /\ info' = Header(cart)
    /\ IF writing THEN Disturbed /\ ramOn' \in BOOLEAN ELSE UNCHANGED chipState
    /\ romRead' = {} /\ ramRead' = {}
    /\ UNCHANGED <<cart, ram, writing, job, save>>

\* CMD_READ_ROM: any address, as many bytes as an answer takes.
ReadRom(at, len) ==
    /\ job = Idle
    /\ job' = [kind |-> "rom", at |-> at, left |-> len]
    /\ romRead' = {} /\ ramRead' = {}
    /\ UNCHANGED <<cart, chipState, ram, info, writing, save>>

IsBank0(at) == at.page = 0 /\ at.bank = 0

\* Slip: the last bank of a page is followed by one more.
PlusWithoutCarry(at, n) ==
    IF at.off + n < BankSize THEN [at EXCEPT !.off = @ + n]
    ELSE [at EXCEPT !.bank = @ + 1, !.off = @ + n - BankSize]

\* The address n bytes on, for n up to a bank.
Plus(at, n) ==
    IF at.off + n < BankSize THEN [at EXCEPT !.off = @ + n]
    ELSE [page |-> IF at.bank + 1 < Low THEN at.page ELSE (at.page + 1) % Pages,
          bank |-> (at.bank + 1) % Low,
          off  |-> at.off + n - BankSize]

\* One round of dump_rom: bank and offset, then a chunk that ends with the ROM
\* area at the latest.
RomOffset(at) == IF IsBank0(at) THEN at.off ELSE at.off + BankSize
RomChunk(at, left) == Smaller(Smaller(left, BankSize), 2 * BankSize - RomOffset(at))

DumpRom ==
    /\ job.kind = "rom"
    /\ job.left > 0
    /\ LET at == job.at
           n == RomChunk(at, job.left)
       IN /\ IF IsBank0(at) \/ info.mbc = "NONE"
               THEN /\ writing' = writing
                    /\ IF writing THEN Disturbed ELSE UNCHANGED <<low, mid, high>>
               ELSE SelectRomBank(at)
          /\ ramOn' \in IF writing' THEN BOOLEAN ELSE {ramOn}
          /\ romRead' = romRead \cup
               {[want |-> Plus(at, i),
                 got |-> RomByte(cart, RomOffset(at) + i, low', mid', high'),
                 below |-> IsBank0(at)] : i \in 0 .. n - 1}
          /\ job' = [job EXCEPT !.at = Plus(at, n), !.left = @ - n]
    /\ UNCHANGED <<cart, ram, info, ramRead, save>>

RomDone ==
    /\ job.kind = "rom"
    /\ job.left = 0
    /\ job' = Idle
    /\ UNCHANGED <<cart, chipState, ram, info, writing, answers, save>>

\* CMD_READ_RAM and dump_ram: the answer takes less than a bank, which is one
\* round of the loop between mbc_enable_ram(true) and (false).
ReadRam ==
    /\ job = Idle
    /\ romRead' = {}
    /\ IF info.ram = 0
         THEN ramRead' = {} /\ UNCHANGED <<chipState, writing>>
         ELSE /\ SelectRamBank(0)
              /\ ramOn' = FALSE
              /\ writing' = FALSE
              /\ ramRead' =
                   {[want |-> save[x],
                     got |-> ram[[x EXCEPT !.bank = RamWindow(cart, high')]]] :
                    x \in {y \in DOMAIN save : y.bank = 0 /\ y.off < MaxRead}}
    /\ UNCHANGED <<cart, ram, info, job, save>>

\* CMD_WRITE_RAM: the length is any number of bytes. The data are those of the one
\* packet that tud_cdc_read has put into usb_rx_buf, `fresh` of them.
WriteRam(len, fresh, d) ==
    /\ job = Idle
    /\ romRead' = {} /\ ramRead' = {}
    /\ IF info.ram = 0 THEN UNCHANGED <<job, ramOn, writing>>
       ELSE /\ job' = [kind |-> "write", bank |-> 0, left |-> len, fresh |-> fresh,
                       data |-> d]
            /\ ramOn' = TRUE
            /\ writing' = FALSE
    /\ UNCHANGED <<cart, low, mid, high, ram, info, save>>

\* One round of write_ram. Behind the packet the buffer holds what earlier commands
\* have left there, and behind the buffer is other memory.
WriteChunk(junk) ==
    /\ job.kind = "write"
    /\ job.left > 0
    /\ job.bank < info.ram
    /\ SelectRamBank(job.bank)
    /\ LET n == Smaller(job.left, RamBank)
           sent == IF job.bank = 0 THEN job.fresh ELSE 0
           Chunk(bank, size) == {x \in CellsOf(cart) : x.bank = bank /\ x.off < size}
           open == ramOn \/ cart.chip = "NONE"
           seen == RamWindow(cart, high')
       IN /\ ram' = IF cart.ram > 0 /\ open
                      THEN [x \in CellsOf(cart) |->
                              IF x \in Chunk(seen, sent) THEN job.data
                              ELSE IF x \in Chunk(seen, n) THEN junk[x] ELSE ram[x]]
                      ELSE ram
          /\ save' = IF info = Header(cart)
                       THEN [x \in (DOMAIN save \ Chunk(job.bank, n))
                                   \cup Chunk(job.bank, sent) |->
                               IF x \in Chunk(job.bank, sent) THEN job.data ELSE save[x]]
                       ELSE ram'
          /\ job' = [job EXCEPT !.bank = @ + 1, !.left = @ - n]
    /\ UNCHANGED <<cart, ramOn, info, writing, answers>>

WriteDone ==
    /\ job.kind = "write"
    /\ job.left = 0 \/ job.bank >= info.ram
    /\ job' = Idle
    /\ ramOn' = FALSE
    /\ UNCHANGED <<cart, low, mid, high, ram, info, writing, answers, save>>

\* CMD_RESET, with the cartridge still powered.
Restart ==
    /\ job = Idle
    /\ info' = NoInfo
    /\ writing' = TRUE
    /\ romRead' = {} /\ ramRead' = {}
    /\ UNCHANGED <<cart, chipState, ram, job, save>>

\* The LED in the main loop, between two commands.
Blink ==
    /\ job = Idle
    /\ writing' = ~writing
    /\ UNCHANGED <<cart, chipState, ram, info, job, answers, save>>

\* The user changes the cartridge; g_cart_info stays.
Swap ==
    /\ job = Idle
    /\ cart' \in Carts
    /\ low' = 1 /\ mid' = 0 /\ high' = 0 /\ ramOn' = FALSE
    /\ ram' \in Saves(cart')
    /\ save' = ram'
    /\ romRead' = {} /\ ramRead' = {}
    /\ UNCHANGED <<info, writing, job>>

\* tud_cdc_rx_cb: the first byte of a packet is a command, also of a packet that the
\* host sent as the rest of a saved game.
Command ==
    \/ GetInfo
    \/ \E at \in Address, len \in 0 .. MaxRead : ReadRom(at, len)
    \/ ReadRam
    \/ \E len \in 0 .. RamBank * (info.ram + 1), d \in Data :
          \E fresh \in 0 .. Smaller(len, MaxWrite) : WriteRam(len, fresh, d)
    \/ Restart

Next ==
    \/ Command \/ DumpRom \/ RomDone \/ WriteDone \/ Blink \/ Swap
    \/ \E junk \in Saves(cart) : WriteChunk(junk)

Spec == Init /\ [][Next]_vars

------------------------------------------------------------------------------
(* Properties.                                                             *)

Jobs ==
    {Idle} \cup [kind : {"rom"}, at : Address, left : 0 .. MaxRead]
           \cup [kind : {"write"}, bank : Nat, left : Nat, fresh : 0 .. MaxWrite,
                 data : Data]

\* Registers, saved game and the command being served keep their types; what the
\* reader keeps of a header is that of a cartridge it has seen.
TypeOK ==
    /\ cart \in Carts
    /\ low \in 0 .. Low - 1 /\ mid \in 0 .. Pages - 1 /\ high \in 0 .. High - 1
    /\ ramOn \in BOOLEAN /\ writing \in BOOLEAN
    /\ ram \in Saves(cart)
    /\ DOMAIN save \subseteq CellsOf(cart) /\ save \in [DOMAIN save -> Data]
    /\ info \in {NoInfo} \cup {Header(c) : c \in Carts}
    /\ job \in Jobs
    /\ \A e \in romRead : e.want \in Address /\ e.below \in BOOLEAN

InRom(at) == at.page < cart.pages /\ (cart.pages = 1 => at.bank < cart.banks)

\* The reader can select every bank of the cartridge: it has read its header, knows
\* its chip, and the low register suffices unless the chip is MBC5.
RomKnown ==
    /\ info = Header(cart)
    /\ cart.chip # "MMM01"
    /\ cart.pages = 1 \/ cart.chip = "MBC5"

\* Whatever was read, written, pulled out or blinked before, a byte of the ROM that
\* is read is the one the host asked for, except a byte of bank 1 that a request
\* beginning in bank 0 reaches (dump_rom, main.c:325-350).
RomReadsTrue ==
    RomKnown =>
        \A e \in romRead :
            InRom(e.want) /\ (e.below => IsBank0(e.want)) => e.got = e.want

\* The saved game is what the host has written, a byte at its place, and what it
\* reads back: neither reading with /WR low nor the registers that ROM and RAM share
\* change it or show another bank. Excepted are the bytes that WRITE_RAM announces and
\* the packet does not bring (main.c:409-416, 481-482): they are lost until a packet
\* brings them; and chips whose RAM banks the reader cannot select
\* (mbc_select_ram_bank, dump_ram, write_ram, main.c:221-236, 357-403).
SaveTrue ==
    cart.chip \in {"MBC3", "MBC5"} \/ cart.ram <= 1 =>
        /\ \A x \in DOMAIN save : ram[x] = save[x]
        /\ info = Header(cart) => \A e \in ramRead : e.got = e.want

==============================================================================
