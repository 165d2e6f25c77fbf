-------------------------- MODULE GbCartridge_proof ---------------------------
(***************************************************************************)
(* Proofs about GbCartridge, for every set of cartridges and every number  *)
(* and size of banks.                                                      *)
(***************************************************************************)
EXTENDS GbCartridge, TLAPS

\* While a saved game is written, the RAM of the cartridge answers.
RamIsOpen == job.kind = "write" => ramOn

IInv == TypeOK /\ RomReadsTrue /\ SaveTrue /\ RamIsOpen

-------------------------------------------------------------------------------
(* Arithmetic of banks and addresses. *)

\* A bank number that fits into a register goes through it unchanged.
LEMMA Modulo ==
    ASSUME NEW a \in Nat, NEW n \in Nat \ {0}
    PROVE  a % n \in 0 .. n - 1 /\ (a < n => a % n = a)
OBVIOUS

\* The constants, without the quantifier over the cartridges.
LEMMA Sizes ==
    /\ BankSize \in Nat \ {0} /\ RamBank \in Nat \ {0}
    /\ Low \in Nat \ {0, 1} /\ Pages \in Nat \ {0} /\ High \in Nat \ {0}
    /\ Pages <= High /\ MaxRead \in 1 .. RamBank /\ MaxRead <= BankSize
    /\ MaxWrite \in 1 .. RamBank /\ Data # {}
BY GbAssumption

\* A step of at most a bank leads to an address,
LEMMA PlusIsAddress ==
    ASSUME NEW at \in Address, NEW n \in 0 .. BankSize
    PROVE  Plus(at, n) \in Address
<1>1. CASE at.off + n < BankSize
    <2>1. Plus(at, n) = [at EXCEPT !.off = @ + n]
        BY <1>1 DEF Plus
    <2>2. at.off + n \in 0 .. BankSize - 1
        BY <1>1, Sizes DEF Address
    <2>. QED
        BY <2>1, <2>2 DEF Address
<1>2. CASE ~(at.off + n < BankSize)
    <2>1. at.off + n - BankSize \in 0 .. BankSize - 1
        BY <1>2, Sizes DEF Address
    <2>. at.bank + 1 \in Nat /\ at.page + 1 \in Nat
        BY Sizes DEF Address
    <2>2. (at.bank + 1) % Low \in 0 .. Low - 1
        BY Modulo, Sizes
    <2>3. (at.page + 1) % Pages \in 0 .. Pages - 1
        BY Modulo, Sizes
    <2>4. (IF at.bank + 1 < Low THEN at.page ELSE (at.page + 1) % Pages) \in 0 .. Pages - 1
        BY <2>3 DEF Address
    <2>. QED
        BY <1>2, <2>1, <2>2, <2>4 DEF Plus, Address
<1>. QED
    BY <1>1, <1>2

\* and a round of dump_rom is at most a bank and at most what is left.
LEMMA ChunkFits ==
    ASSUME NEW at \in Address, NEW left \in 0 .. MaxRead
    PROVE  /\ RomChunk(at, left) \in 0 .. BankSize
           /\ RomChunk(at, left) <= left
           /\ ~IsBank0(at) => at.off + RomChunk(at, left) <= BankSize
<1>1. at.off \in 0 .. BankSize - 1
    BY DEF Address
<1>. QED
    BY <1>1, Sizes DEF RomChunk, RomOffset, Smaller

-------------------------------------------------------------------------------
(* Types. *)

\* Selecting a bank keeps the registers in their range.
LEMMA RomBankFits ==
    ASSUME TypeOK, NEW at \in Address, SelectRomBank(at)
    PROVE  low' \in 0 .. Low - 1 /\ mid' \in 0 .. Pages - 1 /\ high' \in 0 .. High - 1
<1>1. /\ at.bank \in 0 .. Low - 1 /\ at.page \in 0 .. Pages - 1
      /\ at.page \in 0 .. High - 1
    BY Sizes DEF Address
<1>. QED
    BY <1>1 DEF TypeOK, SelectRomBank, LowAfter

\* for the RAM as well as for the ROM.
LEMMA RamBankFits ==
    ASSUME TypeOK, NEW bank \in Nat, SelectRamBank(bank)
    PROVE  low' \in 0 .. Low - 1 /\ mid' \in 0 .. Pages - 1 /\ high' \in 0 .. High - 1
<1>1. bank % High \in 0 .. High - 1
    BY Modulo, Sizes
<1>. QED
    BY <1>1 DEF TypeOK, SelectRamBank

\* What a job is, by its kind.
LEMMA JobKinds ==
    ASSUME TypeOK
    PROVE  /\ job.kind = "rom" => /\ job = [kind |-> "rom", at |-> job.at, left |-> job.left]
                                  /\ job.at \in Address /\ job.left \in 0 .. MaxRead
           /\ job.kind = "write" =>
                /\ job = [kind |-> "write", bank |-> job.bank, left |-> job.left,
                          fresh |-> job.fresh, data |-> job.data]
                /\ job.bank \in Nat /\ job.left \in Nat
                /\ job.fresh \in 0 .. MaxWrite /\ job.data \in Data
<1>1. job \in Jobs
    BY DEF TypeOK
<1>. QED
    BY <1>1 DEF Jobs, Idle

\* The RAM of a cartridge is no more than the reader can select.
LEMMA RamSize ==
    ASSUME NEW c \in Carts
    PROVE  c.ram \in 0 .. High /\ c.ram \in Nat /\ c.chip \in Chips
BY GbAssumption DEF Cartridge

\* A round of dump_rom,
LEMMA TypeDumpRom == ASSUME TypeOK, DumpRom PROVE TypeOK'
<1>. DEFINE at == job.at
            n == RomChunk(job.at, job.left)
<1>1. /\ at \in Address /\ job.left \in 0 .. MaxRead
      /\ job = [kind |-> "rom", at |-> job.at, left |-> job.left]
    BY JobKinds DEF DumpRom
<1>2. n \in 0 .. BankSize /\ n <= job.left
    BY <1>1, ChunkFits
<1>3. low' \in 0 .. Low - 1 /\ mid' \in 0 .. Pages - 1 /\ high' \in 0 .. High - 1
    <2>1. CASE IsBank0(at) \/ info.mbc = "NONE"
        BY <2>1 DEF DumpRom, Disturbed, TypeOK
    <2>2. CASE ~(IsBank0(at) \/ info.mbc = "NONE")
        BY <1>1, <2>2, RomBankFits DEF DumpRom
    <2>. QED
        BY <2>1, <2>2
<1>4. writing' \in BOOLEAN
    <2>1. writing' = writing \/ writing' = FALSE
        BY DEF DumpRom, SelectRomBank
    <2>. QED
        BY <2>1, Zenon DEF TypeOK
<1>5. ramOn' \in BOOLEAN
    BY Zenon DEF DumpRom, TypeOK
<1>6. job' \in Jobs
    <2>1. Plus(at, n) \in Address
        BY <1>1, <1>2, PlusIsAddress
    <2>2. job.left - n \in 0 .. MaxRead
        BY <1>1, <1>2, Sizes
    <2>3. job' = [kind |-> "rom", at |-> Plus(at, n), left |-> job.left - n]
        BY <1>1 DEF DumpRom
    <2>. QED
        BY <2>1, <2>2, <2>3 DEF Jobs
<1>7. \A e \in romRead' : e.want \in Address /\ e.below \in BOOLEAN
    <2>1. romRead' = romRead \cup
               {[want |-> Plus(at, i),
                 got |-> RomByte(cart, RomOffset(at) + i, low', mid', high'),
                 below |-> IsBank0(at)] : i \in 0 .. n - 1}
        BY DEF DumpRom
    <2>2. \A i \in 0 .. n - 1 : Plus(at, i) \in Address
        BY <1>1, <1>2, PlusIsAddress, Sizes
    <2>3. IsBank0(at) \in BOOLEAN
        BY DEF IsBank0
    <2>4. \A e \in romRead : e.want \in Address /\ e.below \in BOOLEAN
        BY DEF TypeOK
    <2>. QED
        BY <2>1, <2>2, <2>3, <2>4
<1>8. UNCHANGED <<cart, ram, save, info>>
    BY DEF DumpRom
<1>. QED
    BY <1>3, <1>4, <1>5, <1>6, <1>7, <1>8 DEF TypeOK, Saves, CellsOf

\* What a round of write_ram reaches of a bank, and what of it is the host's.
Written == Smaller(job.left, RamBank)
Sent == IF job.bank = 0 THEN job.fresh ELSE 0
Chunk(bank, size) == {x \in CellsOf(cart) : x.bank = bank /\ x.off < size}

\* The saved game after a round; the RAM likewise, if it is there and open.
LEMMA ChunkStep ==
    ASSUME NEW junk, WriteChunk(junk)
    PROVE  /\ ram' = IF cart.ram > 0 /\ (ramOn \/ cart.chip = "NONE")
                       THEN [x \in CellsOf(cart) |->
                               IF x \in Chunk(RamWindow(cart, high'), Sent) THEN job.data
                               ELSE IF x \in Chunk(RamWindow(cart, high'), Written)
                                 THEN junk[x] ELSE ram[x]]
                       ELSE ram
           /\ save' = IF info = Header(cart)
                        THEN [x \in (DOMAIN save \ Chunk(job.bank, Written))
                                    \cup Chunk(job.bank, Sent) |->
                                IF x \in Chunk(job.bank, Sent) THEN job.data ELSE save[x]]
                        ELSE ram'
           /\ UNCHANGED <<cart, ramOn, info, writing, romRead, ramRead>>
BY DEF WriteChunk, Written, Sent, Chunk, answers

\* a round of write_ram,
LEMMA TypeWriteChunk ==
    ASSUME TypeOK, NEW junk \in Saves(cart), WriteChunk(junk)
    PROVE  TypeOK'
<1>1. /\ job.bank \in Nat /\ job.left \in Nat
      /\ job.fresh \in 0 .. MaxWrite /\ job.data \in Data
      /\ job = [kind |-> "write", bank |-> job.bank, left |-> job.left,
                fresh |-> job.fresh, data |-> job.data]
    BY JobKinds DEF WriteChunk
<1>2. Written \in Nat /\ Written <= job.left
    BY <1>1, Sizes DEF Smaller, Written
<1>3. /\ ram \in [CellsOf(cart) -> Data] /\ junk \in [CellsOf(cart) -> Data]
      /\ DOMAIN save \subseteq CellsOf(cart) /\ save \in [DOMAIN save -> Data]
    BY DEF TypeOK, Saves
<1>4. \A bank, size : Chunk(bank, size) \subseteq CellsOf(cart)
    BY DEF Chunk
<1>5. ram' \in [CellsOf(cart) -> Data]
    <2>1. CASE ram' = ram
        BY <1>3, <2>1
    <2>2. CASE ram' # ram
        <3>1. ram' = [x \in CellsOf(cart) |->
                        IF x \in Chunk(RamWindow(cart, high'), Sent) THEN job.data
                        ELSE IF x \in Chunk(RamWindow(cart, high'), Written)
                          THEN junk[x] ELSE ram[x]]
            BY <2>2, ChunkStep
        <3>. QED
            BY <1>1, <1>3, <3>1
    <2>. QED
        BY <2>1, <2>2
<1>6. DOMAIN save' \subseteq CellsOf(cart) /\ save' \in [DOMAIN save' -> Data]
    <2>1. CASE info # Header(cart)
        BY <1>5, <2>1, ChunkStep
    <2>2. CASE info = Header(cart)
        <3>1. save' = [x \in (DOMAIN save \ Chunk(job.bank, Written))
                              \cup Chunk(job.bank, Sent) |->
                         IF x \in Chunk(job.bank, Sent) THEN job.data ELSE save[x]]
            BY <2>2, ChunkStep
        <3>. QED
            BY <1>1, <1>3, <1>4, <3>1
    <2>. QED
        BY <2>1, <2>2
<1>7. job' \in Jobs
    <2>1. job' = [kind |-> "write", bank |-> job.bank + 1, left |-> job.left - Written,
                  fresh |-> job.fresh, data |-> job.data]
        BY <1>1 DEF WriteChunk, Written
    <2>2. job.left - Written \in Nat /\ job.bank + 1 \in Nat
        BY <1>1, <1>2
    <2>. QED
        BY <1>1, <2>1, <2>2 DEF Jobs
<1>8. low' \in 0 .. Low - 1 /\ mid' \in 0 .. Pages - 1 /\ high' \in 0 .. High - 1
    BY <1>1, RamBankFits DEF WriteChunk
<1>9. UNCHANGED <<cart, ramOn, info, writing, romRead>>
    BY ChunkStep
<1>. QED
    BY <1>5, <1>6, <1>7, <1>8, <1>9 DEF TypeOK, Saves, CellsOf

\* and every other step keep the types.
LEMMA TypeNext == ASSUME TypeOK, [Next]_vars PROVE TypeOK'
<1>1. CASE GetInfo
    <2>1. info' \in {NoInfo} \cup {Header(c) : c \in Carts}
        BY <1>1 DEF GetInfo, TypeOK
    <2>2. /\ low' \in 0 .. Low - 1 /\ mid' \in 0 .. Pages - 1 /\ high' \in 0 .. High - 1
          /\ ramOn' \in BOOLEAN
        BY <1>1 DEF GetInfo, TypeOK, Disturbed, chipState
    <2>. QED
        BY <1>1, <2>1, <2>2 DEF GetInfo, TypeOK, Saves, CellsOf
<1>2. ASSUME NEW a \in Address, NEW len \in 0 .. MaxRead, ReadRom(a, len) PROVE TypeOK'
    <2>1. job' \in Jobs
        BY <1>2 DEF ReadRom, Jobs
    <2>. QED
        BY <1>2, <2>1 DEF ReadRom, TypeOK, Saves, CellsOf, chipState
<1>3. CASE ReadRam
    <2>1. /\ low' \in 0 .. Low - 1 /\ mid' \in 0 .. Pages - 1 /\ high' \in 0 .. High - 1
        BY <1>3, RamBankFits DEF ReadRam, chipState, TypeOK
    <2>2. ramOn' \in BOOLEAN /\ writing' \in BOOLEAN
        <3>1. UNCHANGED <<ramOn, writing>> \/ (ramOn' = FALSE /\ writing' = FALSE)
            BY <1>3 DEF ReadRam, chipState
        <3>. QED
            BY <3>1, Zenon DEF TypeOK
    <2>3. romRead' = {} /\ UNCHANGED <<cart, ram, info, job, save>>
        BY <1>3 DEF ReadRam
    <2>. QED
        BY <2>1, <2>2, <2>3 DEF TypeOK, Saves, CellsOf
<1>4. ASSUME NEW len \in 0 .. RamBank * (info.ram + 1), NEW d \in Data,
             NEW fresh \in 0 .. Smaller(len, MaxWrite), WriteRam(len, fresh, d)
      PROVE TypeOK'
    <2>1. len \in Nat /\ fresh \in 0 .. MaxWrite
        BY Sizes DEF Smaller
    <2>2. job' = job \/ job' = [kind |-> "write", bank |-> 0, left |-> len,
                               fresh |-> fresh, data |-> d]
        BY <1>4 DEF WriteRam
    <2>3. job' \in Jobs
        BY <2>1, <2>2 DEF TypeOK, Jobs
    <2>4. ramOn' \in BOOLEAN /\ writing' \in BOOLEAN
        <3>1. UNCHANGED <<ramOn, writing>> \/ (ramOn' = TRUE /\ writing' = FALSE)
            BY <1>4 DEF WriteRam
        <3>. QED
            BY <3>1, Zenon DEF TypeOK
    <2>5. romRead' = {} /\ UNCHANGED <<cart, low, mid, high, ram, info, save>>
        BY <1>4 DEF WriteRam
    <2>. QED
        BY <2>3, <2>4, <2>5 DEF TypeOK, Saves, CellsOf
<1>5. CASE Restart
    BY <1>5 DEF Restart, TypeOK, Saves, CellsOf, chipState
<1>6. CASE RomDone
    BY <1>6 DEF RomDone, TypeOK, Jobs, Saves, CellsOf, chipState, answers
<1>7. CASE WriteDone
    BY <1>7 DEF WriteDone, TypeOK, Jobs, Saves, CellsOf, answers
<1>8. CASE Blink
    BY <1>8 DEF Blink, TypeOK, Saves, CellsOf, chipState, answers
<1>9. CASE Swap
    <2>1. /\ ram' \in Saves(cart)'
          /\ DOMAIN save' \subseteq CellsOf(cart)' /\ save' \in [DOMAIN save' -> Data]
        BY <1>9 DEF Swap, Saves, CellsOf
    <2>2. low' \in 0 .. Low - 1 /\ mid' \in 0 .. Pages - 1 /\ high' \in 0 .. High - 1
        BY <1>9, Sizes DEF Swap
    <2>3. /\ cart' \in Carts /\ ramOn' = FALSE /\ romRead' = {}
          /\ UNCHANGED <<info, writing, job>>
        BY <1>9 DEF Swap
    <2>. QED
        BY <2>1, <2>2, <2>3, Zenon DEF TypeOK
<1>10. CASE UNCHANGED vars
    BY <1>10 DEF vars, TypeOK, Saves, CellsOf, chipState
<1>. QED
    BY <1>1, <1>2, <1>3, <1>4, <1>5, <1>6, <1>7, <1>8, <1>9, <1>10,
       TypeDumpRom, TypeWriteChunk DEF Next, Command

-------------------------------------------------------------------------------
(* Reading the ROM. *)

\* With the bank selected, the window shows it.
LEMMA WindowShows ==
    ASSUME TypeOK, RomKnown, NEW at \in Address, InRom(at), ~IsBank0(at),
           info.mbc # "NONE" => SelectRomBank(at)
    PROVE  Window(cart, low', mid', high').page = at.page
           /\ Window(cart, low', mid', high').bank = at.bank
<1>1. /\ cart \in Carts /\ cart.chip \in Chips \ {"MMM01"}
      /\ cart.pages \in 1 .. Pages
      /\ cart.chip = "NONE" => cart.pages = 1 /\ cart.banks = 2
      /\ cart.banks \in 2 .. Low
    BY GbAssumption DEF TypeOK, Cartridge, RomKnown
<1>2. info.mbc = cart.chip
    BY DEF RomKnown, Header
<1>3. at.page \in Nat /\ at.bank \in 0 .. Low - 1 /\ at.page < cart.pages
    BY DEF Address, InRom
<1>4. cart.chip # "MBC5" => at.page = 0 /\ at.bank # 0 /\ NonZero(at.bank) = at.bank
    BY <1>1, <1>3 DEF RomKnown, IsBank0, NonZero
<1>5. CASE cart.chip = "NONE"
    <2>1. at.bank = 1
        BY <1>1, <1>3, <1>4, <1>5 DEF InRom
    <2>. QED
        BY <1>4, <1>5, <2>1 DEF Window
<1>6. CASE cart.chip = "MBC1"
    <2>1. low' = at.bank
        BY <1>2, <1>6 DEF SelectRomBank, LowAfter
    <2>2. high' % cart.pages = 0
        <3>1. high' \in Nat
            BY <1>2, <1>6, RomBankFits, Sizes
        <3>2. cart.pages = 1
            BY <1>6 DEF RomKnown
        <3>3. 1 \in Nat \ {0}
            OBVIOUS
        <3>4. high' % 1 \in 0 .. 1 - 1
            BY <3>1, <3>3, Modulo
        <3>. QED
            BY <3>2, <3>4
    <2>. QED
        BY <1>4, <1>6, <2>1, <2>2 DEF Window
<1>7. CASE cart.chip = "MBC5"
    <2>1. low' = at.bank /\ mid' = at.page
        BY <1>2, <1>7 DEF SelectRomBank, LowAfter
    <2>2. mid' % cart.pages = at.page
        <3>1. mid' \in Nat /\ cart.pages \in Nat \ {0} /\ mid' < cart.pages
            BY <1>1, <1>3, <2>1, Sizes
        <3>2. mid' % cart.pages = mid'
            BY <3>1, Modulo
        <3>. QED
            BY <2>1, <3>2
    <2>. QED
        BY <1>7, <2>1, <2>2 DEF Window
<1>8. CASE cart.chip \in {"MBC2", "MBC3", "HUC1"}
    <2>1. low' = at.bank
        BY <1>2, <1>8 DEF SelectRomBank, LowAfter
    <2>2. Window(cart, low', mid', high') = [page |-> 0, bank |-> NonZero(low')]
        BY <1>8 DEF Window
    <2>. QED
        BY <1>4, <1>8, <2>1, <2>2
<1>. QED
    BY <1>1, <1>5, <1>6, <1>7, <1>8 DEF Chips

\* A byte that a round of dump_rom reads is the one that was asked for.
LEMMA ByteIsTrue ==
    ASSUME TypeOK, DumpRom, RomKnown, NEW i \in 0 .. RomChunk(job.at, job.left) - 1,
           InRom(Plus(job.at, i)), IsBank0(job.at) => IsBank0(Plus(job.at, i))
    PROVE  RomByte(cart, RomOffset(job.at) + i, low', mid', high') = Plus(job.at, i)
<1>. DEFINE at == job.at
            n == RomChunk(job.at, job.left)
<1>1. at \in Address /\ job.left \in 0 .. MaxRead
    BY JobKinds DEF DumpRom
<1>2. /\ at = [page |-> at.page, bank |-> at.bank, off |-> at.off]
      /\ at.page \in Nat /\ at.bank \in 0 .. Low - 1 /\ at.off \in 0 .. BankSize - 1
    BY <1>1, Sizes DEF Address
<1>3. n \in 0 .. BankSize /\ (~IsBank0(at) => at.off + n <= BankSize)
    BY <1>1, ChunkFits
<1>4. CASE IsBank0(at)
    <2>1. at.off + i < BankSize
        <3>1. SUFFICES ASSUME at.off + i >= BankSize PROVE FALSE
            BY <1>2, <1>3, Sizes
        <3>2. Plus(at, i).bank = (at.bank + 1) % Low
            BY <1>2, <1>3, <3>1, Sizes DEF Plus
        <3>3. at.bank = 0
            BY <1>4 DEF IsBank0
        <3>4. 1 % Low = 1
            BY Modulo, Sizes
        <3>. QED
            BY <1>4, <3>2, <3>3, <3>4 DEF IsBank0
    <2>2. Plus(at, i) = [at EXCEPT !.off = @ + i]
        BY <2>1 DEF Plus
    <2>3. RomOffset(at) = at.off /\ at.page = 0 /\ at.bank = 0
        BY <1>4 DEF RomOffset, IsBank0
    <2>4. RomByte(cart, RomOffset(at) + i, low', mid', high') = [Zero EXCEPT !.off = at.off + i]
        BY <2>1, <2>3 DEF RomByte
    <2>. QED
        BY <1>2, <2>2, <2>3, <2>4 DEF Zero
<1>5. CASE ~IsBank0(at)
    <2>1. at.off + i < BankSize
        BY <1>2, <1>3, <1>5, Sizes
    <2>2. Plus(at, i) = [page |-> at.page, bank |-> at.bank, off |-> at.off + i]
        BY <1>2, <2>1 DEF Plus
    <2>3. InRom(at)
        BY <2>2 DEF InRom
    <2>4. info.mbc # "NONE" => SelectRomBank(at)
        BY <1>5 DEF DumpRom
    <2>5. /\ Window(cart, low', mid', high').page = at.page
          /\ Window(cart, low', mid', high').bank = at.bank
        BY <1>1, <1>5, <2>3, <2>4, WindowShows
    <2>6. RomOffset(at) = at.off + BankSize
        BY <1>5 DEF RomOffset
    <2>7. i \in Nat
        BY <1>3
    <2>8. /\ ~(at.off + BankSize + i < BankSize)
          /\ (at.off + BankSize + i) - BankSize = at.off + i
        BY <1>2, <2>7, Sizes
    <2>9. RomByte(cart, at.off + BankSize + i, low', mid', high') =
            [page |-> at.page, bank |-> at.bank, off |-> at.off + i]
        <3>1. RomByte(cart, at.off + BankSize + i, low', mid', high') =
                [page |-> Window(cart, low', mid', high').page,
                 bank |-> Window(cart, low', mid', high').bank,
                 off |-> (at.off + BankSize + i) - BankSize]
            BY <2>8 DEF RomByte
        <3>. QED
            BY <2>5, <2>8, <3>1
    <2>. QED
        BY <2>2, <2>6, <2>9
<1>. QED
    BY <1>4, <1>5

\* So every byte read is true,
LEMMA RomNext == ASSUME IInv, [Next]_vars PROVE RomReadsTrue'
<1>1. CASE DumpRom
    <2>. SUFFICES ASSUME RomKnown', NEW e \in romRead', InRom(e.want)',
                         (e.below => IsBank0(e.want))
                  PROVE  e.got = e.want
        BY DEF RomReadsTrue, IsBank0
    <2>1. UNCHANGED <<cart, info>>
        BY <1>1 DEF DumpRom
    <2>2. RomKnown /\ InRom(e.want)
        BY <2>1 DEF RomKnown, InRom, Header
    <2>3. CASE e \in romRead
        BY <2>2, <2>3 DEF IInv, RomReadsTrue
    <2>4. CASE e \notin romRead
        <3>1. PICK i \in 0 .. RomChunk(job.at, job.left) - 1 :
                 e = [want |-> Plus(job.at, i),
                      got |-> RomByte(cart, RomOffset(job.at) + i, low', mid', high'),
                      below |-> IsBank0(job.at)]
            BY <1>1, <2>4 DEF DumpRom
        <3>. QED
            BY <1>1, <2>2, <3>1, ByteIsTrue DEF IInv
    <2>. QED
        BY <2>3, <2>4
<1>2. CASE romRead' = {}
    BY <1>2 DEF RomReadsTrue
<1>3. CASE UNCHANGED <<cart, info, romRead>>
    BY <1>3 DEF IInv, RomReadsTrue, RomKnown, InRom, Header, IsBank0
<1>4. GetInfo \/ ReadRam \/ Restart \/ Swap => romRead' = {}
    BY DEF GetInfo, ReadRam, Restart, Swap
<1>5. \A a, len : ReadRom(a, len) => romRead' = {}
    BY DEF ReadRom
<1>6. \A len, fresh, d : WriteRam(len, fresh, d) => romRead' = {}
    BY DEF WriteRam
<1>7. RomDone \/ WriteDone \/ Blink \/ UNCHANGED vars
        => UNCHANGED <<cart, info, romRead>>
    BY DEF RomDone, WriteDone, Blink, vars, answers
<1>8. \A junk : WriteChunk(junk) => UNCHANGED <<cart, info, romRead>>
    BY DEF WriteChunk, answers
<1>. QED
    BY <1>1, <1>2, <1>3, <1>4, <1>5, <1>6, <1>7, <1>8 DEF Next, Command

-------------------------------------------------------------------------------
(* The saved game. *)

\* The cartridges whose RAM banks the reader can select.
RamKnown == cart.chip \in {"MBC3", "MBC5"} \/ cart.ram <= 1

\* With the bank selected, the window of the RAM shows it.
LEMMA RamWindowShows ==
    ASSUME TypeOK, RamKnown, info = Header(cart), NEW bank \in Nat, bank < cart.ram,
           SelectRamBank(bank)
    PROVE  RamWindow(cart, high') = bank
<1>1. cart \in Carts /\ cart.ram \in 0 .. High /\ cart.ram \in Nat \ {0}
    <2>1. cart \in Carts
        BY DEF TypeOK
    <2>. QED
        BY <2>1, RamSize
<1>2. CASE cart.chip \in {"MBC3", "MBC5"}
    <2>1. high' = bank % High
        BY <1>2 DEF SelectRamBank, Header
    <2>2. bank < High /\ High \in Nat \ {0}
        BY <1>1, Sizes
    <2>3. high' = bank
        BY <2>1, <2>2, Modulo
    <2>4. bank % cart.ram = bank
        BY <1>1, Modulo
    <2>. QED
        BY <1>2, <2>3, <2>4 DEF RamWindow
<1>3. CASE cart.ram <= 1
    <2>1. bank = 0 /\ cart.ram = 1
        BY <1>1, <1>3
    <2>2. high' \in Nat
        BY RamBankFits, Sizes
    <2>3. 1 \in Nat \ {0}
        OBVIOUS
    <2>4. high' % 1 \in 0 .. 1 - 1
        BY <2>2, <2>3, Modulo
    <2>. QED
        BY <2>1, <2>4 DEF RamWindow
<1>. QED
    BY <1>2, <1>3 DEF RamKnown

\* A round of write_ram puts every byte that it has where save has it.
LEMMA ChunkIsSaved ==
    ASSUME IInv, RamKnown, NEW junk \in Saves(cart), WriteChunk(junk)
    PROVE  \A x \in DOMAIN save' : ram'[x] = save'[x]
<1>1. CASE info # Header(cart)
    BY <1>1, ChunkStep
<1>2. CASE info = Header(cart)
    <2>1. job.bank \in Nat /\ job.bank < cart.ram
        BY <1>2, JobKinds DEF WriteChunk, Header, IInv
    <2>2. RamWindow(cart, high') = job.bank
        BY <1>2, <2>1, RamWindowShows DEF WriteChunk, IInv
    <2>3. ramOn
        BY DEF WriteChunk, IInv, RamIsOpen
    <2>4. cart \in Carts /\ cart.ram \in Nat
        BY RamSize DEF IInv, TypeOK
    <2>5. cart.ram > 0
        BY <2>1, <2>4
    <2>6. ram' = [x \in CellsOf(cart) |->
                    IF x \in Chunk(job.bank, Sent) THEN job.data
                    ELSE IF x \in Chunk(job.bank, Written) THEN junk[x] ELSE ram[x]]
        BY <2>2, <2>3, <2>5, ChunkStep
    <2>7. save' = [x \in (DOMAIN save \ Chunk(job.bank, Written))
                          \cup Chunk(job.bank, Sent) |->
                     IF x \in Chunk(job.bank, Sent) THEN job.data ELSE save[x]]
        BY <1>2, ChunkStep
    <2>8. \A x \in DOMAIN save : x \in CellsOf(cart) /\ ram[x] = save[x]
        BY DEF IInv, SaveTrue, RamKnown, TypeOK
    <2>9. Chunk(job.bank, Sent) \subseteq CellsOf(cart)
        BY DEF Chunk
    <2>. QED
        BY <2>6, <2>7, <2>8, <2>9
<1>. QED
    BY <1>1, <1>2

\* Reading finds what was saved.
LEMMA ReadIsSaved ==
    ASSUME IInv, RamKnown, info = Header(cart), ReadRam, NEW e \in ramRead'
    PROVE  e.got = e.want
<1>1. info.ram # 0 /\ SelectRamBank(0)
    BY DEF ReadRam
<1>2. PICK x \in DOMAIN save :
        /\ x.bank = 0
        /\ e = [want |-> save[x],
                got |-> ram[[x EXCEPT !.bank = RamWindow(cart, high')]]]
    BY <1>1 DEF ReadRam
<1>3. cart \in Carts /\ cart.ram \in Nat
    BY RamSize DEF IInv, TypeOK
<1>4. 0 < cart.ram
    BY <1>1, <1>3 DEF Header
<1>5. RamWindow(cart, high') = 0
    BY <1>1, <1>4, RamWindowShows DEF IInv
<1>6. [x EXCEPT !.bank = 0] = x
    BY <1>2 DEF CellsOf, IInv, TypeOK
<1>7. ram[x] = save[x]
    BY <1>2 DEF IInv, SaveTrue, RamKnown
<1>. QED
    BY <1>2, <1>5, <1>6, <1>7

\* So the saved game stays true,
LEMMA SaveNext == ASSUME IInv, [Next]_vars PROVE SaveTrue'
<1>1. CASE ReadRam
    <2>1. UNCHANGED <<cart, ram, info, save>>
        BY <1>1 DEF ReadRam
    <2>. QED
        BY <1>1, <2>1, ReadIsSaved DEF SaveTrue, RamKnown, Header, IInv
<1>2. ASSUME NEW junk \in Saves(cart), WriteChunk(junk) PROVE SaveTrue'
    <2>1. UNCHANGED <<cart, info, ramRead>>
        BY <1>2, ChunkStep
    <2>. QED
        BY <1>2, <2>1, ChunkIsSaved DEF SaveTrue, RamKnown, Header, IInv
<1>3. CASE ramRead' = {} /\ (save' = ram' \/ UNCHANGED <<cart, ram, save>>)
    BY <1>3 DEF IInv, SaveTrue
<1>4. CASE UNCHANGED <<cart, ram, info, ramRead, save>>
    BY <1>4 DEF IInv, SaveTrue, Header
<1>5. GetInfo \/ Restart \/ Swap
        => ramRead' = {} /\ (save' = ram' \/ UNCHANGED <<cart, ram, save>>)
    BY DEF GetInfo, Restart, Swap
<1>6. \A a, len : ReadRom(a, len) => ramRead' = {} /\ UNCHANGED <<cart, ram, save>>
    BY DEF ReadRom
<1>7. \A len, fresh, d : WriteRam(len, fresh, d) => ramRead' = {} /\ UNCHANGED <<cart, ram, save>>
    BY DEF WriteRam
<1>8. DumpRom \/ RomDone \/ WriteDone \/ Blink \/ UNCHANGED vars
        => UNCHANGED <<cart, ram, info, ramRead, save>>
    BY DEF DumpRom, RomDone, WriteDone, Blink, vars, answers
<1>. QED
    BY <1>1, <1>2, <1>3, <1>4, <1>5, <1>6, <1>7, <1>8 DEF Next, Command

\* The RAM is enabled before the first round and disabled after the last.
LEMMA OpenNext == ASSUME IInv, [Next]_vars PROVE RamIsOpen'
<1>1. CASE job'.kind # "write"
    BY <1>1 DEF RamIsOpen
<1>2. CASE UNCHANGED <<job, ramOn>>
    BY <1>2 DEF IInv, RamIsOpen
<1>3. CASE \E len, fresh, d : WriteRam(len, fresh, d)
    BY <1>3 DEF WriteRam, IInv, RamIsOpen
<1>4. CASE \E junk : WriteChunk(junk)
    BY <1>4 DEF WriteChunk, IInv, RamIsOpen
<1>5. CASE DumpRom
    <2>1. job = [kind |-> "rom", at |-> job.at, left |-> job.left]
        BY <1>5, JobKinds DEF DumpRom, IInv
    <2>2. job'.kind = "rom"
        BY <1>5, <2>1 DEF DumpRom
    <2>. QED
        BY <2>2, <1>1
<1>6. GetInfo \/ ReadRam \/ Restart \/ Blink \/ Swap => job' = Idle
    BY DEF GetInfo, ReadRam, Restart, Blink, Swap
<1>7. \A a, len : ReadRom(a, len) => job'.kind = "rom"
    BY DEF ReadRom
<1>8. RomDone \/ WriteDone => job' = Idle
    BY DEF RomDone, WriteDone
<1>9. UNCHANGED vars => UNCHANGED <<job, ramOn>>
    BY DEF vars, chipState
<1>10. Idle.kind # "write"
    BY DEF Idle
<1>. QED
    BY <1>1, <1>2, <1>3, <1>4, <1>5, <1>6, <1>7, <1>8, <1>9, <1>10 DEF Next, Command

-------------------------------------------------------------------------------
\* The invariant the other theorems rest on.
THEOREM Invariant == Spec => []IInv
<1>1. Init => IInv
    <2>. SUFFICES ASSUME Init PROVE IInv
        OBVIOUS
    <2>1. 1 \in 0 .. Low - 1 /\ 0 \in 0 .. Pages - 1 /\ 0 \in 0 .. High - 1
        BY Sizes
    <2>2. DOMAIN save \subseteq CellsOf(cart) /\ save \in [DOMAIN save -> Data]
        <3>1. save \in [CellsOf(cart) -> Data]
            BY DEF Init, Saves
        <3>. QED
            BY <3>1
    <2>3. TypeOK
        BY <2>1, <2>2 DEF Init, TypeOK, Jobs
    <2>4. RomReadsTrue /\ SaveTrue /\ RamIsOpen
        BY DEF Init, RomReadsTrue, SaveTrue, RamIsOpen, Idle
    <2>. QED
        BY <2>3, <2>4 DEF IInv
<1>2. IInv /\ [Next]_vars => IInv'
    BY TypeNext, RomNext, SaveNext, OpenNext DEF IInv
<1>. QED
    BY <1>1, <1>2, PTL DEF Spec

\* Registers, header, saved game and job keep their types.
THEOREM TypeCorrect == Spec => []TypeOK
<1>1. IInv => TypeOK
    BY DEF IInv
<1>. QED
    BY <1>1, Invariant, PTL

\* A byte of a known cartridge's ROM is the one asked for, whatever was done before.
THEOREM RomIsTrue == Spec => []RomReadsTrue
<1>1. IInv => RomReadsTrue
    BY DEF IInv
<1>. QED
    BY <1>1, Invariant, PTL

\* The saved game is what the host wrote, and what it reads back.
THEOREM SaveIsTrue == Spec => []SaveTrue
<1>1. IInv => SaveTrue
    BY DEF IInv
<1>. QED
    BY <1>1, Invariant, PTL

==============================================================================
