------------------------------ MODULE LoraRegs ------------------------------
(***************************************************************************)
(* The registers of the LoRa concentrator (src/lora/libloragw/src/         *)
(* loragw_reg.c) and of the FPGA beside it (loragw_fpga.c), whose memory   *)
(* has no pages.  A register is a field of some bits in one or several    *)
(* bytes of a paged memory reached over SPI.  The library keeps the page   *)
(* it last selected in lgw_regpage (cached) and writes the page register   *)
(* only when the next access needs another page; a field narrower than its *)
(* byte is read, changed and written back.                                 *)
(*                                                                         *)
(* An SPI transfer may fail.  The library reports a failed data transfer   *)
(* but not a failed page switch, so doubt is the set of registers whose    *)
(* contents nobody vouches for: those of the byte of a failed write, and   *)
(* all of them once the selected page may not be the cached one.           *)
(***************************************************************************)
EXTENDS Integers, Sequences

CONSTANTS Registers,     \* name -> [page, addr, offs, leng, sign]; page -1 is on
                         \* all pages, page FPGA on the FPGA
          ByteBits       \* bits of a byte (8)

Names == DOMAIN Registers
FPGA  == -2
Paged(r) == Registers[r].page >= 0
OnChip == {r \in Names : Registers[r].page # FPGA}
Pages == {Registers[r].page : r \in {q \in Names : Paged(q)}}

VARIABLES link,          \* lgw_spi_target: none, open, or dangling
          cached,        \* lgw_regpage, -1 until the first connection
          page, bytes,   \* the chip: page selected, contents by <<page, address>>
          value,         \* what each register was last told to hold, 0 if in doubt
          doubt

regVars == <<link, cached, page, bytes, value, doubt>>

Size(r) == (Registers[r].leng + ByteBits - 1) \div ByteBits
Cells(r, p) == [i \in 1 .. Size(r) |-> <<IF Paged(r) THEN p ELSE Registers[r].page,
                                         Registers[r].addr + i - 1>>]
AllCells == UNION {{Cells(r, Registers[r].page)[i] : i \in 1 .. Size(r)} : r \in Names}

(* Values are of type int32_t, which a register of four bytes fills.       *)
Word32   == 4 * ByteBits
Values(r) ==
    LET n == Registers[r].leng
    IN  IF Registers[r].sign \/ n = Word32 THEN -(2^(n - 1)) .. 2^(n - 1) - 1 ELSE 0 .. 2^n - 1

RInit ==
    /\ link = "none" /\ cached = -1 /\ page = 0 /\ doubt = {}
    /\ bytes = [c \in AllCells |-> 0] /\ value = [r \in Names |-> 0]

Vouch(v, d) == doubt' = d /\ value' = [r \in Names |-> IF r \in d THEN 0 ELSE v[r]]

(* The two's complement value of the low n bits of u.                      *)
Signed(u, n) == IF u >= 2^(n - 1) THEN u - 2^n ELSE u

OneByte(r) == Registers[r].offs + Registers[r].leng <= ByteBits

(* What the tables of loragw_reg.c and loragw_fpga.c have in common: a     *)
(* field lies in one byte or fills up to four from the first bit of the    *)
(* first, and no two registers have a bit in common.  PAGE_REG and         *)
(* SOFT_RESET, written by name, and TX_TRIG_ALL, an alias of three other   *)
(* registers, are not Names.                                               *)
FieldOK(f) ==
    /\ f.page \in Nat \cup {-1, FPGA} /\ f.addr \in Nat /\ f.sign \in BOOLEAN
    /\ f.offs \in Nat /\ f.leng \in Nat \ {0}
    /\ f.offs + f.leng <= ByteBits \/ (f.offs = 0 /\ f.leng <= Word32)

Own(r) == Cells(r, Registers[r].page)
Beside(f, g) == f.offs + f.leng <= g.offs

Separate(q, r) ==
    \/ \A i \in 1 .. Size(q), k \in 1 .. Size(r) : Own(q)[i] # Own(r)[k]
    \/ /\ OneByte(q) /\ OneByte(r)
       /\ Beside(Registers[q], Registers[r]) \/ Beside(Registers[r], Registers[q])

RegisterTable ==
    /\ ByteBits \in 1 .. 8
    /\ \A r \in Names : FieldOK(Registers[r])
    /\ \A q, r \in Names : q # r => Separate(q, r)

ASSUME RegistersAssumption == RegisterTable

(* The bytes of a word, the least significant first.                       *)
Word(n, at) ==
    LET word[i \in 1 .. n] == IF i = n THEN at[i] ELSE at[i] + 2^ByteBits * word[i + 1]
    IN  word[1]

(* reg_r_align32: left-align the field in its byte, then bring it back     *)
(* down with or without its sign; a word without sign is taken as it is.   *)
Fetched(r, at) ==
    LET f == Registers[r]
        aligned == (at[1] * 2^(ByteBits - f.leng - f.offs)) % 2^ByteBits
        field == aligned \div 2^(ByteBits - f.leng)
        word == Word(Size(r), at)
    IN  IF OneByte(r) THEN IF f.sign THEN Signed(field, f.leng) ELSE field
        ELSE IF f.sign THEN Signed(word % 2^f.leng, f.leng) ELSE Signed(word, Word32)

\* Fault: the bits of the other fields are not read.
AlignedBlind(r, v, at) ==
    LET f == Registers[r]
    IN  IF OneByte(r)
        THEN <<(v % 2^f.leng) * 2^f.offs>>
        ELSE [i \in 1 .. Size(r) |-> (v \div 2^(ByteBits * (i - 1))) % 2^ByteBits]

(* reg_w_align32: the bytes to write for value v, given the bytes there.   *)
Aligned(r, v, at) ==
    LET f == Registers[r]
    IN  IF OneByte(r)
        THEN <<(at[1] \div 2^(f.offs + f.leng)) * 2^(f.offs + f.leng)
               + (v % 2^f.leng) * 2^f.offs + (at[1] % 2^f.offs)>>
        ELSE [i \in 1 .. Size(r) |-> (v \div 2^(ByteBits * (i - 1))) % 2^ByteBits]

----------------------------------------------------------------------------
(* lgw_connect(spi_only).  Opening the link pulses the reset pin of both   *)
(* chips; an error after that leaves the link open with the page cached    *)
(* before.  The soft reset is of the concentrator.                         *)
Reset(regs, d) ==
    /\ page' = 0
    /\ bytes' = [c \in AllCells |-> IF c[1] = FPGA /\ regs # Names THEN bytes[c] ELSE 0]
    /\ Vouch([r \in Names |-> IF r \in regs THEN 0 ELSE value[r]], d)

OpenFails ==
    /\ link' = IF link = "open" THEN "dangling" ELSE "none"
    /\ UNCHANGED <<cached, page, bytes, value, doubt>>

OpensOnly ==
    /\ link' = "open" /\ Reset(Names, IF cached \in {-1, 0} THEN {} ELSE OnChip)
    /\ UNCHANGED cached

Opens == link' = "open" /\ Reset(Names, {}) /\ cached' = 0

Connect == link # "dangling" /\ (OpenFails \/ OpensOnly \/ Opens)

Disconnect == link = "open" /\ link' = "none" /\ UNCHANGED <<cached, page, bytes, value, doubt>>

(* The checks in front of every access.                                    *)
Connected == link = "open" /\ cached >= 0
Reachable(r) == link = "open" /\ (Registers[r].page = FPGA \/ cached >= 0)

(* lgw_soft_reset: the write is not checked and the cache is reset anyway. *)
SoftReset ==
    /\ Connected
    /\ cached' = 0
    /\ \/ Reset(OnChip, doubt \ OnChip)
       \/ Vouch(value, IF page = 0 THEN doubt ELSE doubt \cup OnChip) /\ UNCHANGED <<page, bytes>>
    /\ UNCHANGED link

(* page_switch: the page is cached whether the write reached the chip.     *)
PageSwitch(p, reached) ==
    /\ cached' = p
    /\ page' = IF reached THEN p ELSE page

OutOfStep == cached' # page'

WritePageReg(p) ==
    /\ Connected
    /\ \E reached \in BOOLEAN :
          PageSwitch(p, reached) /\ Vouch(value, IF OutOfStep THEN doubt \cup OnChip ELSE doubt)
    /\ UNCHANGED <<link, bytes>>

(* The page an access needs is selected if it is not the cached one.       *)
Select(r, reached) ==
    IF Paged(r) /\ Registers[r].page # cached THEN PageSwitch(Registers[r].page, reached)
                                             ELSE reached /\ UNCHANGED <<cached, page>>

(* What the cells of r hold, zero where no register is, and the memory     *)
(* once they hold new.                                                     *)
Held(r, at) == [i \in 1 .. Size(r) |-> IF at[i] \in AllCells THEN bytes[at[i]] ELSE 0]

Stored(r, at, new) ==
    [c \in AllCells |-> IF \E i \in 1 .. Size(r) : at[i] = c
                        THEN new[CHOOSE i \in 1 .. Size(r) : at[i] = c] ELSE bytes[c]]

(* lgw_reg_w and lgw_fpga_reg_w of a writable register.                    *)
RegW(r, v) ==
    /\ Reachable(r)
    /\ \E reached \in BOOLEAN :
          /\ Select(r, reached)
          /\ LET at == Cells(r, page')
             IN  bytes' = Stored(r, at, Aligned(r, v, Held(r, at)))
          /\ Vouch([value EXCEPT ![r] = v],
                   IF Paged(r) /\ OutOfStep THEN doubt \cup OnChip ELSE doubt \ {r})
    /\ UNCHANGED link

(* A data transfer of it fails and the call reports an error.  If it was   *)
(* the read of a read-modify-write, the byte is written over zero.         *)
RegWFails(r, v) ==
    /\ Reachable(r)
    /\ Select(r, TRUE)
    /\ LET at == Cells(r, page')
       IN  \/ UNCHANGED bytes
           \/ /\ OneByte(r) /\ Registers[r].leng < ByteBits
              /\ at[1] \in AllCells
              /\ bytes' = [bytes EXCEPT ![at[1]] = Aligned(r, v, <<0>>)[1]]
    /\ Vouch(value, doubt \cup {q \in Names : /\ Registers[q].page = Registers[r].page
                                              /\ Registers[q].addr = Registers[r].addr})
    /\ UNCHANGED link

(* lgw_reg_r, lgw_reg_rb and lgw_reg_wb of a data port select a page.      *)
RegR(r) ==
    /\ Reachable(r)
    /\ \E reached \in BOOLEAN :
          Select(r, reached) /\ Vouch(value, IF OutOfStep THEN doubt \cup OnChip ELSE doubt)
    /\ UNCHANGED <<link, bytes>>

RNext ==
    \/ Connect \/ Disconnect \/ SoftReset
    \/ \E p \in Pages : WritePageReg(p)
    \/ \E r \in Names : RegR(r) \/ \E v \in Values(r) : RegW(r, v) \/ RegWFails(r, v)

RSpec == RInit /\ [][RNext]_regVars

----------------------------------------------------------------------------
(* Reading a register gives what it was last told to hold, whatever was    *)
(* read, written or reset in between, on its page and on others, unless a  *)
(* transfer that touched its byte failed or a page switch was lost.        *)
WrittenIsRead ==
    \A r \in Names \ doubt :
        LET at == Cells(r, IF Paged(r) /\ Registers[r].page # cached THEN Registers[r].page ELSE page)
        IN  Reachable(r) => Fetched(r, [i \in 1 .. Size(r) |-> bytes[at[i]]]) = value[r]
=============================================================================
