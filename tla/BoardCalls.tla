----------------------------- MODULE BoardCalls -----------------------------
(***************************************************************************)
(* The calls of libedt that set registers of the board, each as the        *)
(* sequence of accesses to the board that it makes (edtApp/lib/libedt.c).  *)
(* An access is one ioctl, or one access through the mapped registers.     *)
(*                                                                         *)
(* A register is the set of its bits, by name; a field that is written as  *)
(* a whole is a set of possible contents.  What the bits of the headers    *)
(* are worth is not in the sources: EDT_DMA_CFG and EDT_DMA_INTCFG are     *)
(* taken for one register, the first word of EDT_DMA_CFG for the bit       *)
(* EDT_RFIFO_ENB, the other names for different bits.  Reads whose result  *)
(* is not used are left out.                                               *)
(***************************************************************************)
EXTENDS Integers, SequencesExt

Channels == {"ch0", "ch1"}
ChipBits == {"data", "clk", "selav"}       \* of the AV9110 clock chip
SynthBits == {"byp", "sclk", "dat", "stb"} \* of the MC12430 synthesizer
Tags == {"a", "b"}                         \* two settings of an action
Names(channel) == IF channel = 0 THEN {"a0", "b0"} ELSE {"a1", "b1"}

Bits == [FUNCT        |-> ChipBits \cup {"swapend", "avsel", "user"},
         PLL_CTL      |-> ChipBits \cup {"user"},
         OUT_SCALE    |-> {"set"}, REF_SCALE |-> {"set"},
         PAL1         |-> {"swallow0", "user"},
         PAL2         |-> SynthBits \cup {"swallow1", "user"},
         CMD          |-> {"enable", "dir", "stat_int_1", "user"},
         STAT_POLARITY |-> {"stat_int_ena", "low0", "low1"},
         CONFIG       |-> {"byteswap", "user"},
         DIRA         |-> {"out", "in"}, DIRECTION |-> {"out"},
         CHEN         |-> Channels,
         DMA_CFG      |-> {"rfifo_enb", "empty_fifo", "user"} \cup Channels,
         CFG          |-> {"fifo_reset", "user"},
         PDV_CMD      |-> {"reset_intfc"},
         DATA_PATH    |-> {"continuous", "user"},
         INTR_MASK    |-> {"rmt_en_intr", "pci_en_intr", "user"},
         DRV_BUFFER   |-> {"mmap", "persistent"},
         MEZZ_BITPATH |-> Names(0) \cup Names(1),
         BITPATH      |-> Tags, LAST_BITPATH |-> Tags,
         READ_START_DELAYS |-> Tags, READ_STARTACT |-> Tags,
         READ_END_DELAYS |-> Tags, READ_ENDACT |-> Tags,
         WRITE_START_DELAYS |-> Tags, WRITE_STARTACT |-> Tags,
         WRITE_END_DELAYS |-> Tags, WRITE_ENDACT |-> Tags,
         READ_COMMAND |-> {"en_att", "user"}, WRITE_COMMAND |-> {"en_att", "user"},
         ABORTDMA_ONINTR |-> {"flag"}, CUSTOMER |-> {"flag"}]
Regs == DOMAIN Bits
AllBits == UNION {Bits[r] : r \in Regs}

-----------------------------------------------------------------------------
(* Accesses.  "get" takes a copy of the register, "put" changes the copy    *)
(* and writes it; "save" and "restore" do so with a second copy.  "change"  *)
(* is done at once by the driver, "again" sets bits the copy has, "store"   *)
(* looks at nothing.  "select" sets the offset that mapped accesses use.    *)
(* The bits an access is meant to change are its own.                       *)
Access(op, r, set, clear) ==
  [op |-> op, reg |-> r, set |-> set, clear |-> clear, means |-> set \cup clear, pio |-> FALSE]

edt_reg_read(r) == Access("get", r, {}, {})
edt_reg_write(r, set, clear) == Access("put", r, set, clear)
edt_reg_or(r, set) == Access("change", r, set, {})
edt_reg_and(r, clear) == Access("change", r, {}, clear)
edt_reg_clearset(r, mask) == edt_reg_or(r, mask)   \* off, then on, in one ioctl
edt_reg_setclear(r, mask) == edt_reg_and(r, mask)  \* on, then off
Store(r, value) == Access("store", r, value, Bits[r])
Save(r) == Access("save", r, {}, {})
Restore(r, clear, means) == [Access("restore", r, {}, clear) EXCEPT !.means = means]

(* Nothing is loaded into the clock chips.                                  *)
NoLoad == [av |-> <<>>, synth |-> <<>>]

(* A function by its values, which TLC then computes once.                  *)
Table(Op(_), S) == FoldSet(LAMBDA x, table : (x :> Op(x)) @@ table, <<>>, S)

Pio(access) == [access EXCEPT !.pio = TRUE]
Select(r) == Pio(Access("select", r, {}, {}))

(* edt_set_funct_bit, edt_clr_funct_bit and those of the PLL register: two  *)
(* ioctls.                                                                  *)
SetBit(r, mask) == <<edt_reg_read(r), edt_reg_write(r, mask, {})>>
ClrBit(r, mask) == <<edt_reg_read(r), edt_reg_write(r, {}, mask)>>
Turn(r, mask, on) == IF on THEN SetBit(r, mask) ELSE ClrBit(r, mask)

-----------------------------------------------------------------------------
(* Clock chips.                                                             *)
AvReg(pcd) == IF pcd THEN "FUNCT" ELSE "PLL_CTL"

LowBit(data, i) == (data \div 2 ^ i) % 2 = 1
LowFirst(data, numbits) == [i \in 1 .. numbits |-> LowBit(data, i - 1)]

(* Faulty variant: the high bit first.                                      *)
ShiftHighFirst(r, data, numbits) ==
  FlattenSeq([i \in 1 .. numbits |->
    Turn(r, {"data"}, LowBit(data, numbits - i)) \o SetBit(r, {"clk"}) \o ClrBit(r, {"clk"})])

shft_av9110(r, data, numbits) ==
  FlattenSeq([i \in 1 .. numbits |->
    Turn(r, {"data"}, LowBit(data, i - 1)) \o SetBit(r, {"clk"}) \o ClrBit(r, {"clk"})])

(* The output divide and its number of bits; an illegal one gets seven.     *)
Divides == {1, 2, 4, 8}
DivideBits(r) == CASE r = 1 -> <<368, 9>> [] r = 2 -> <<372, 9>> [] r = 4 -> <<376, 9>>
                   [] r = 8 -> <<380, 9>> [] OTHER -> <<92, 7>>

edt_set_out_clk(pcd, pll) ==
  LET r == AvReg(pcd) IN
  <<Store("OUT_SCALE", {"set"}), Store("REF_SCALE", {"set"}), Save(r)>>
  \o SetBit(r, {"selav"}) \o ClrBit(r, {"clk"})
  \o shft_av9110(r, pll.n, 7) \o shft_av9110(r, pll.m, 7)
  \o shft_av9110(r, IF pll.v = 1 THEN 0 ELSE 1, 1)
  \o shft_av9110(r, DivideBits(pll.r)[1], DivideBits(pll.r)[2])
  \o <<Restore(r, {"selav"}, ChipBits)>>

(* All of the function register but SWAPEND is overwritten.                 *)
sse_wpp(val) ==
  <<edt_reg_read("FUNCT"), edt_reg_write("FUNCT", val, Bits.FUNCT \ {"swapend"})>>

(* The PAL registers are written from the copies, with these chip bits.     *)
sse_spal(set) ==
  <<edt_reg_write("PAL1", {}, {}), edt_reg_write("PAL2", set, SynthBits)>>

(* 14 bits, the high one first; code 6 in the top three is bypass.          *)
Bypass(val) == val \div 2 ^ 11 = 6
HighFirst(val) == [i \in 1 .. 14 |-> LowBit(val, 14 - i)]

sse_xosc(val) ==
  <<edt_reg_read("PAL1"), edt_reg_read("PAL2")>> \o sse_wpp({})
  \o FlattenSeq([i \in 1 .. 14 |->
       LET dat == IF HighFirst(val)[i] THEN {"dat"} ELSE {}
       IN sse_spal(dat) \o sse_spal(dat \cup {"sclk"})])
  \o sse_spal({"stb"}) \o sse_spal({})
  \o IF Bypass(val) THEN sse_spal({"byp"}) \o sse_wpp({"avsel"}) ELSE sse_wpp({})

(* The synthesizer's code for a frequency in MHz; below 50 the AV9110 is    *)
(* loaded (with a setting found by floating-point search) and bypassed to.  *)
Setting(fx) == CASE fx > 400 -> <<0, 3, fx \div 2>> [] fx \in 201 .. 400 -> <<0, 0, fx>>
               [] fx \in 101 .. 200 -> <<0, 1, fx * 2>> [] fx \in 50 .. 100 -> <<0, 2, fx * 4>>
               [] OTHER -> <<6, 3, 200>>
Code(fx) == Setting(fx)[1] * 2 ^ 11 + Setting(fx)[2] * 2 ^ 9 + Setting(fx)[3]
sse_set_out_clk(fx, pll) ==
  (IF fx < 50 THEN edt_set_out_clk(TRUE, pll) ELSE <<>>) \o sse_xosc(Code(fx))

(* A clock is swallowed by each strobe.                                     *)
Strobes(r, bit, shift) ==
  ClrBit(r, {bit})
  \o FlattenSeq([i \in 1 .. shift |-> <<edt_reg_write(r, {bit}, {}), edt_reg_write(r, {}, {bit})>>])
sse_shift(shift) == Strobes("PAL1", "swallow0", shift)
sse_shift_chan(shift, channel) ==
  IF channel = 0 THEN Strobes("PAL1", "swallow0", shift) ELSE Strobes("PAL2", "swallow1", shift)

-----------------------------------------------------------------------------
(* Direction, fifos and channels.                                           *)
edt_set_direction(pcd, write) ==
  <<edt_reg_read("DMA_CFG")>>
  \o (IF pcd THEN <<Store("DIRECTION", IF write THEN {"out"} ELSE {})>> ELSE <<>>)
  \o <<edt_reg_write("DMA_CFG", {"rfifo_enb"}, {})>>

edt_flush_fifo(pcd) ==
  <<edt_reg_read("DMA_CFG"), edt_reg_write("DMA_CFG", {}, {"rfifo_enb"})>>
  \o (IF pcd
      THEN <<edt_reg_read("CMD"), edt_reg_write("CMD", {}, {"enable"}),
             edt_reg_write("CMD", {"enable"}, {})>>
      ELSE <<edt_reg_read("DATA_PATH"), edt_reg_read("CFG"),
             edt_reg_write("CFG", {"fifo_reset"}, {}), Store("PDV_CMD", {"reset_intfc"}),
             edt_reg_write("CFG", {}, {"fifo_reset"}),
             Access("again", "DATA_PATH", {"continuous"}, {})>>)
  \o <<edt_reg_write("DMA_CFG", {"rfifo_enb"}, {})>>

(* The channel number is a field: the other channel's bit is cleared.       *)
edt_flush_channel(channel) ==
  <<edt_reg_read("DMA_CFG"),
    edt_reg_write("DMA_CFG", {channel, "rfifo_enb"}, Channels \cup {"empty_fifo"}),
    edt_reg_write("DMA_CFG", {"empty_fifo"}, {}), edt_reg_write("DMA_CFG", {}, {"empty_fifo"})>>

(* Faulty variant: the channel is not enabled again.                        *)
FlushChannelLeavesOff(channel) ==
  <<edt_reg_read("CHEN"), edt_reg_write("CHEN", {}, {channel})>> \o edt_flush_channel(channel)

pcd_flush_channel(channel) ==
  <<edt_reg_read("CHEN"), edt_reg_write("CHEN", {}, {channel})>>
  \o edt_flush_channel(channel) \o <<edt_reg_write("CHEN", {channel}, {})>>

(* edt_set_continuous: the data path as the configuration has it, then the  *)
(* driver changes the bit.                                                  *)
edt_set_continuous(on) ==
  <<Store("DATA_PATH", {"user"}),
    IF on THEN edt_reg_or("DATA_PATH", {"continuous"}) ELSE edt_reg_and("DATA_PATH", {"continuous"})>>

edt_enable_channels(mask) == <<edt_reg_or("CHEN", mask)>>
edt_disable_channels(mask) == <<edt_reg_and("CHEN", mask)>>
edt_enable_channel(channel) == <<edt_reg_or("CHEN", {channel})>>
edt_disable_channel(channel) == <<edt_reg_and("CHEN", {channel})>>

-----------------------------------------------------------------------------
(* Command, function and configuration registers of a PCD board.            *)
pcd_set_cmd(val) == <<Store("CMD", val)>>
pcd_set_funct(val) == <<Store("FUNCT", val)>>
pcd_set_stat_polarity(val) ==
  <<edt_reg_read("STAT_POLARITY"), edt_reg_write("STAT_POLARITY", val, {"low0", "low1"})>>
pcd_set_byteswap(on) == Turn("CONFIG", {"byteswap"}, on)

(* Interrupts from the board: the mask is read and set by two ioctls.       *)
edt_set_remote_intr(on) ==
  <<edt_reg_read("INTR_MASK"),
    edt_reg_write("INTR_MASK", IF on THEN {"rmt_en_intr", "pci_en_intr"} ELSE {}, {"rmt_en_intr"})>>

pcd_set_abortdma_onintr(on) ==
  IF on THEN <<Store("ABORTDMA_ONINTR", {"flag"}), edt_reg_or("CMD", {"stat_int_1", "enable"}),
               edt_reg_or("STAT_POLARITY", {"stat_int_ena"})>> \o edt_set_remote_intr(TRUE)
  ELSE <<edt_reg_and("CMD", {"stat_int_1"}), Store("ABORTDMA_ONINTR", {})>>

(* Programmed I/O: an offset, then the data at that offset.                 *)
pcd_pio_intfc_write(access) == <<Select(access.reg), Pio(access)>>
pcd_pio_intfc_read(r) == <<Select(r), Pio(edt_reg_read(r))>>
pcd_pio_quick_flush ==
  <<edt_reg_read("DMA_CFG"), edt_reg_write("DMA_CFG", {}, {"rfifo_enb"}),
    edt_reg_write("DMA_CFG", {"rfifo_enb"}, {})>>

(* Faulty variant: the offset is not set again for the second register.     *)
PioDirectionSelectsOnce(write) ==
  pcd_pio_intfc_read("CMD")
  \o pcd_pio_intfc_write(Store("DIRA", IF write THEN {"out"} ELSE {"in"}))
  \o <<Pio(IF write THEN edt_reg_write("CMD", {"enable"}, {"dir"})
           ELSE edt_reg_write("CMD", {"dir", "enable"}, {}))>>

pcd_pio_set_direction(write) ==
  pcd_pio_intfc_read("CMD")
  \o pcd_pio_intfc_write(Store("DIRA", IF write THEN {"out"} ELSE {"in"}))
  \o pcd_pio_intfc_write(IF write THEN edt_reg_write("CMD", {"enable"}, {"dir"})
                         ELSE edt_reg_write("CMD", {"dir", "enable"}, {}))

pcd_pio_flush_fifo ==
  pcd_pio_intfc_read("CMD")
  \o <<Pio(edt_reg_write("CMD", {}, {"enable"})), Pio(edt_reg_write("CMD", {"enable"}, {}))>>
  \o pcd_pio_quick_flush

(* P11W boards: commands of the two directions.                             *)
p11w_set_abortdma_onintr(on) ==
  LET commands == Turn("READ_COMMAND", {"en_att"}, on) \o Turn("WRITE_COMMAND", {"en_att"}, on)
      flag == <<Store("ABORTDMA_ONINTR", IF on THEN {"flag"} ELSE {})>>
  IN IF on THEN flag \o commands ELSE commands \o flag
p11w_abortdma_onattn(on) ==
  Turn("READ_COMMAND", {"en_att"}, on) \o <<Store("CUSTOMER", IF on THEN {"flag"} ELSE {})>>

-----------------------------------------------------------------------------
(* What the driver keeps for the library.                                   *)
edt_set_mmap_buffers(on) ==
  <<edt_reg_read("DRV_BUFFER"), edt_reg_write("DRV_BUFFER", IF on THEN {"mmap"} ELSE {}, {"mmap"})>>
edt_set_persistent_buffers(on) ==
  <<edt_reg_read("DRV_BUFFER"),
    edt_reg_write("DRV_BUFFER", IF on THEN {"persistent"} ELSE {}, {"persistent"})>>

(* The two names are kept in one string: both are read, each by an ioctl of *)
(* its own, and the string is written; only what is used is read here.      *)
edt_set_mezz_chan_bitpath(name, channel) ==
  <<edt_reg_read("MEZZ_BITPATH")>>
  \o <<edt_reg_write("MEZZ_BITPATH", {name}, Names(channel))>>

edt_set_mezz_bitpath(name) == <<Store("MEZZ_BITPATH", {name})>>

(* The name of the board's bitfile is kept in the driver and in a file.     *)
edt_set_last_bitpath(name) == <<Store("LAST_BITPATH", {name})>>
edt_set_bitpath(name) == <<Store("BITPATH", {name})>> \o edt_set_last_bitpath(name)

(* Actions of the board around a transfer: the delays, then the action.     *)
edt_read_start_action(tag) == <<Store("READ_START_DELAYS", {tag}), Store("READ_STARTACT", {tag})>>
edt_read_end_action(tag) == <<Store("READ_END_DELAYS", {tag}), Store("READ_ENDACT", {tag})>>
edt_write_start_action(tag) == <<Store("WRITE_START_DELAYS", {tag}), Store("WRITE_STARTACT", {tag})>>
edt_write_end_action(tag) == <<Store("WRITE_END_DELAYS", {tag}), Store("WRITE_ENDACT", {tag})>>
=============================================================================
