---------------------------- MODULE CallEffects -----------------------------
(***************************************************************************)
(* What the calls of BoardCalls are for: what each does to each register   *)
(* when nobody interferes, and what it loads into the clock chips.  These  *)
(* are the calls of libedt that Board is about.                            *)
(***************************************************************************)
EXTENDS BoardCalls

CONSTANTS Plls,       \* settings of the AV9110 asked for
          Frequencies \* frequencies in MHz asked for

ASSUME CallEffectsAssumption ==
  /\ Plls \subseteq [n : 0 .. 127, m : 0 .. 127, v : {1, 8}, r : Nat]
  /\ Frequencies \subseteq 1 .. 800

On(r, set, clear) == [reg |-> r, set |-> set, clear |-> clear]
To(r, value) == On(r, value, Bits[r])
Call(prog, effects) == [prog |-> prog, effects |-> effects, load |-> NoLoad]
Flag(bit, on) == IF on THEN <<{bit}, {}>> ELSE <<{}, {bit}>>
OnFlag(r, bit, on) == On(r, Flag(bit, on)[1], Flag(bit, on)[2])

AvFrame(pll) == LowFirst(pll.n, 7) \o LowFirst(pll.m, 7) \o <<pll.v # 1>>
                \o LowFirst(368 + 4 * (CHOOSE k \in 0 .. 3 : 2 ^ k = pll.r), 9)
AvLoad(pll) == IF pll.r \in Divides THEN [NoLoad EXCEPT !.av = AvFrame(pll)] ELSE NoLoad

ClockCalls(pcd) ==
  {[Call(edt_set_out_clk(pcd, pll), {To("OUT_SCALE", {"set"}), To("REF_SCALE", {"set"}), On(AvReg(pcd), {}, {"selav"})})
      EXCEPT !.load = AvLoad(pll)] : pll \in Plls}

SynthCalls ==
  {LET low == fx < 50
   IN [Call(sse_set_out_clk(fx, pll),
            {On("FUNCT", IF low THEN {"avsel"} ELSE {}, Bits.FUNCT \ {"swapend"}), On("PAL1", {}, {}),
             On("PAL2", IF low THEN {"byp"} ELSE {}, SynthBits)}
            \cup IF low THEN {To("OUT_SCALE", {"set"}), To("REF_SCALE", {"set"})} ELSE {})
         EXCEPT !.load = [av |-> IF low THEN AvLoad(pll).av ELSE <<>>, synth |-> HighFirst(Code(fx))]] :
   fx \in Frequencies, pll \in Plls}

FlushEffects(channel) == {On("DMA_CFG", {channel, "rfifo_enb"}, Channels \cup {"empty_fifo"})}
Enabled == {On("CMD", {"enable"}, {}), On("DMA_CFG", {"rfifo_enb"}, {})}
Direction(write) == {To("DIRA", IF write THEN {"out"} ELSE {"in"}),
                     On("CMD", IF write THEN {"enable"} ELSE {"enable", "dir"}, {"dir"})}
RemoteIntr == On("INTR_MASK", {"rmt_en_intr", "pci_en_intr"}, {})

PcdCalls ==
  ClockCalls(TRUE) \cup SynthCalls
  \cup {Call(edt_flush_fifo(TRUE), Enabled), Call(pcd_pio_flush_fifo, Enabled),
        Call(sse_shift(2), {On("PAL1", {}, {"swallow0"})}),
        Call(pcd_set_cmd({"user"}), {To("CMD", {"user"})}),
        Call(pcd_set_funct({"user"}), {To("FUNCT", {"user"})}),
        Call(pcd_set_stat_polarity({"low1"}), {On("STAT_POLARITY", {"low1"}, {"low0", "low1"})}),
        Call(pcd_set_abortdma_onintr(TRUE),
             {To("ABORTDMA_ONINTR", {"flag"}), On("CMD", {"stat_int_1", "enable"}, {}),
              On("STAT_POLARITY", {"stat_int_ena"}, {}), RemoteIntr}),
        Call(pcd_set_abortdma_onintr(FALSE), {On("CMD", {}, {"stat_int_1"}), To("ABORTDMA_ONINTR", {})})}
  \cup {Call(pcd_flush_channel(ch), FlushEffects(ch) \cup {On("CHEN", {ch}, {})}) : ch \in Channels}
  \cup {Call(sse_shift_chan(1, 1), {On("PAL2", {}, {"swallow1"})})}
  \cup {Call(edt_set_direction(TRUE, write), {On("DMA_CFG", {"rfifo_enb"}, {}),
                                              OnFlag("DIRECTION", "out", write)}) : write \in BOOLEAN}
  \cup {Call(pcd_set_byteswap(on), {OnFlag("CONFIG", "byteswap", on)}) : on \in BOOLEAN}
  \cup {Call(Turn("FUNCT", {"user"}, on), {OnFlag("FUNCT", "user", on)}) : on \in BOOLEAN}
  \cup {Call(pcd_pio_set_direction(write), Direction(write)) : write \in BOOLEAN}

PdvCalls ==
  ClockCalls(FALSE)
  \cup {Call(edt_set_direction(FALSE, TRUE), {On("DMA_CFG", {"rfifo_enb"}, {})})}
  \cup {Call(edt_flush_fifo(FALSE), {On("DMA_CFG", {"rfifo_enb"}, {}), On("CFG", {}, {"fifo_reset"}),
                                      To("PDV_CMD", {"reset_intfc"}), On("DATA_PATH", {}, {})})}
  \cup {Call(edt_set_continuous(on), {To("DATA_PATH", {"user"} \cup Flag("continuous", on)[1])}) :
        on \in BOOLEAN}
  \cup {Call(Turn("PLL_CTL", {"user"}, on), {OnFlag("PLL_CTL", "user", on)}) : on \in BOOLEAN}

P11wCalls ==
  {Call(p11w_set_abortdma_onintr(on),
        {OnFlag("READ_COMMAND", "en_att", on), OnFlag("WRITE_COMMAND", "en_att", on),
         OnFlag("ABORTDMA_ONINTR", "flag", on)}) : on \in BOOLEAN}
  \cup {Call(p11w_abortdma_onattn(on), {OnFlag("READ_COMMAND", "en_att", on),
                                       OnFlag("CUSTOMER", "flag", on)}) : on \in BOOLEAN}

CommonCalls ==
  {Call(<<edt_reg_clearset("CMD", {"user"})>>, {On("CMD", {"user"}, {})}),
   Call(<<edt_reg_setclear("CMD", {"user"})>>, {On("CMD", {}, {"user"})}),
   Call(edt_set_mezz_bitpath("a0"), {To("MEZZ_BITPATH", {"a0"})})}
  \cup {Call(edt_set_bitpath(n), {To("BITPATH", {n}), To("LAST_BITPATH", {n})}) : n \in Tags}
  \cup {Call(edt_flush_channel(ch), FlushEffects(ch)) : ch \in Channels}
  \cup {Call(edt_enable_channel(ch), {On("CHEN", {ch}, {})}) : ch \in Channels}
  \cup {Call(edt_disable_channel(ch), {On("CHEN", {}, {ch})}) : ch \in Channels}
  \cup {Call(edt_enable_channels(Channels), {To("CHEN", Channels)}),
        Call(edt_disable_channels(Channels), {To("CHEN", {})})}
  \cup {Call(edt_set_remote_intr(TRUE), {RemoteIntr}),
        Call(edt_set_remote_intr(FALSE), {On("INTR_MASK", {}, {"rmt_en_intr"})})}
  \cup {Call(edt_set_mmap_buffers(on), {OnFlag("DRV_BUFFER", "mmap", on)}) : on \in BOOLEAN}
  \cup {Call(edt_set_persistent_buffers(on), {OnFlag("DRV_BUFFER", "persistent", on)}) : on \in BOOLEAN}
  \cup UNION {{Call(edt_set_mezz_chan_bitpath(n, ch), {On("MEZZ_BITPATH", {n}, Names(ch))}) :
               n \in Names(ch)} : ch \in {0, 1}}
  \cup {Call(edt_read_start_action("b"), {To("READ_START_DELAYS", {"b"}), To("READ_STARTACT", {"b"})}),
        Call(edt_read_end_action("b"), {To("READ_END_DELAYS", {"b"}), To("READ_ENDACT", {"b"})}),
        Call(edt_write_start_action("b"), {To("WRITE_START_DELAYS", {"b"}), To("WRITE_STARTACT", {"b"})}),
        Call(edt_write_end_action("b"), {To("WRITE_END_DELAYS", {"b"}), To("WRITE_ENDACT", {"b"})})}

(* The calls on a board of each kind, numbered.                             *)
CallsOf(k) ==
  CommonCalls \cup CASE k = "pcd" -> PcdCalls [] k = "pdv" -> PdvCalls [] k = "p11w" -> P11wCalls
LibedtCalls == Table(LAMBDA k : FoldSet(LAMBDA x, calls : Append(calls, x), <<>>, CallsOf(k)),
                     {"pcd", "pdv", "p11w"})
=============================================================================
