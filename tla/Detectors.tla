----------------------------- MODULE Detectors -----------------------------
(* What the runner sees in a frame of the screen: how a frame is copied out  *)
(* of the PipeWire buffer (wayland/src/portal.rs), how its pixels are read,   *)
(* and what the two detectors of core/src/screen_state.rs make of a region.   *)
(*                                                                           *)
(* f32/f64 arithmetic is carried in thousandths: scales and metric scales     *)
(* are given in thousandths, angles in whole degrees with sines to three      *)
(* places, which places a probe within a twentieth of a pixel for radii up    *)
(* to 100.  `NONE' stands for Rust's None.                                   *)
EXTENDS Integers, Sequences, FiniteSetsExt

CONSTANT NONE

--------------------------------------------------------------------------
(* The values a script's detectors are made of: lengths are unsigned.         *)

RoiType == [x : Nat, y : Nat, w : Nat, h : Nat]

RegionType == [kind : {"ClockProbe"}, angle : Int, radius : Nat, w : Nat, h : Nat]
         \cup [kind : {"AnnulusArc"}, inner : Nat, outer : Nat, start : Int, end : Int]
         \cup [kind : {"AggregateMask"}]

RuleType == [phase : {"Ready", "Activated", "Active", "Recovering", "Unknown"}, region : RegionType,
             minLuminance : 0..255 \cup {NONE}, maxLuminance : 0..255 \cup {NONE},
             minSaturation : 0..255 \cup {NONE}, maxSaturation : 0..255 \cup {NONE},
             metric : {"Average", "BrightRatio"}, fill : {"Empty", "Fraction", "Full"},
             scale : Int \cup {NONE}, maxFill : Int \cup {NONE}]

DetectorType == [kind : {"HorizontalProgressBar"}, roi : RoiType]
           \cup [kind : {"RadialCooldown"}, roi : RoiType, mask : Nat \cup {NONE},
                 prediction : [duration : Nat, stable : Nat] \cup {NONE}, order : Seq(RuleType)]

--------------------------------------------------------------------------
(* Pixels.  A format is its bytes per pixel and where red, green and blue    *)
(* are among them.                                                           *)

Formats == [Luma8    |-> [bytes |-> 1, rgb |-> <<1, 1, 1>>],
            Rgb888   |-> [bytes |-> 3, rgb |-> <<1, 2, 3>>],
            Bgr888   |-> [bytes |-> 3, rgb |-> <<3, 2, 1>>],
            Rgba8888 |-> [bytes |-> 4, rgb |-> <<1, 2, 3>>],
            Bgra8888 |-> [bytes |-> 4, rgb |-> <<3, 2, 1>>],
            Rgbx8888 |-> [bytes |-> 4, rgb |-> <<1, 2, 3>>],
            Bgrx8888 |-> [bytes |-> 4, rgb |-> <<3, 2, 1>>]]

ScreenPixelFormat == [GRAY8 |-> "Luma8", RGB |-> "Rgb888", BGR |-> "Bgr888", RGBA |-> "Rgba8888",
                      BGRA |-> "Bgra8888", RGBx |-> "Rgbx8888", BGRx |-> "Bgrx8888"]

\* A frame the process callback dequeues, copied into a sample of its own or refused.
CopyFrame(buffer) ==
  LET format == Formats[ScreenPixelFormat[buffer.format]]
  IN IF /\ buffer.kind \in {"MemPtr", "MemFd"} /\ buffer.readable /\ buffer.mapped
        /\ buffer.format \in DOMAIN ScreenPixelFormat
        /\ buffer.width > 0 /\ buffer.height > 0
        /\ buffer.stride > 0 /\ buffer.stride >= buffer.width * format.bytes
        /\ buffer.offset + buffer.height * buffer.stride <= Len(buffer.bytes)
     THEN [width |-> buffer.width, height |-> buffer.height, stride |-> buffer.stride,
           format |-> ScreenPixelFormat[buffer.format],
           pixels |-> SubSeq(buffer.bytes, buffer.offset + 1,
                             buffer.offset + buffer.height * buffer.stride)]
     ELSE NONE

\* A mistake: rows without their padding.
ChannelsUnpadded(sample, at) ==
  LET format == Formats[sample.format]
      start  == (at[2] * sample.width + at[1]) * format.bytes
  IN [c \in 1..3 |-> sample.pixels[start + format.rgb[c]]]

Channels(sample, at) ==
  LET format == Formats[sample.format]
      start  == at[2] * sample.stride + at[1] * format.bytes
  IN [c \in 1..3 |-> sample.pixels[start + format.rgb[c]]]

Least(a, b) == IF a < b THEN a ELSE b
Most(a, b)  == IF a > b THEN a ELSE b

RgbLuminance(rgb) == (rgb[1] * 299 + rgb[2] * 587 + rgb[3] * 114) \div 1000

LuminancePercent(sample, at) ==
  LET luminance == RgbLuminance(Channels(sample, at))
  IN Least(100, IF sample.format = "Luma8" THEN luminance ELSE (luminance * 100) \div 255)

Saturation(sample, at) == LET rgb == Channels(sample, at)
                          IN Max({rgb[1], rgb[2], rgb[3]}) - Min({rgb[1], rgb[2], rgb[3]})

HorizontalProgressPixelFilled(sample, at) ==
  LET rgb      == Channels(sample, at)
      warmBias == (rgb[1] + rgb[2]) \div 2 - rgb[3]
  IN RgbLuminance(rgb) >= 220 \/ (RgbLuminance(rgb) > 35 /\ warmBias > 8)

--------------------------------------------------------------------------
(* Regions.                                                                  *)

Cells(roi) == {<<x, y>> : x \in roi.x..(roi.x + roi.w - 1), y \in roi.y..(roi.y + roi.h - 1)}

\* The region is inside the sample and the sample has all its rows.
Readable(sample, roi) ==
  /\ Len(sample.pixels) > 0 /\ sample.width > 0 /\ sample.height > 0
  /\ roi.x + roi.w <= sample.width /\ roi.y + roi.h <= sample.height
  /\ sample.stride >= sample.width * Formats[sample.format].bytes
  /\ \A at \in Cells(roi) :
       at[2] * sample.stride + (at[1] + 1) * Formats[sample.format].bytes <= Len(sample.pixels)

InCircularMask(inset, roi, at) ==
  LET cut == Least(inset, Least(roi.w \div 2, roi.h \div 2))
      rx  == roi.w - cut * 2
      ry  == roi.h - cut * 2
      dx  == (at[1] - roi.x) * 2 - (roi.w - 1)
      dy  == (at[2] - roi.y) * 2 - (roi.h - 1)
  IN \/ inset = NONE
     \/ rx # 0 /\ ry # 0 /\ dx * dx * ry * ry + dy * dy * rx * rx <= rx * rx * ry * ry

\* 1000 sin d for 0 <= d <= 90.
Sines == << 0, 17, 35, 52, 70, 87, 105, 122, 139, 156, 174, 191, 208, 225, 242, 259, 276, 292, 309,
            326, 342, 358, 375, 391, 407, 423, 438, 454, 469, 485, 500, 515, 530, 545, 559, 574,
            588, 602, 616, 629, 643, 656, 669, 682, 695, 707, 719, 731, 743, 755, 766, 777, 788,
            799, 809, 819, 829, 839, 848, 857, 866, 875, 883, 891, 899, 906, 914, 921, 927, 934,
            940, 946, 951, 956, 961, 966, 970, 974, 978, 982, 985, 988, 990, 993, 995, 996, 998,
            999, 999, 1000, 1000 >>

Sine(degrees) == LET d == degrees % 360
                     q == d % 90
                 IN CASE d < 90  -> Sines[q + 1]
                      [] d < 180 -> Sines[91 - q]
                      [] d < 270 -> -Sines[q + 1]
                      [] OTHER   -> -Sines[91 - q]
Cosine(degrees) == Sine(degrees + 90)

\* f32::round: halves away from zero.
Round(thousandths) == IF thousandths >= 0 THEN (thousandths + 500) \div 1000
                      ELSE -((500 - thousandths) \div 1000)

\* The probe's rectangle on the clock face inscribed in the region, NONE when it sticks out.
ClockProbeRect(roi, probe) ==
  LET left == Round(1000 * roi.x + 500 * (roi.w - probe.w) + Sine(probe.angle) * probe.radius)
      top  == Round(1000 * roi.y + 500 * (roi.h - probe.h) - Cosine(probe.angle) * probe.radius)
  IN IF \/ probe.radius = 0 \/ probe.w = 0 \/ probe.h = 0
        \/ left < roi.x \/ left + probe.w > roi.x + roi.w
        \/ top < roi.y  \/ top + probe.h > roi.y + roi.h
     THEN NONE ELSE [x |-> left, y |-> top, w |-> probe.w, h |-> probe.h]

\* The quarter of the clock a direction is in: noon to three is 0, and the centre counts as six.
Quarter(dx, dy) == CASE dx >= 0 /\ dy < 0 -> 0
                     [] dx > 0 /\ dy >= 0 -> 1
                     [] dx <= 0 /\ (dy > 0 \/ (dx = 0 /\ dy = 0)) -> 2
                     [] OTHER -> 3

\* How far past `degrees' on the clock a direction is: negative, zero or positive.
PastDegrees(dx, dy, degrees) ==
  IF Quarter(dx, dy) # degrees \div 90 THEN Quarter(dx, dy) - degrees \div 90
  ELSE Sine(degrees) * dy + Cosine(degrees) * dx

InClockArc(dx, dy, start, end) ==
  LET from  == PastDegrees(dx, dy, start % 360) >= 0
      until == PastDegrees(dx, dy, end % 360) <= 0
  IN IF start % 360 <= end % 360 THEN from /\ until ELSE from \/ until

InAnnulusArc(roi, arc, at) ==
  LET dx == (at[1] - roi.x) * 2 - (roi.w - 1)
      dy == (at[2] - roi.y) * 2 - (roi.h - 1)
  IN /\ dx * dx + dy * dy >= 4 * arc.inner * arc.inner
     /\ dx * dx + dy * dy <= 4 * arc.outer * arc.outer
     /\ InClockArc(dx, dy, arc.start, arc.end)

InSampleRegion(region, roi, at) ==
  CASE region.kind = "ClockProbe" -> LET rect == ClockProbeRect(roi, region)
                                     IN rect # NONE /\ at \in Cells(rect)
    [] region.kind = "AnnulusArc" -> InAnnulusArc(roi, region, at)
    [] OTHER -> TRUE

--------------------------------------------------------------------------
(* A frame may be larger than the logical screen the script was written for. *)

\* f64::round of a length times a scale, then max(1) for what must not vanish.
Times(length, thousandths) == (length * thousandths + 500) \div 1000
AtLeastOne(length) == Most(1, length)
Uniform(scale)     == (scale.x + scale.y) \div 2

ScaledRoi(roi, scale) == [x |-> Times(roi.x, scale.x), y |-> Times(roi.y, scale.y),
                          w |-> AtLeastOne(Times(roi.w, scale.x)),
                          h |-> AtLeastOne(Times(roi.h, scale.y))]

ScaledRegion(region, scale) ==
  CASE region.kind = "ClockProbe" ->
         [region EXCEPT !.radius = AtLeastOne(Times(@, Uniform(scale))),
                        !.w = AtLeastOne(Times(@, scale.x)), !.h = AtLeastOne(Times(@, scale.y))]
    [] region.kind = "AnnulusArc" ->
         [region EXCEPT !.inner = AtLeastOne(Times(@, Uniform(scale))),
                        !.outer = AtLeastOne(Times(@, Uniform(scale)))]
    [] OTHER -> region

ScaledRule(rule, scale) == [rule EXCEPT !.region = ScaledRegion(@, scale)]

ScaledForSample(detector, scale) ==
  IF scale.x = 1000 /\ scale.y = 1000 THEN detector
  ELSE IF detector.kind = "HorizontalProgressBar"
  THEN [detector EXCEPT !.roi = ScaledRoi(@, scale)]
  ELSE [detector EXCEPT !.roi = ScaledRoi(@, scale),
                        !.mask = IF @ = NONE THEN NONE ELSE Times(@, Uniform(scale)),
                        !.order = [i \in DOMAIN @ |-> ScaledRule(@[i], scale)]]

\* The scale a window that covers the screen gives; any other window gives none.
CoordinateScale(sample, windows) ==
  LET full == {i \in DOMAIN windows : /\ windows[i].x = 0 /\ windows[i].y = 0
                                      /\ windows[i].w > 0 /\ windows[i].h > 0}
  IN IF full = {} THEN [x |-> 1000, y |-> 1000]
     ELSE [x |-> (sample.width * 1000) \div windows[Min(full)].w,
           y |-> (sample.height * 1000) \div windows[Min(full)].h]

--------------------------------------------------------------------------
(* The detectors.                                                            *)

Mean(values) == MapThenSumSet(LAMBDA at : values[at], DOMAIN values) \div Cardinality(DOMAIN values)
Ratio(part, whole) == (Cardinality(part) * 100) \div Cardinality(whole)

Within(value, minimum, maximum) == /\ minimum # NONE => value >= minimum
                                   /\ maximum # NONE => value <= maximum

RuleCells(detector, rule) ==
  {at \in Cells(detector.roi) :
     /\ InSampleRegion(rule.region, detector.roi, at)
     /\ rule.region.kind = "AggregateMask" => InCircularMask(detector.mask, detector.roi, at)}

\* The cells bright and saturated enough for a ratio rule; its maxima are not looked at.
BrightCells(sample, rule, cells) ==
  {at \in cells : /\ Within(LuminancePercent(sample, at), rule.minLuminance, NONE)
                  /\ Within(Saturation(sample, at), rule.minSaturation, NONE)}

RadialRuleMatches(sample, rule, cells) ==
  IF rule.metric = "BrightRatio" THEN Ratio(BrightCells(sample, rule, cells), cells) > 0
  ELSE LET light == [at \in cells |-> LuminancePercent(sample, at)]
           vivid == [at \in cells |-> Saturation(sample, at)]
       IN /\ Within(Mean(light), rule.minLuminance, rule.maxLuminance)
          /\ Within(Mean(vivid), rule.minSaturation, rule.maxSaturation)

\* An average rule leaves the bright ratio at 0, so its fraction is always 100.
CooldownFraction(sample, rule, cells) ==
  CASE rule.fill = "Empty" -> 100
    [] rule.fill = "Full"  -> 0
    [] OTHER ->
         LET bright == IF rule.metric = "BrightRatio"
                       THEN Ratio(BrightCells(sample, rule, cells), cells) ELSE 0
             scaled == Least(100, Times(bright, IF rule.scale = NONE THEN 1000 ELSE rule.scale))
         IN 100 - (IF rule.maxFill = NONE THEN scaled ELSE Least(scaled, Most(0, rule.maxFill)))

\* observed_percent: the share of a region that is filled; a grey frame is averaged instead.
ObservedPercent(sample, roi, cells) ==
  IF ~Readable(sample, roi) \/ cells = {} THEN NONE
  ELSE IF sample.format = "Luma8" THEN Mean([at \in cells |-> LuminancePercent(sample, at)])
  ELSE Ratio({at \in cells : HorizontalProgressPixelFilled(sample, at)}, cells)

ObserveBar(sample, detector) == ObservedPercent(sample, detector.roi, Cells(detector.roi))

\* A frame of a single grey pixel is the fraction itself.
ObserveOnePixel(sample, detector) ==
  LET masked  == {at \in Cells(detector.roi) : InCircularMask(detector.mask, detector.roi, at)}
      percent == ObservedPercent(sample, detector.roi, masked)
  IN IF percent = NONE THEN NONE
     ELSE [fraction |-> percent, phase |-> CASE percent <= 2  -> "Ready"
                                             [] percent >= 98 -> "Activated"
                                             [] OTHER         -> "Active"]

\* The first rule that matches, in order; a rule that reaches no pixel before that leaves
\* nothing observed at all.
ObserveRadial(sample, detector) ==
  LET cells(i)   == RuleCells(detector, detector.order[i])
      rules      == DOMAIN detector.order
      matches(i) == cells(i) # {} /\ RadialRuleMatches(sample, detector.order[i], cells(i))
      stops      == {i \in rules : cells(i) = {} \/ matches(i)}
      first      == Min(stops)
  IN IF sample.format = "Luma8" /\ Len(sample.pixels) = 1 THEN ObserveOnePixel(sample, detector)
     ELSE IF ~Readable(sample, detector.roi) THEN NONE
     ELSE IF stops = {} THEN [phase |-> "Unknown", fraction |-> 100]
     ELSE IF ~matches(first) THEN NONE
     ELSE [phase    |-> detector.order[first].phase,
           fraction |-> CooldownFraction(sample, detector.order[first], cells(first))]

\* What validate_for_roi lets through before any frame is looked at.
ValidForRoi(rule, roi) ==
  /\ \A limit \in {rule.minLuminance, rule.maxLuminance} : limit = NONE \/ limit \in 0..100
  /\ rule.scale = NONE \/ rule.scale > 0
  /\ CASE rule.region.kind = "ClockProbe" -> ClockProbeRect(roi, rule.region) # NONE
       [] rule.region.kind = "AnnulusArc" -> /\ rule.region.inner < rule.region.outer
                                             /\ 2 * rule.region.outer <= Least(roi.w, roi.h)
       [] OTHER -> TRUE

ValidDetector(detector) ==
  /\ detector.kind \in {"RadialCooldown", "HorizontalProgressBar"}
  /\ detector.roi.w > 0 /\ detector.roi.h > 0
  /\ detector.kind = "RadialCooldown" =>
       /\ detector.order # <<>>
       /\ \A i \in DOMAIN detector.order : ValidForRoi(detector.order[i], detector.roi)
       /\ detector.prediction # NONE => /\ detector.prediction.duration \in Nat \ {0}
                                        /\ detector.prediction.stable <= detector.prediction.duration
============================================================================
