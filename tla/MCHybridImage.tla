--------------------------- MODULE MCHybridImage ---------------------------
(***************************************************************************)
(* Stubs as the linkers lay them out, for HybridImage: a Mach-O bundle     *)
(* with every amount of header slack up to MaxSlack, signed and unsigned,  *)
(* and a zero-fill section between its text and its __LINKEDIT in memory;  *)
(* an ELF shared object of several lengths; a PE with room for 0 to        *)
(* MaxRoom more section headers and an overlay that spoils its alignment;  *)
(* the last two with a section that takes memory and no bytes in the file. *)
(***************************************************************************)
EXTENDS HybridImage

CONSTANTS MaxSlack, MaxRoom, MaxText

MachoStub(slack, edit, signed) ==
    LET first == HeaderSize + 7 + (IF signed THEN SigLcSize ELSE 0) + slack
        start == RoundUp(first + 2, PageSize)
        total == edit + (IF signed THEN 1 ELSE 0)
        cmds == << Segment("__TEXT", 0, start, 0, start,
                           <<Section("__text", first, 2)>>),
                   Segment("__DATA", start, PageSize, start, 0,
                           <<Section("__bss", 0, PageSize)>>),
                   Segment("__LINKEDIT", start + PageSize, RoundUp(total, PageSize),
                           start, total, <<>>),
                   Pointing("table", "LC_SYMTAB", start + 1, edit - 1),
                   Pointing("table", "LC_FUNCTION_STARTS", 0, 0) >>
        sig == Pointing("signature", "", start + edit, 1)
    IN  [fmt |-> "macho",
         cmds |-> IF signed THEN Append(cmds, sig) ELSE cmds,
         ncmds |-> IF signed THEN 6 ELSE 5,
         bytes |-> Run("head", first) \o Run("text", 2) \o Zeros(start - first - 2)
                     \o Run("edit", edit)
                     \o (IF signed THEN << Atom("sig", 0, 1, 1) >> ELSE <<>>)]

ElfStub(text) ==
    [fmt |-> "elf", strndx |-> 2,
     sects |-> << Section(0, 1, text), Section(1, 1 + text, 3),
                  Section(2, 1 + text, 0) >>,
     bytes |-> Run("head", 1) \o Run("text", text)
                 \o << ElfName(".text"), ElfName(".shstrtab"), ElfName(".bss") >>
                 \o Run("shdr", 3)]

PeStub(room, overlay) ==
    LET headers == 2 + 2 + room
        off == RoundUp(headers, FileAlign)
    IN  [fmt |-> "pe", table |-> 2, headers |-> headers,
         sects |-> << PeSection(".text", SectionAlign, 1, off, FileAlign),
                      PeSection(".bss", 2 * SectionAlign, 1, 0, 0) >>,
         imageSize |-> 3 * SectionAlign,
         bytes |-> PadTo(Run("head", headers), FileAlign)
                     \o Run("text", FileAlign) \o Run("overlay", overlay)]

StubSet ==
    { MachoStub(slack, edit, signed) :
          slack \in 0..MaxSlack, edit \in 2..3, signed \in BOOLEAN }
    \union { ElfStub(text) : text \in 1..MaxText }
    \union { PeStub(room, overlay) : room \in 0..MaxRoom, overlay \in 0..1 }
============================================================================
