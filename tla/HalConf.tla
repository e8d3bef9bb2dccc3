------------------------------ MODULE HalConf ------------------------------
(***************************************************************************)
(* The configuration templates of the vendor's drivers, as the             *)
(* preprocessor reads them once the application has adapted them:          *)
(* templates/stm32f{1,3,7}/stm32f{1,3,7}xx_hal_conf.h, and the archives    *)
(* of cmake/external/hal/stm32f{1,3,7}.cmake                               *)
(*                                                                         *)
(* Two parts of a template matter: the list of modules, some lines of      *)
(* which are commented out, and one conditional #include for each module.  *)
(* (The values between them, of oscillators and the like, are left out.)   *)
(* The application edits the list, a line at a time, by commenting lines   *)
(* in or out.  The order of lines inside the list tells nothing apart, so  *)
(* the lines that the template has commented out come first here.          *)
(***************************************************************************)
EXTENDS Naturals, Sequences, FiniteSets

CONSTANT MaxEdits \* bound: lines that the application edits

ASSUME MaxEditsAssumption == MaxEdits \in Nat

VARIABLES
    family,   \* whose template it is: "F1", "F3" or "F7"
    part,     \* "list", "includes" or "end"
    at,       \* the next entry of that part
    edited,   \* the lines of the list that the application has changed
    enabled,  \* the modules M for which HAL_M_MODULE_ENABLED is defined
    included  \* the headers read, in order

vars == <<family, part, at, edited, enabled, included>>
-----------------------------------------------------------------------------
(***************************************************************************)
(* The templates.                                                          *)
(***************************************************************************)
F1Commented ==
    <<"ADC", "CRYP", "CAN", "CAN_LEGACY", "CEC", "CORTEX", "CRC", "DAC", "DMA",
      "ETH", "FLASH", "I2C", "I2S", "IRDA", "IWDG", "NOR", "NAND", "PCCARD",
      "PCD", "HCD", "PWR", "RCC", "RTC", "SD", "MMC", "SDRAM", "SMARTCARD",
      "SPI", "SRAM", "TIM", "UART", "USART", "WWDG">>
F1Active_Uart ==
    <<"GPIO", "CORTEX", "DMA", "FLASH", "EXTI", "GPIO", "PWR", "RCC", "UART">>
F1Active ==
    <<"GPIO", "CORTEX", "DMA", "FLASH", "EXTI", "GPIO", "PWR", "RCC">>
F1Includes ==
    <<"RCC", "GPIO", "EXTI", "DMA", "ETH", "CAN", "CAN_LEGACY", "CEC",
      "CORTEX", "ADC", "CRC", "DAC", "FLASH", "SRAM", "NOR", "I2C", "I2S",
      "IWDG", "PWR", "RTC", "PCCARD", "SD", "NAND", "SPI", "TIM", "UART",
      "USART", "IRDA", "SMARTCARD", "WWDG", "PCD", "HCD", "MMC">>
F1Archive ==
    {"GPIO", "TIM", "RCC", "DMA", "CORTEX", "PWR", "FLASH", "EXTI"}

F3Commented ==
    <<"ADC", "CRYP", "CAN", "CEC", "NAND", "NOR", "PCCARD", "SRAM", "HRTIM",
      "OPAMP", "SDADC", "TSC", "COMP", "CRC", "CRYP", "DAC", "I2S", "IWDG",
      "LCD", "LPTIM", "RNG", "RTC", "TIM", "UART", "USART", "IRDA",
      "SMARTCARD", "SMBUS", "WWDG", "PCD", "CAN_LEGACY">>
F3Active_SpiTwice ==
    <<"SPI", "SPI", "GPIO", "EXTI", "DMA", "RCC", "FLASH", "PWR", "CORTEX",
      "I2C">>
F3Active ==
    <<"SPI", "GPIO", "EXTI", "DMA", "RCC", "FLASH", "PWR", "CORTEX", "I2C">>
F3Includes ==
    <<"RCC", "GPIO", "EXTI", "DMA", "CORTEX", "ADC", "CAN", "CAN_LEGACY",
      "CEC", "COMP", "CRC", "DAC", "FLASH", "SRAM", "NOR", "NAND", "PCCARD",
      "HRTIM", "I2C", "I2S", "IRDA", "IWDG", "OPAMP", "PCD", "PWR", "RTC",
      "SDADC", "SMARTCARD", "SMBUS", "SPI", "TIM", "TSC", "UART", "USART",
      "WWDG">>
F3Archive ==
    {"TIM", "RCC", "GPIO", "DMA", "CORTEX", "PWR", "FLASH", "EXTI"}

F7Commented ==
    <<"CRYP", "ADC", "CAN", "CEC", "CRC", "DAC", "DCMI", "DMA2D", "ETH",
      "ETH_LEGACY", "NAND", "NOR", "SRAM", "SDRAM", "HASH", "I2S", "IWDG",
      "LPTIM", "LTDC", "QSPI", "RNG", "RTC", "SAI", "SD", "MMC", "SPDIFRX",
      "SPI", "TIM", "USART", "IRDA", "SMARTCARD", "WWDG", "PCD", "HCD",
      "DFSDM", "DSI", "JPEG", "MDIOS", "SMBUS", "EXTI">>
F7Active ==
    <<"UART", "GPIO", "EXTI", "DMA", "RCC", "FLASH", "PWR", "I2C", "CORTEX">>
F7Includes ==
    <<"RCC", "EXTI", "GPIO", "DMA", "CORTEX", "ADC", "CAN", "CEC", "CRC",
      "CRYP", "DMA2D", "DAC", "DCMI", "ETH", "ETH_LEGACY", "FLASH", "SRAM",
      "NOR", "NAND", "SDRAM", "HASH", "I2C", "I2S", "IWDG", "LPTIM", "LTDC",
      "PWR", "QSPI", "RNG", "RTC", "SAI", "SD", "MMC", "SPDIFRX", "SPI",
      "TIM", "UART", "USART", "IRDA", "SMARTCARD", "WWDG", "PCD", "HCD",
      "DFSDM", "DSI", "JPEG", "MDIOS", "SMBUS">>
F7Archive ==
    {"GPIO", "TIM", "RCC", "DMA", "CORTEX", "PWR", "FLASH", "EXTI"}

Pick(f1, f3, f7) ==
    CASE family = "F1" -> f1 [] family = "F3" -> f3 [] family = "F7" -> f7

Commented == Pick(F1Commented, F3Commented, F7Commented)
Listed    == Commented \o Pick(F1Active, F3Active, F7Active)
Active(i) == i > Len(Commented)
Includes  == Pick(F1Includes, F3Includes, F7Includes)
Archive   == Pick(F1Archive, F3Archive, F7Archive)

\* The modules whose handles hold a DMA_HandleTypeDef: their headers need
\* that of DMA.
DmaUsers ==
    {"ADC", "CRYP", "DAC", "DCMI", "DFSDM", "HASH", "HRTIM", "I2C", "I2S",
     "IRDA", "JPEG", "MMC", "QSPI", "SAI", "SD", "SDADC", "SDRAM",
     "SMARTCARD", "SPDIFRX", "SPI", "SRAM", "TIM", "UART", "USART"}
-----------------------------------------------------------------------------
ConfInit ==
    /\ family \in {"F1", "F3", "F7"}
    /\ part = "list" /\ at = 1
    /\ edited = {} /\ enabled = {} /\ included = <<>>

GoOn(n, then) ==
    IF at < n THEN at' = at + 1 /\ UNCHANGED part
              ELSE at' = 1 /\ part' = then

\* A line of the list, as it is in the template.
Keep ==
    /\ part = "list"
    /\ enabled' = IF Active(at) THEN enabled \cup {Listed[at]} ELSE enabled
    /\ GoOn(Len(Listed), "includes")
    /\ UNCHANGED <<family, edited, included>>

\* A line of the list that the application has commented in or out.
Edit ==
    /\ part = "list"
    /\ Cardinality(edited) < MaxEdits
    /\ edited' = edited \cup {at}
    /\ enabled' = IF Active(at) THEN enabled ELSE enabled \cup {Listed[at]}
    /\ GoOn(Len(Listed), "includes")
    /\ UNCHANGED <<family, included>>

\* #ifdef HAL_..._MODULE_ENABLED #include
Include_Backwards ==
    /\ part = "includes"
    /\ LET m == Includes[Len(Includes) + 1 - at] IN
         included' = IF m \in enabled THEN Append(included, m) ELSE included
    /\ GoOn(Len(Includes), "end")
    /\ UNCHANGED <<family, edited, enabled>>
Include ==
    /\ part = "includes"
    /\ included' = IF Includes[at] \in enabled
                     THEN Append(included, Includes[at]) ELSE included
    /\ GoOn(Len(Includes), "end")
    /\ UNCHANGED <<family, edited, enabled>>

ConfNext == Keep \/ Edit \/ Include

ConfSpec == ConfInit /\ [][ConfNext]_vars
-----------------------------------------------------------------------------
(***************************************************************************)
(* Properties.                                                             *)
(***************************************************************************)
Read(m) == \E i \in 1 .. Len(included) : included[i] = m

(***************************************************************************)
(* Whatever the application enables, a header that needs that of DMA is    *)
(* read after it, unless the application has switched DMA off: the order   *)
(* of the #include lines is right for every choice of modules.             *)
(***************************************************************************)
NeedsComeFirst ==
    "DMA" \in enabled /\ part \in {"includes", "end"} =>
        \A m \in DmaUsers : \A j \in 1 .. Len(included) :
            included[j] = m => \E i \in 1 .. j - 1 : included[i] = "DMA"

(***************************************************************************)
(* To comment a line in or out switches its module on or off, unless       *)
(* another line of the list keeps it on.  Exactly these lines change       *)
(* nothing: the two that enable GPIO in the F1's list, and those that the  *)
(* F1's and F7's lists have commented out although an active line further  *)
(* down names the same module.                                             *)
(***************************************************************************)
OnTwice  == Pick({"GPIO"}, {}, {})
OnAnyway == Pick({"CORTEX", "DMA", "FLASH", "PWR", "RCC"}, {}, {"EXTI"})

OnInTemplate(m) == \E k \in 1 .. Len(Listed) : Active(k) /\ Listed[k] = m

EditDecides ==
    part = "end" =>
        \A i \in edited :
            (\A j \in edited \ {i} : Listed[j] # Listed[i])
            => ((Listed[i] \in enabled <=> OnInTemplate(Listed[i]))
                  <=> Listed[i] \in IF Active(i) THEN OnTwice ELSE OnAnyway)

(***************************************************************************)
(* An enabled module can be used: its header is read, and if it is the     *)
(* template that enables it, its source is in the archive that the build   *)
(* makes of the drivers (of any other the application must compile the     *)
(* source itself).  Exactly the modules named here fall out: lines of the  *)
(* F1's and F3's lists that no #include answers, and modules that the F3's *)
(* and F7's templates enable and their archives lack.                      *)
(***************************************************************************)
NoHeader == Pick({"CRYP", "SDRAM"}, {"CRYP", "LCD", "LPTIM", "RNG"}, {})
NotBuilt == Pick({}, {"SPI", "I2C"}, {"UART", "I2C"})

EnabledIsUsable ==
    part = "end" =>
        \A m \in enabled :
            /\ Read(m) <=> m \notin NoHeader
            /\ (\A i \in edited : Listed[i] # m)
                 => (m \in Archive <=> m \notin NotBuilt)

(***************************************************************************)
(* The inductive invariant behind them: what the preprocessor has defined  *)
(* and read, from the lines that it has been through.                      *)
(***************************************************************************)
LinesRead  == IF part = "list" THEN 1 .. at - 1 ELSE 1 .. Len(Listed)
HeadersAsked == IF part = "list" THEN {}
                ELSE IF part = "includes" THEN 1 .. at - 1
                                          ELSE 1 .. Len(Includes)

\* Does line i of the list define its macro?
SwitchedOn(i) == Active(i) <=> i \notin edited

ConfTypeOK ==
    /\ family \in {"F1", "F3", "F7"}
    /\ part \in {"list", "includes", "end"}
    /\ at \in Nat \ {0}
    /\ part = "list" => at <= Len(Listed)
    /\ part = "includes" => at <= Len(Includes)
    /\ edited \subseteq LinesRead
    /\ included \in Seq({Includes[i] : i \in 1 .. Len(Includes)})

EnabledInv == enabled = {Listed[i] : i \in {k \in LinesRead : SwitchedOn(k)}}

IncludedInv ==
    /\ {included[j] : j \in 1 .. Len(included)}
         = {Includes[i] : i \in HeadersAsked} \cap enabled
    /\ NeedsComeFirst
=============================================================================
