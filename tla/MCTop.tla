------------------------------- MODULE MCTop -------------------------------
(* Programs for Top: the calls of main() in small.                         *)
EXTENDS Top

Reset == [op |-> "reset_lcd"]
Start == [op |-> "start_lcd"]
Command(c, p) == [op |-> "send_command", cmd |-> c, params |-> p]
Configure(a, s) == [op |-> "configure_image", addr |-> a, size |-> s]

\* main(): reset, initialise, show an image longer than the FIFO; then what
\* other programs do: a command behind an image, an image behind a command,
\* and an image longer than the FIFO right behind a short one.
MainProgram == <<Reset, Command(1, <<>>), Command(2, <<3, 4>>),
                 Configure(16, 16), Start, Command(5, <<6>>),
                 Configure(0, 8), Start, Configure(32, 16), Start>>

\* The same image twice, shorter than the FIFO.
ShortTwice == <<Reset, Configure(0, 8), Start, Start>>

\* What a restarted program finds half done: a command, an image.
RestartProgram == <<Reset, Command(2, <<3>>), Configure(16, 4), Start>>

\* The same with two images, whose addresses and lengths share no half, and with
\* no command before the first: an old start flag is still up when it is
\* configured again.
TwoImages == <<Reset, Configure(16, 4), Start, Configure(44, 8), Start,
               Command(2, <<3>>)>>

\* No action reads what the display has taken so far: a view without it is
\* sound for the properties that do not mention it either.
WithoutHistory == <<cpu_vars, reg_vars, dma_vars, mem_vars, fifo_vars,
                    lcd_vars, held, restarts, keys>>
=============================================================================
