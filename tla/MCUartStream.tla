---------------------------- MODULE MCUartStream ----------------------------
\* UartStream for TLC: a longest frame and a shortest one that ends as the
\* magic begins, and one with the magic across a header field and its payload.
EXTENDS UartStream

TestMessages ==
    { [field |-> 0, payload |-> <<0, 0>>, crc |-> 0],
      [field |-> 0, payload |-> <<>>,     crc |-> A],
      [field |-> A, payload |-> <<L>>,    crc |-> 0] }

=============================================================================
