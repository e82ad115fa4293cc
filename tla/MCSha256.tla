------------------------------ MODULE MCSha256 ------------------------------
\* Sha256 with the real block and length field, on files of the sizes that
\* tests/test_c_interop.py picks around the padding boundaries.
EXTENDS Sha256

\* Byte k of every file.
Content(n) == [k \in 1..n |-> (37 * k) % 256]

Sizes == {0, 1, 55, 56, 57, 63, 64, 65, 119, 120, 128}

\* hashlib.sha256 of Content(n).
Hashlib(n) ==
    CASE n = 0 -> <<227, 176, 196, 66, 152, 252, 28, 20, 154, 251, 244, 200, 153, 111, 185, 36,
            39, 174, 65, 228, 100, 155, 147, 76, 164, 149, 153, 27, 120, 82, 184, 85>>
      [] n = 1 -> <<187, 243, 241, 28, 181, 180, 62, 112, 2, 115, 167, 141, 18, 222, 85, 228,
            167, 234, 183, 65, 237, 42, 191, 19, 120, 122, 77, 45, 200, 50, 184, 236>>
      [] n = 55 -> <<136, 238, 124, 6, 194, 177, 98, 79, 215, 139, 157, 39, 59, 126, 112, 123,
            131, 167, 182, 163, 51, 165, 94, 156, 113, 10, 75, 26, 136, 25, 74, 152>>
      [] n = 56 -> <<166, 163, 231, 30, 219, 199, 181, 45, 7, 238, 157, 52, 192, 65, 11, 215,
            242, 93, 236, 26, 218, 93, 111, 34, 181, 229, 198, 65, 46, 169, 195, 56>>
      [] n = 57 -> <<226, 172, 164, 0, 93, 207, 100, 238, 239, 123, 45, 146, 59, 107, 80, 57,
            48, 103, 32, 86, 153, 126, 44, 16, 17, 168, 34, 141, 94, 46, 146, 243>>
      [] n = 63 -> <<186, 71, 159, 9, 34, 172, 171, 38, 87, 124, 147, 46, 229, 100, 18, 85,
            233, 24, 89, 23, 175, 205, 143, 39, 249, 82, 210, 57, 21, 231, 141, 54>>
      [] n = 64 -> <<92, 190, 42, 194, 60, 129, 26, 233, 220, 227, 85, 109, 80, 36, 197, 210,
            18, 156, 130, 251, 66, 211, 85, 67, 215, 151, 148, 139, 107, 97, 182, 87>>
      [] n = 65 -> <<136, 243, 101, 191, 217, 11, 1, 42, 56, 204, 97, 168, 6, 145, 176, 220,
            171, 126, 3, 159, 52, 156, 130, 130, 3, 38, 221, 38, 89, 139, 62, 121>>
      [] n = 119 -> <<186, 101, 89, 211, 137, 235, 119, 176, 109, 169, 134, 172, 70, 33, 200, 240,
            21, 195, 192, 186, 37, 23, 225, 11, 190, 44, 212, 188, 121, 70, 229, 144>>
      [] n = 120 -> <<134, 148, 249, 162, 204, 219, 27, 220, 67, 221, 38, 50, 233, 245, 205, 72,
            88, 101, 98, 175, 11, 117, 222, 61, 57, 11, 50, 173, 49, 205, 186, 60>>
      [] n = 128 -> <<209, 20, 55, 147, 50, 216, 130, 54, 3, 161, 120, 216, 23, 42, 154, 33,
            129, 47, 211, 31, 154, 203, 182, 208, 89, 215, 72, 180, 48, 60, 99, 126>>

MCFiles == {Content(n) : n \in Sizes}

MCKnown == [f \in MCFiles |-> Hashlib(Len(f))]

=============================================================================
